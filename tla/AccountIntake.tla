--------------------------- MODULE AccountIntake ----------------------------
(***************************************************************************)
(* How accounts enter the pool: the administrator's add and import         *)
(* (src/api/admin.py, TokenManager.add_token and update_token), the        *)
(* plugin's sync (_upsert_plugin_account), and the native browser          *)
(* onboarding (src/services/account_onboarding.py with the launcher        *)
(* closure of admin.py), over the table tokens.                            *)
(*                                                                         *)
(* Each of them looks for the account, talks to Flow, and only then        *)
(* writes; nothing but the unique column st keeps two of them apart.  A    *)
(* job is one call; a job of kind "onboard" is one onboarding session and  *)
(* the name of its browser profile.                                        *)
(***************************************************************************)
EXTENDS Naturals, Sequences, FiniteSets, FiniteSetsExt

CONSTANTS Jobs,       \* calls, each made once
          KindOf,     \* "add", "import", "plugin" or "onboard"
          Sts,        \* session tokens
          EmailOf,    \* the account a session token belongs to
          MaxId,      \* bound: rows ever inserted
          MaxItems,   \* bound: length of an import
          MaxEvents,  \* bound: deletions, operator switches and restarts
          NoOne

Kinds == {"add", "import", "plugin", "onboard"}

ASSUME IntakeAssumption ==
    /\ KindOf \in [Jobs -> Kinds]
    /\ MaxId \in Nat \ {0} /\ MaxItems \in Nat \ {0} /\ MaxEvents \in Nat
    /\ NoOne \notin Jobs \cup Sts
    /\ DOMAIN EmailOf = Sts

VARIABLES rows,      \* table tokens, by id
          inserted,  \* ids given out (AUTOINCREMENT)
          job,       \* the coroutine of each call
          active,    \* _active_session_id
          browsers,  \* onboarding sessions whose browser is up
          profiles,  \* profile directories
          events

intakeVars == <<rows, inserted, job, active, browsers, profiles, events>>

Ids == 1..MaxId
Stored == DOMAIN rows
Emails == {EmailOf[st] : st \in Sts}
Fresh == [pc |-> "idle", st |-> NoOne, rest |-> <<>>, known |-> [e \in Emails |-> 0], id |-> 0,
          was |-> TRUE, kept |-> FALSE, before |-> {}, made |-> 0, answer |-> "none"]
Onboards == {j \in Jobs : KindOf[j] = "onboard"}

Step(j, change) == job' = [job EXCEPT ![j] = change]
Goes(j, pc) == Step(j, [job[j] EXCEPT !.pc = pc])
Quiet == UNCHANGED <<rows, inserted, active, browsers, profiles, events>>

OfEmail(e) == {i \in Stored : EmailOf[rows[i].st] = e}
ByEmail(st) == OfEmail(EmailOf[st])
BySt(st) == {i \in Stored : rows[i].st = st}

\* get_token_by_email and the import's first hit of ORDER BY created_at DESC.
Oldest(ids) == IF ids = {} THEN 0 ELSE Min(ids)
Newest(ids) == IF ids = {} THEN 0 ELSE Max(ids)

\* Where a call goes with its result: an import turns to its next item, a
\* browser session closes its browser, the others answer.
After(j, result, record) ==
    LET next == IF KindOf[j] = "onboard" THEN "close"
                ELSE IF KindOf[j] = "import" /\ record.rest # <<>> THEN "item"
                ELSE "done"
    IN  [record EXCEPT !.pc = next, !.answer = result]

Ends(j, result) == Step(j, After(j, result, job[j]))

IntakeInit ==
    /\ rows = <<>>
    /\ inserted = 0
    /\ job = [j \in Jobs |-> Fresh]
    /\ active = NoOne
    /\ browsers = {} /\ profiles = {}
    /\ events = 0

----------------------------------------------------------------------------
(***************************************************************************)
(* The calls begin.                                                        *)
(***************************************************************************)
\* add_token of admin.py goes straight to the token manager.
BeginAdd(j, st) ==
    /\ KindOf[j] = "add" /\ job[j].pc = "idle"
    /\ Step(j, [job[j] EXCEPT !.pc = "check", !.st = st])
    /\ Quiet

\* _upsert_plugin_account.
BeginPlugin(j, st) ==
    /\ KindOf[j] = "plugin" /\ job[j].pc = "idle"
    /\ Step(j, [job[j] EXCEPT !.pc = "convert", !.st = st, !.before = Stored])
    /\ Quiet

\* import_tokens: existing_by_email is read once, before the first item.
BeginImport(j, items) ==
    /\ KindOf[j] = "import" /\ job[j].pc = "idle"
    /\ Step(j, [job[j] EXCEPT !.pc = "item", !.rest = items, !.before = Stored,
                              !.known = [e \in Emails |-> Newest(OfEmail(e))]])
    /\ Quiet

\* An item of an import knows what the snapshot had and what this import has
\* added; an addition that failed halfway left a row it does not know.
NextItem(j) ==
    /\ job[j].pc = "item"
    /\ LET st == Head(job[j].rest)
           added == IF job[j].answer = "added" THEN {job[j].made} ELSE {}
           known == IF added = {} THEN job[j].known
                    ELSE [job[j].known EXCEPT ![EmailOf[job[j].st]] = job[j].made]
       IN  Step(j, [job[j] EXCEPT !.pc = "convert", !.st = st, !.rest = Tail(@), !.known = known,
                       !.id = known[EmailOf[st]], !.before = @ \cup added, !.made = 0])
    /\ Quiet

\* AccountOnboardingService.start: while a session is under way it is
\* returned instead of a new one.
StartSession(j) ==
    /\ KindOf[j] = "onboard" /\ job[j].pc = "idle"
    /\ active = NoOne
    /\ active' = j
    /\ Goes(j, "launch")
    /\ UNCHANGED <<rows, inserted, browsers, profiles, events>>

----------------------------------------------------------------------------
(***************************************************************************)
(* Finding the account.                                                    *)
(***************************************************************************)
\* st_to_at: Flow refuses the session, or names the account.
Converts(j, next) == Ends(j, "failed") \/ Goes(j, next)

\* The plugin's sync.
PluginConverts(j) ==
    /\ KindOf[j] = "plugin" /\ job[j].pc = "convert"
    /\ Converts(j, "lookup")
    /\ Quiet

\* An import's item.
ImportConverts(j) ==
    /\ KindOf[j] = "import" /\ job[j].pc = "convert"
    /\ Converts(j, IF job[j].id = 0 THEN "check" ELSE "update")
    /\ Quiet

\* The onboarding also has Flow accept the access token.
OnboardConverts(j) ==
    /\ KindOf[j] = "onboard" /\ job[j].pc = "convert"
    /\ Converts(j, "lookup")
    /\ Quiet

\* Mutant of Lookup: the account is looked for by its session.
LookupBySession(j) ==
    /\ job[j].pc = "lookup"
    /\ LET i == Oldest(BySt(job[j].st))
       IN  Step(j, IF i = 0 THEN [job[j] EXCEPT !.pc = "check"]
                   ELSE [job[j] EXCEPT !.pc = "update", !.id = i, !.was = rows[i].active])
    /\ Quiet

\* get_token_by_email.
Lookup(j) ==
    /\ job[j].pc = "lookup"
    /\ LET i == Oldest(ByEmail(job[j].st))
       IN  Step(j, IF i = 0 THEN [job[j] EXCEPT !.pc = "check"]
                   ELSE [job[j] EXCEPT !.pc = "update", !.id = i, !.was = rows[i].active])
    /\ Quiet

----------------------------------------------------------------------------
(***************************************************************************)
(* TokenManager.add_token.                                                 *)
(***************************************************************************)
\* Only the session is looked for.
Check(j) ==
    /\ job[j].pc = "check"
    /\ IF BySt(job[j].st) # {} THEN Ends(j, "failed") ELSE Goes(j, "prepare")
    /\ Quiet

\* The session is converted (again, but for the administrator's add), ...
Prepare(j) ==
    /\ job[j].pc = "prepare"
    /\ Converts(j, "credits")
    /\ Quiet

\* ... get_credits has Flow accept the access token, ...
Credits(j) ==
    /\ job[j].pc = "credits"
    /\ Ends(j, "failed") \/ Goes(j, "project")
    /\ Quiet

\* ... and the first project of the account is created at Flow, or given.
FirstProject(j) ==
    /\ job[j].pc = "project"
    /\ Ends(j, "failed") \/ Goes(j, "insert")
    /\ Quiet

\* A new row: switched on, its profile not yet known.
NewRow(st) == [st |-> st, active |-> TRUE, profile |-> NoOne]

\* Database.add_token; st is UNIQUE.
Insert(j) ==
    /\ job[j].pc = "insert" /\ inserted < MaxId
    /\ LET i == inserted + 1
           st == job[j].st
       IN  IF BySt(st) # {}
           THEN Ends(j, "failed") /\ UNCHANGED <<rows, inserted>>
           ELSE /\ inserted' = i
                /\ rows' = [k \in Stored \cup {i} |->
                              IF k = i THEN NewRow(st) ELSE rows[k]]
                /\ Step(j, [job[j] EXCEPT !.pc = "pool", !.id = i, !.made = i])
    /\ UNCHANGED <<active, browsers, profiles, events>>

\* The other projects of the pool are created: a failure leaves the row, ...
PoolFails(j) ==
    /\ job[j].pc = "pool"
    /\ Ends(j, "failed")
    /\ Quiet

\* ... and with all of them the caller goes on: an answer, ...
AddReturns(j) ==
    /\ KindOf[j] = "add" /\ job[j].pc = "pool"
    /\ Ends(j, "added")
    /\ Quiet

PluginReturns(j) ==
    /\ KindOf[j] = "plugin" /\ job[j].pc = "pool"
    /\ Ends(j, "added")
    /\ Quiet

\* ... the switching off of an account whose session has expired, ...
ImportReturns(j) ==
    /\ KindOf[j] = "import" /\ job[j].pc = "pool"
    /\ Ends(j, "added") \/ Goes(j, "disable")
    /\ Quiet

\* ... or the profile.
OnboardReturns(j) ==
    /\ KindOf[j] = "onboard" /\ job[j].pc = "pool"
    /\ Goes(j, "profile")
    /\ Quiet

----------------------------------------------------------------------------
(***************************************************************************)
(* Updating.                                                               *)
(***************************************************************************)
\* UPDATE tokens SET ... WHERE id: a row that is gone stays gone.
Writes(i, row) ==
    /\ rows' = [k \in Stored |-> IF k = i THEN row ELSE rows[k]]
    /\ UNCHANGED <<inserted, active, browsers, profiles, events>>

RowOf(j) == IF job[j].id \in Stored THEN rows[job[j].id]
            ELSE [st |-> job[j].st, active |-> FALSE, profile |-> NoOne]

Conflict(j) == job[j].id \in Stored /\ BySt(job[j].st) \ {job[j].id} # {}

\* TokenManager.update_token.
UpdateToken(j) == ~Conflict(j) /\ Writes(job[j].id, [RowOf(j) EXCEPT !.st = job[j].st])

\* The plugin's sync switches an account on that was off when it was found.
PluginUpdates(j) ==
    /\ KindOf[j] = "plugin" /\ job[j].pc = "update"
    /\ UpdateToken(j)
    /\ \/ ~job[j].was /\ Goes(j, "enable")
       \/ Ends(j, "updated")

\* An import switches one off whose session has expired.
ImportUpdates(j) ==
    /\ KindOf[j] = "import" /\ job[j].pc = "update"
    /\ UpdateToken(j)
    /\ Goes(j, "disable") \/ Ends(j, "updated")

\* The unique column refuses a session that another row has.
UpdateConflicts(j) ==
    /\ job[j].pc = "update" /\ Conflict(j)
    /\ Ends(j, "failed")
    /\ Quiet

Switch(j) ==
    /\ job[j].pc \in {"enable", "disable"}
    /\ Writes(job[j].id, [RowOf(j) EXCEPT !.active = job[j].pc = "enable"])
    /\ Ends(j, IF job[j].made # 0 THEN "added" ELSE "updated")

\* _persist_native_onboarding_result writes the session and the profile of an
\* account that is there, or the profile of the row it has just added.  The
\* deadline may strike between the commit and the launcher's note of it.
PersistProfile(j) ==
    /\ KindOf[j] = "onboard"
    /\ \/ job[j].pc = "update" /\ ~Conflict(j)
       \/ job[j].pc = "profile"
    /\ Writes(job[j].id, [RowOf(j) EXCEPT !.profile = j,
                             !.st = IF job[j].pc = "update" THEN job[j].st ELSE @])
    /\ LET result == IF job[j].made # 0 THEN "added" ELSE "updated"
       IN  \/ Step(j, [job[j] EXCEPT !.pc = "close", !.kept = TRUE, !.answer = result])
           \/ Step(j, [job[j] EXCEPT !.pc = "close", !.answer = "timeout"])

----------------------------------------------------------------------------
(***************************************************************************)
(* The onboarding session around it.                                       *)
(***************************************************************************)
\* launch_browser: a profile and a browser for it.
Launch(j) ==
    /\ job[j].pc = "launch"
    /\ profiles' = profiles \cup {j}
    /\ browsers' = browsers \cup {j}
    /\ Goes(j, "login")
    /\ UNCHANGED <<rows, inserted, active, events>>

\* capture_account_onboarding_result: the user logs in, or the browser fails.
CaptureResult(j) ==
    /\ job[j].pc = "login"
    /\ \/ Ends(j, "failed")
       \/ \E st \in Sts : Step(j, [job[j] EXCEPT !.pc = "convert", !.st = st, !.before = Stored])
    /\ Quiet

\* asyncio.timeout cancels the launcher at whatever it awaits.
Deadline(j) ==
    /\ KindOf[j] = "onboard"
    /\ job[j].pc \in {"launch", "login", "convert", "lookup", "check", "prepare", "credits",
                      "project", "insert", "pool", "profile", "update"}
    /\ Ends(j, "timeout")
    /\ Quiet

\* Mutant of Close: the profile is removed whenever the session was not new.
CloseRemovesUpdated(j) ==
    /\ job[j].pc = "close"
    /\ browsers' = browsers \ {j}
    /\ profiles' = IF job[j].kept /\ job[j].made # 0 THEN profiles ELSE profiles \ {j}
    /\ Goes(j, "finish")
    /\ UNCHANGED <<rows, inserted, active, events>>

\* The launcher's finally: browser.close, and the profile goes unless it is
\* noted as persisted.
Close(j) ==
    /\ job[j].pc = "close"
    /\ browsers' = browsers \ {j}
    /\ profiles' = IF job[j].kept THEN profiles ELSE profiles \ {j}
    /\ Goes(j, "finish")
    /\ UNCHANGED <<rows, inserted, active, events>>

\* Mutant of Finish: the session stays the active one.
FinishKeepsActive(j) ==
    /\ job[j].pc = "finish"
    /\ Goes(j, "done")
    /\ UNCHANGED <<rows, inserted, active, browsers, profiles, events>>

\* _finish.
Finish(j) ==
    /\ job[j].pc = "finish"
    /\ active' = IF active = j THEN NoOne ELSE active
    /\ Goes(j, "done")
    /\ UNCHANGED <<rows, inserted, browsers, profiles, events>>

----------------------------------------------------------------------------
(***************************************************************************)
(* The rest of the service.                                                *)
(***************************************************************************)
Event == events < MaxEvents /\ events' = events + 1

DeleteRow(i) ==
    /\ Event /\ i \in Stored
    /\ rows' = [k \in Stored \ {i} |-> rows[k]]
    /\ UNCHANGED <<inserted, job, active, browsers, profiles>>

Disable(i) ==
    /\ Event /\ i \in Stored /\ rows[i].active
    /\ rows' = [rows EXCEPT ![i].active = FALSE]
    /\ UNCHANGED <<inserted, job, active, browsers, profiles>>

\* Calls and sessions live in memory; rows and profile directories do not.
Restart ==
    /\ Event
    /\ job' = [j \in Jobs |-> IF job[j].pc \in {"idle", "done"} THEN job[j]
                              ELSE [job[j] EXCEPT !.pc = "done", !.answer = "lost"]]
    /\ active' = NoOne /\ browsers' = {}
    /\ UNCHANGED <<rows, inserted, profiles>>

Progress(j) ==
    \/ NextItem(j) \/ PluginConverts(j) \/ ImportConverts(j) \/ OnboardConverts(j) \/ Lookup(j)
    \/ Check(j) \/ Prepare(j) \/ Credits(j) \/ FirstProject(j) \/ Insert(j) \/ PoolFails(j)
    \/ AddReturns(j) \/ PluginReturns(j) \/ ImportReturns(j) \/ OnboardReturns(j)
    \/ PluginUpdates(j) \/ ImportUpdates(j) \/ UpdateConflicts(j) \/ Switch(j) \/ PersistProfile(j)
    \/ Launch(j) \/ CaptureResult(j) \/ Close(j) \/ Finish(j)

Imports == UNION {[1..n -> Sts] : n \in 1..MaxItems}

IntakeNext ==
    \/ \E j \in Jobs :
          \/ Progress(j) \/ StartSession(j) \/ Deadline(j)
          \/ \E st \in Sts : BeginAdd(j, st) \/ BeginPlugin(j, st)
          \/ \E items \in Imports : BeginImport(j, items)
    \/ \E i \in Ids : DeleteRow(i) \/ Disable(i)
    \/ Restart

IntakeSpec == IntakeInit /\ [][IntakeNext]_intakeVars

\* The timeout of an onboarding session fires, and a cancelled launcher
\* closes its browser.
IntakeFairness == \A j \in Onboards : WF_intakeVars(Deadline(j)) /\ WF_intakeVars(Close(j)) /\ WF_intakeVars(Finish(j))

FairIntakeSpec == IntakeSpec /\ IntakeFairness

----------------------------------------------------------------------------
\* A sync or an import makes no second row for an account that had one when
\* the call began, or that the import itself reported as added, and still
\* has it: only calls that overlap can, or one that failed halfway (the
\* administrator's add does not look for the account at all).
SecondRowNeedsARace ==
    \A j \in Jobs : KindOf[j] # "add" /\ job[j].made \in Stored
        => \A i \in job[j].before \cap Stored : EmailOf[rows[i].st] # EmailOf[job[j].st]

\* An onboarding that reports success leaves the profile it logged in with.
ReportedProfilesExist ==
    \A j \in Onboards : job[j].pc = "done" /\ job[j].answer \in {"added", "updated"} => j \in profiles

\* Every onboarding session ends, and the next one can start.
OnboardingEnds == \A j \in Onboards : (active = j) ~> (active # j /\ j \notin browsers)

=============================================================================
