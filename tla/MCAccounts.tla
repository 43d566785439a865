----------------------------- MODULE MCAccounts ------------------------------
(***************************************************************************)
(* The recovery of an account's session and the intake of accounts, which  *)
(* share no state: a behaviour is of one of them, and the other stays      *)
(* where it begins.                                                        *)
(*                                                                         *)
(* Recovery as in MCAuthRecovery.  Intake: one account with two sessions;  *)
(* the teams are the calls that meet: an import, of one item if an         *)
(* onboarding session may meet it and of two otherwise, a plugin's sync,   *)
(* the administrator's add, and two onboarding sessions.                   *)
(***************************************************************************)
EXTENDS MCAuthRecovery, AccountIntake, Functions, TLC

VARIABLE part  \* the component that moves

CONSTANTS a1, m1, p1, o1, o2, t1, t2

MCKindOf == a1 :> "add" @@ m1 :> "import" @@ p1 :> "plugin" @@ o1 :> "onboard" @@ o2 :> "onboard"
MCKinds == [j \in Jobs |-> MCKindOf[j]]
Teams == {{m1, p1}, {m1, o1}, {p1, o1}, {o1, o2}, {a1, m1}, {a1, o1}, {a1, p1}}
MCEmailOf == [st \in Sts |-> "user"]

\* Both sessions are of one account: which is named first does not matter.
Named == UNION {{job[j].st} \cup Range(job[j].rest) : j \in Jobs} \cap Sts
FirstNamed ==
    Named = {} => \A j \in Jobs : job'[j].st # t2 /\ (job'[j].rest # <<>> => job'[j].rest[1] = t1)

OneItem == Len(job'[m1].rest) > 1 => \A j \in Onboards : job[j].pc = "done"

TeamsInit ==
    /\ rows = <<>> /\ inserted = 0
    /\ \E team \in IF part = "intake" THEN Teams ELSE {{}} :
          job = [j \in Jobs |-> IF j \in team THEN Fresh ELSE [Fresh EXCEPT !.pc = "done"]]
    /\ active = NoOne /\ browsers = {} /\ profiles = {} /\ events = 0

\* Where the recovery stays: an account set up for no renewal, so that no
\* step is due that fairness asks for.
AtRest == Init /\ row.st = s1 /\ row.profile = k1 /\ ~row.fresh /\ Off = 1 .. 4

MCInit ==
    /\ part \in {"recovery", "intake"}
    /\ IF part = "recovery" THEN RecoveryInit ELSE AtRest
    /\ TeamsInit
MCNext ==
    /\ \/ part = "recovery" /\ RecoveryNext /\ UNCHANGED intakeVars
       \/ part = "intake" /\ IntakeNext /\ FirstNamed /\ OneItem /\ UNCHANGED vars
    /\ UNCHANGED part
MCSpec == MCInit /\ [][MCNext]_<<vars, intakeVars, part>>
MCFairSpec == MCSpec /\ Fairness /\ IntakeFairness
=============================================================================
