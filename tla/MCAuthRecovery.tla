--------------------------- MODULE MCAuthRecovery ---------------------------
(***************************************************************************)
(* An instance of AuthRecovery.  Either two callers share the refresh of   *)
(* the account, the refresher competes and the account may be deleted; or  *)
(* two re-logins overlap with edits; or one re-login meets edits, the      *)
(* refresher, toggles and a restart; or the operator changes the settings  *)
(* of the renewal, one away from on, under a caller and the refresher.     *)
(* Callers begin in order, and so do re-logins, which also make their      *)
(* directories in order: their names do not matter.                        *)
(***************************************************************************)
EXTENDS AuthRecovery

CONSTANTS l1, l2, s1, s2, k1, k2, k3, r1, r2

Settings == <<enabled, row.auto, row.protocol, row.cookies>>
Off == {i \in 1 .. 4 : ~Settings[i]}

RecoveryInit == Init /\ row.st = s1 /\ row.profile = k1 /\ Off = {}

CallersMeet ==
    /\ crashes' = 0 /\ row'.active
    /\ \A l \in Logins : at'[l] = "idle"
    /\ at'[r2] # "idle" => at'[r1] # "idle"
    /\ row'.st # s2 /\ \A a \in Actors : cand'[a] # s2

\* Where nobody asks, nobody reads the expiry or the cached validation.
LoginsMeet ==
    /\ row'.present
    /\ (\A r \in Requests : at'[r] = "idle") /\ ~row'.fresh /\ ~cache'
    /\ at'[l2] # "idle" => /\ at'[l1] # "idle" /\ at'[Refresher] = "idle"
                           /\ row'.active /\ crashes' = 0
    /\ new'[l1] \in {NoKey, k2} /\ new'[l2] \in {NoKey, k3}

SettingsChange == CallersMeet /\ row'.present /\ at'[r2] = "idle" /\ Cardinality(Off') <= 1

\* Only the idle refresher asks whether backoff and interval are over.
ClocksMatter == Elapse \/ Interval => at[Refresher] = "idle"

RecoveryNext ==
    /\ Next /\ ClocksMatter
    /\ \/ Off' = {} /\ (CallersMeet \/ LoginsMeet)
       \/ SettingsChange
RecoverySpec == RecoveryInit /\ [][RecoveryNext]_vars
=============================================================================
