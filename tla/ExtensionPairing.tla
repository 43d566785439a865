-------------------------- MODULE ExtensionPairing --------------------------
(***************************************************************************)
(* Pairing handles and plugin sessions                                     *)
(* (src/services/extension_pairing.py and the table                        *)
(* extension_plugin_sessions of src/core/database.py).                     *)
(*                                                                         *)
(* A handle is exchanged for one session, so a session is called by the    *)
(* name of its handle.  Handles live in memory only, sessions in memory    *)
(* and in the database.  exchange, verify_session and revoke_public_id     *)
(* hold one asyncio.Lock across their database calls: "lock" holds the     *)
(* processes inside "async with", and each operation is a step that enters *)
(* and steps that go on with the database's answer.  The steps are         *)
(* operators of the process p that runs them; ExtensionCaptcha composes    *)
(* them.                                                                   *)
(***************************************************************************)
EXTENDS Naturals, FiniteSets

CONSTANTS Handles,     \* pairing handles, and the sessions made from them
          Instances,   \* browser profiles; each has its own route key
          InstanceOf,  \* the instance a handle is issued for
          NoOne

ASSUME PairingAssumption ==
    /\ InstanceOf \in [Handles -> Instances]
    /\ NoOne \notin Handles \cup Instances

VARIABLES issued,    \* handles issued so far
          pairings,  \* _pairings
          memory,    \* _sessions
          stored,    \* rows of extension_plugin_sessions
          lapsed,    \* handles whose session is past its expires_at, and
          overdue,   \* handles past their own
          lock,      \* the processes inside "async with _lock"
          made,      \* history: sessions handed out per handle
          revoked    \* history: sessions whose revocation was confirmed

pairingVars == <<issued, pairings, memory, stored, lapsed, overdue, lock, made, revoked>>

----------------------------------------------------------------------------
PairingInit ==
    /\ issued = {} /\ pairings = {} /\ memory = {} /\ stored = {}
    /\ lapsed = {} /\ overdue = {}
    /\ lock = {}
    /\ made = [h \in Handles |-> 0]
    /\ revoked = {}

\* Mutant of Takes: an operation that does not wait for the others.
TakesAtOnce(p) == lock' = lock \cup {p}

Takes(p) == lock = {} /\ lock' = lock \cup {p}

Frees(p) == p \in lock /\ lock' = lock \ {p}

\* The storage raises: async with releases the lock, nothing was written.
StorageRaises(p) ==
    /\ Frees(p)
    /\ UNCHANGED <<issued, pairings, memory, stored, lapsed, overdue, made, revoked>>

\* issue: the lock is free, or is waited for.
Issue(h) ==
    /\ h \notin issued
    /\ lock = {}
    /\ issued' = issued \cup {h}
    /\ pairings' = pairings \cup {h}
    /\ UNCHANGED <<memory, stored, lapsed, overdue, lock, made, revoked>>

Exchangeable(h) == h \in pairings /\ h \notin overdue

\* Mutant of ExchangeTakes: the handle is looked up and not removed.
ExchangeTakesKeepingHandle(p, h) ==
    /\ Takes(p)
    /\ Exchangeable(h)
    /\ memory' = memory \cup {h}
    /\ UNCHANGED <<issued, pairings, stored, lapsed, overdue, made, revoked>>

\* exchange: the handle is consumed before the session is stored, ...
ExchangeTakes(p, h) ==
    /\ Takes(p)
    /\ Exchangeable(h)
    /\ pairings' = pairings \ {h}
    /\ memory' = memory \cup {h}
    /\ UNCHANGED <<issued, stored, lapsed, overdue, made, revoked>>

\* ... also one that came too late; ...
ExchangeRefused(h) ==
    /\ lock = {}
    /\ ~Exchangeable(h)
    /\ pairings' = pairings \ {h}
    /\ UNCHANGED <<issued, memory, stored, lapsed, overdue, lock, made, revoked>>

\* ... create_extension_plugin_session, and the secret goes to the caller.
ExchangeStores(p, h) ==
    /\ Frees(p)
    /\ stored' = stored \cup {h}
    /\ made' = [made EXCEPT ![h] = @ + 1]
    /\ UNCHANGED <<issued, pairings, memory, lapsed, overdue, revoked>>

\* The database has the session, and it is still valid.
Standing(h) == h \in stored \ lapsed

\* verify_session: the lock is taken, the database is asked, which drops
\* every row that has lapsed, ...
VerifyTakes(p) ==
    /\ Takes(p)
    /\ UNCHANGED <<issued, pairings, memory, stored, lapsed, overdue, made, revoked>>

VerifyFinds(p, h) ==
    /\ p \in lock
    /\ Standing(h)
    /\ stored' = stored \ lapsed
    /\ UNCHANGED <<issued, pairings, memory, lapsed, overdue, lock, made, revoked>>

\* ... and memory follows: without a row the session is dropped there, ...
VerifyRefuses(p, h) ==
    /\ ~Standing(h)
    /\ Frees(p)
    /\ stored' = stored \ lapsed
    /\ memory' = memory \ {h}
    /\ UNCHANGED <<issued, pairings, lapsed, overdue, made, revoked>>

\* ... with one it is kept, unless it has lapsed since the row was read.
VerifyKeeps(p, h) ==
    /\ Frees(p)
    /\ IF h \in lapsed
       THEN memory' = memory \ {h} /\ stored' = stored \ {h}
       ELSE memory' = memory \cup {h} /\ UNCHANGED stored
    /\ UNCHANGED <<issued, pairings, lapsed, overdue, made, revoked>>

\* revoke_public_id: a session that memory knows is dropped there, ...
RevokeTakes(p, h) ==
    /\ Takes(p)
    /\ memory' = memory \ {h}
    /\ UNCHANGED <<issued, pairings, stored, lapsed, overdue, made, revoked>>

\* ... one that it does not know is looked for in the database, which may
\* not have it either; ...
RevokeFindsNothing(p, h, known) ==
    /\ ~known /\ ~Standing(h)
    /\ Frees(p)
    /\ stored' = stored \ lapsed
    /\ UNCHANGED <<issued, pairings, memory, lapsed, overdue, made, revoked>>

\* ... and the row is deleted.
RevokeDeletes(p, h, known) ==
    /\ known \/ Standing(h)
    /\ Frees(p)
    /\ stored' = stored \ {h}
    /\ revoked' = revoked \cup {h}
    /\ UNCHANGED <<issued, pairings, memory, lapsed, overdue, made>>

\* The clock passes a deadline.
HandleLapses(h) ==
    /\ h \in pairings \ overdue
    /\ overdue' = overdue \cup {h}
    /\ UNCHANGED <<issued, pairings, memory, stored, lapsed, lock, made, revoked>>

SessionLapses(h) ==
    /\ h \in stored \ lapsed
    /\ lapsed' = lapsed \cup {h}
    /\ UNCHANGED <<issued, pairings, memory, stored, overdue, lock, made, revoked>>

\* The process restarts: handles are lost, sessions are read again when asked for.
PairingRestarts ==
    /\ pairings' = {} /\ memory' = {} /\ lock' = {}
    /\ UNCHANGED <<issued, stored, lapsed, overdue, made, revoked>>

----------------------------------------------------------------------------
\* A handle is exchanged at most once, also by two browsers at once.
HandlesAreUsedOnce == \A h \in Handles : made[h] <= 1

=============================================================================
