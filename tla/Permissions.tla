----------------------------- MODULE Permissions -----------------------------
(***************************************************************************)
(* Permission settings and the grant ledger of hom-brain                   *)
(* (services/permissions.rs), with settings.set (services/settings.rs) as  *)
(* far as it writes permissions, and the reconciliation at start (lib.rs). *)
(*                                                                         *)
(* The settings hold a profile, toggles and lists of paths; the ledger     *)
(* holds grant rows.  A handler on the Cognition worker validates, writes  *)
(* each setting by itself and then each grant in a transaction of its own, *)
(* so a crash or a store error leaves it half done.  Start-up reconciles   *)
(* the ledger with the settings before any worker runs.  Each transaction  *)
(* on grants appends its ledger event inside (module Ledger).              *)
(***************************************************************************)
EXTENDS Integers, Sequences, FiniteSets

CONSTANTS
    Toggles,    \* the toggles in use, among AllToggles
    Lists,      \* the path lists in use, among AllLists
    Paths,      \* roots, drive scopes
    Covers,     \* pairs <<p, q>> of paths: q starts with the text of p
    Updates,    \* settings objects a caller sends: functions from keys to values
    MaxNow,     \* bound: the clock
    MaxRows,    \* bound: grant rows
    MaxBoots    \* bound: restarts

AllToggles == {"network", "filesystem", "browser", "automation", "shell", "provider_key"}
AllLists == {"local_roots", "local_filesystem_grants", "google_drive_grants"}

\* The toggles sync_setting_grants knows; reconcile_system_grants knows all of them.
Synced == {"network", "automation", "shell"}

Keys == {"profile"} \cup Toggles \cup Lists

Values(k) == IF k = "profile" THEN 0..2 ELSE IF k \in Toggles THEN BOOLEAN ELSE SUBSET Paths

ASSUME InstanceAssumption ==
    /\ Toggles \subseteq AllToggles /\ Lists \subseteq AllLists
    /\ \A u \in Updates : DOMAIN u \subseteq Keys /\ \A k \in DOMAIN u : u[k] \in Values(k)

ASSUME BoundAssumption == MaxNow \in Nat

\* Kind, subject, grantee and capability of a grant to hom-local, in one name.
Targets == {<<t>> : t \in Toggles} \cup (Lists \X Paths)

Never == -1   \* expires_at_s IS NULL

\* The scopes the callers of ensure_system_grant write, and one a user chooses.
Scopes == {"set_profile", "grant_root", "reconcile", "user"}

VARIABLES
    settings,   \* the permissions.* rows of settings
    grants,     \* grant_ledger_entries: rows equal in the columns kept here are one,
                \*   as the queries ask only whether such a row exists
    now,        \* unix_now_s()
    job,        \* the handler on the Cognition worker
    boots,      \* history variable: restarts
    half,       \* history variable: a handler broke off since the start
    closed      \* history variable: roots whose revoke_root has returned and that
                \*   no call has asked to grant since

vars == <<settings, grants, now, job, boots, half, closed>>

Idle == [op |-> "idle"]

Init ==
    /\ settings = [k \in Keys |-> IF k = "profile" THEN 0 ELSE IF k \in Toggles THEN FALSE ELSE {}]
    /\ grants = {} /\ now = 0 /\ job = Idle /\ boots = 0 /\ half = FALSE /\ closed = {}

-----------------------------------------------------------------------------
(* The grant ledger *)

Unexpired(row) == row.expires = Never \/ row.expires > now

ActiveRows(target) == {g \in grants : g.target = target /\ g.state = "active"}

\* active_matching_grant, and the count of grant_is_broadening.
MatchingRows(target, scope) == {g \in ActiveRows(target) : g.scope = scope /\ Unexpired(g)}

NewRow(target, scope, expires) ==
    [target |-> target, scope |-> scope, state |-> "active", expires |-> expires]

\* UPDATE ... SET state, on these rows.
Put(rows, state) == (grants \ rows) \cup {[g EXCEPT !.state = state] : g \in rows}

\* Mutant of create_or_refresh_grant: rows of another scope stay active.
create_or_refresh_grant_Beside(target, scope, expires) ==
    (grants \ {g \in ActiveRows(target) : g.scope = scope}) \cup {NewRow(target, scope, expires)}

\* The active rows of another scope are superseded; the active row of this scope,
\* expired or not, is refreshed, or a row is added.
create_or_refresh_grant(target, scope, expires) ==
    LET same == {g \in ActiveRows(target) : g.scope = scope}
    IN  (Put(ActiveRows(target) \ same, "superseded") \ same) \cup {NewRow(target, scope, expires)}

ensure_system_grant(target, scope) ==
    IF MatchingRows(target, scope) # {} THEN grants
    ELSE create_or_refresh_grant(target, scope, Never)

\* Mutant of revoke_grants: rows that have expired are passed over.
revoke_grants_Unexpired(targets) ==
    Put({g \in UNION {ActiveRows(t) : t \in targets} : Unexpired(g)}, "revoked")

\* Every active row the filter lets through, expired or not.
revoke_grants(targets) == Put(UNION {ActiveRows(t) : t \in targets}, "revoked")

-----------------------------------------------------------------------------
(* Settings handlers *)

\* What the settings say of a target.
Wanted(target) ==
    IF Len(target) = 1 THEN settings[target[1]] ELSE target[2] \in settings[target[1]]

Broader(k, value) ==
    IF k = "profile" THEN value > settings[k]
    ELSE IF k \in Toggles THEN value /\ ~settings[k]
    ELSE ~(value \subseteq settings[k])

\* Mutant of validate_permission_settings: lists are not compared.
validate_permission_settings_NoLists(updates, confirmed) ==
    confirmed \/ \A k \in DOMAIN updates \ Lists : ~Broader(k, updates[k])

validate_permission_settings(updates, confirmed) ==
    confirmed \/ \A k \in DOMAIN updates : ~Broader(k, updates[k])

\* What sync_setting_grants will do: a synced toggle is granted or revoked, the
\* paths of a list are granted.  Other toggles, and paths a list no longer has, are
\* left alone.
SyncTargets(updates) ==
    {[target |-> <<k>>, on |-> updates[k], scope |-> "set_profile"] :
        k \in DOMAIN updates \cap Toggles \cap Synced}
    \cup UNION {{[target |-> <<k, p>>, on |-> TRUE, scope |-> "set_profile"] : p \in updates[k]} :
        k \in DOMAIN updates \cap Lists}

Asked(updates) == IF "local_roots" \in DOMAIN updates THEN updates["local_roots"] ELSE {}

\* permissions.set_profile; and settings.set, which may write other settings as well
\* (enforce_settings_write: only from the workspace profile up).
SetSettings(updates, others, confirmed) ==
    /\ job = Idle
    /\ validate_permission_settings(updates, confirmed)
    /\ others => settings["profile"] >= 1
    /\ job' = [op |-> "set", confirmed |-> confirmed, updates |-> updates,
               sync |-> SyncTargets(updates)]
    /\ closed' = closed \ Asked(updates)
    /\ UNCHANGED <<settings, grants, now, boots, half>>

grant_root(p, confirmed) ==
    LET updates == [k \in {"local_roots"} |-> settings[k] \cup {p}] IN
    /\ job = Idle /\ "local_roots" \in Lists
    /\ validate_permission_settings([k \in {"local_roots"} |-> {p}], confirmed)
    /\ job' = [op |-> "grant_root", confirmed |-> confirmed, updates |-> updates,
               sync |-> {[target |-> <<"local_roots", p>>, on |-> TRUE, scope |-> "grant_root"]}]
    /\ closed' = closed \ {p}
    /\ UNCHANGED <<settings, grants, now, boots, half>>

revoke_root(p) ==
    LET updates == [k \in {"local_roots"} |-> settings[k] \ {p}] IN
    /\ job = Idle /\ "local_roots" \in Lists
    /\ job' = [op |-> "revoke_root", confirmed |-> FALSE, updates |-> updates,
               sync |-> {[target |-> <<"local_roots", p>>, on |-> FALSE, scope |-> "grant_root"]}]
    /\ UNCHANGED <<settings, grants, now, boots, closed, half>>

\* One INSERT OR UPDATE on settings, committed by itself.
persist_settings(k) ==
    /\ job # Idle /\ k \in DOMAIN job.updates
    /\ settings' = [settings EXCEPT ![k] = job.updates[k]]
    /\ job' = [job EXCEPT !.updates = [j \in DOMAIN @ \ {k} |-> @[j]]]
    /\ UNCHANGED <<grants, now, boots, closed, half>>

\* One grant or revocation, a transaction of its own, after all settings.
sync_setting_grants(s) ==
    /\ job # Idle /\ DOMAIN job.updates = {} /\ s \in job.sync
    /\ grants' = IF s.on THEN ensure_system_grant(s.target, s.scope) ELSE revoke_grants({s.target})
    /\ Cardinality(grants') <= MaxRows
    /\ job' = [job EXCEPT !.sync = @ \ {s}]
    /\ closed' = IF job.op = "revoke_root" THEN closed \cup {s.target[2]} ELSE closed
    /\ UNCHANGED <<settings, now, boots, half>>

Return ==
    /\ job # Idle /\ DOMAIN job.updates = {} /\ job.sync = {}
    /\ job' = Idle
    /\ UNCHANGED <<settings, grants, now, boots, closed, half>>

-----------------------------------------------------------------------------
(* Grant handlers *)

\* Confirmation is needed unless an active row of this scope is there.
grants_create(target, expires, confirmed) ==
    /\ job = Idle
    /\ MatchingRows(target, "user") # {} \/ confirmed
    /\ grants' = create_or_refresh_grant(target, "user", expires)
    /\ Cardinality(grants') <= MaxRows
    /\ closed' = IF Len(target) = 2 THEN closed \ {target[2]} ELSE closed
    /\ UNCHANGED <<settings, now, job, boots, half>>

\* By target, or everything when the caller names none.
grants_revoke(targets) ==
    /\ job = Idle
    /\ \E t \in targets : ActiveRows(t) # {}
    /\ grants' = revoke_grants(targets)
    /\ UNCHANGED <<settings, now, job, boots, closed, half>>

-----------------------------------------------------------------------------
(* Environment and start *)

Tick ==
    /\ now < MaxNow /\ now' = now + 1
    /\ UNCHANGED <<settings, grants, job, boots, closed, half>>

\* A store call fails and `?` returns from the handler.
StoreError ==
    /\ job # Idle /\ job' = Idle /\ half' = TRUE
    /\ UNCHANGED <<settings, grants, now, boots, closed>>

HasHistory(target) == \E g \in grants : g.target = target

\* Mutant of Missing: whatever has no active row.
Missing_NoHistory == {t \in Targets : Wanted(t) /\ ActiveRows(t) = {}}

\* The targets that are on and have never had a row.
Missing == {t \in Targets : Wanted(t) /\ ~HasHistory(t)}

\* Mutant of reconcile_system_grants: what is off is not looked at.
reconcile_system_grants_OnlyGrants ==
    grants \cup {NewRow(t, "reconcile", Never) : t \in Missing}

\* reconcile_system_grants: toggles that are off are revoked, what is missing is
\* granted.  A path no list has any more is not looked for.
reconcile_system_grants ==
    revoke_grants({t \in Targets : Len(t) = 1 /\ ~Wanted(t)})
    \cup {NewRow(t, "reconcile", Never) : t \in Missing}

\* The process stops, anywhere in a handler, and starts.
Restart ==
    /\ boots < MaxBoots /\ boots' = boots + 1
    /\ grants' = reconcile_system_grants
    /\ Cardinality(grants') <= MaxRows
    /\ job' = Idle /\ half' = FALSE
    /\ UNCHANGED <<settings, now, closed>>

Next ==
    \/ \E u \in Updates, others, confirmed \in BOOLEAN : SetSettings(u, others, confirmed)
    \/ \E p \in Paths, confirmed \in BOOLEAN : grant_root(p, confirmed)
    \/ \E p \in Paths : revoke_root(p)
    \/ \E k \in Keys : persist_settings(k)
    \/ job # Idle /\ \E s \in job.sync : sync_setting_grants(s)
    \/ \E t \in Targets, expires \in {Never, MaxNow}, confirmed \in BOOLEAN :
            grants_create(t, expires, confirmed)
    \/ \E targets \in {{t} : t \in Targets} \cup {Targets} : grants_revoke(targets)
    \/ Return \/ Tick \/ StoreError \/ Restart

Spec == Init /\ [][Next]_vars

-----------------------------------------------------------------------------
(* Properties *)

\* enforce_tool_gate for a filesystem path: the toggle, and an active grant whose
\* subject is a prefix of the path.
has_filesystem_grant(p) ==
    \E t \in Targets :
        /\ Len(t) = 2 /\ t[1] \in {"local_roots", "local_filesystem_grants"}
        /\ <<t[2], p>> \in Covers
        /\ \E g \in ActiveRows(t) : Unexpired(g)

enforce_tool_gate(p) ==
    ("filesystem" \in Toggles => settings["filesystem"]) /\ has_filesystem_grant(p)

\* Types of settings, rows and handler.
TypeOK ==
    /\ \A k \in Keys : settings[k] \in Values(k)
    /\ grants \subseteq [target : Targets, scope : Scopes,
                          state : {"active", "superseded", "revoked"}, expires : {Never} \cup 0..MaxNow]
    /\ now \in 0..MaxNow /\ boots \in 0..MaxBoots /\ half \in BOOLEAN /\ closed \subseteq Paths
    /\ job # Idle => /\ DOMAIN job.updates \subseteq Keys
                     /\ \A k \in DOMAIN job.updates : job.updates[k] \in Values(k)
                     /\ \A s \in job.sync : s.target \in Targets

\* One answer per grant: a target has one active row at most, so what a check finds
\* does not depend on which row it reads, however grants of several scopes, expiry,
\* revocation and restarts follow each other.
OneActiveRow == \A t \in Targets : \A g, h \in ActiveRows(t) : g = h

\* No permission setting becomes broader except in a handler that was confirmed.
NoSilentBroadening ==
    [][\A k \in Keys : (settings'[k] # settings[k] /\ Broader(k, settings'[k])) => job.confirmed]_vars

\* Off is off: between handlers, a synced toggle that is off has no active grant but
\* one a user created.  A handler that a store error breaks off between the setting
\* and the grant ends this until the next start, and the next start restores it.
OffIsRevoked ==
    job = Idle /\ ~half =>
        \A t \in Toggles \cap Synced : ~settings[t] =>
            \A g \in ActiveRows(<<t>>) : g.scope = "user"

\* A restart grants nothing that had been granted before: a target whose rows are all
\* revoked or superseded stays without, though the setting may still say on.
RevokedSurvivesRestart ==
    [][boots' # boots =>
        \A t \in Targets : HasHistory(t) /\ ActiveRows(t) = {} => ActiveRows(t)' = {}]_vars

\* A revoked root is closed: once revoke_root has returned, and until a call asks for
\* the root again, the tool gate lets its path pass only for another grant that
\* covers it; restarts do not reopen it.
RevokedRootClosed ==
    \A p \in closed :
        /\ ActiveRows(<<"local_roots", p>>) = {}
        /\ enforce_tool_gate(p) =>
            \E t \in Targets \ {<<"local_roots", p>>} :
                Len(t) = 2 /\ <<t[2], p>> \in Covers /\ ActiveRows(t) # {}
=============================================================================
