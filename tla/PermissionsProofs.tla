-------------------------- MODULE PermissionsProofs --------------------------
(***************************************************************************)
(* Proofs about Permissions, for all toggles, lists, paths and bounds.     *)
(*                                                                         *)
(* OneActiveRow needs the shape of the rows only: a transaction that adds  *)
(* an active row retires every other one of its target first.              *)
(* NoSilentBroadening needs to know what a handler still has to write:     *)
(* an unconfirmed one has nothing left that is broader than what is        *)
(* stored, and writing one setting does not change that for another.       *)
(***************************************************************************)
EXTENDS Permissions, TLAPS

Row == [target : Targets, scope : Scopes, state : {"active", "superseded", "revoked"},
        expires : {Never} \cup 0..MaxNow]

RowsOK == grants \subseteq Row

SyncItem == [target : Targets, on : BOOLEAN, scope : Scopes]

UpdatesOK(u) == DOMAIN u \subseteq Keys /\ \A k \in DOMAIN u : u[k] \in Values(k)

JobOK ==
    \/ job = Idle
    \/ \E op, c, u : \E sync \in SUBSET SyncItem :
            /\ UpdatesOK(u)
            /\ job = [op |-> op, confirmed |-> c, updates |-> u, sync |-> sync]

SettingsOK ==
    /\ settings = [k \in Keys |-> settings[k]]
    /\ \A k \in Keys : settings[k] \in Values(k)

\* What an unconfirmed handler still has to write is no broader than what is stored.
Vetted ==
    job # Idle => \/ job.confirmed
                  \/ \A k \in DOMAIN job.updates : ~Broader(k, job.updates[k])

\* The rows of a target, once the row is added, are that row alone.
LEMMA CreateRow ==
    ASSUME RowsOK, OneActiveRow, NEW t \in Targets, NEW s \in Scopes,
           NEW e \in {Never} \cup 0..MaxNow,
           grants' = create_or_refresh_grant(t, s, e)
    PROVE  /\ RowsOK' /\ OneActiveRow'
           /\ \A g \in grants' : g.state = "active" =>
                 g = NewRow(t, s, e) \/ (g \in grants /\ g.target # t)
<1> DEFINE same == {g \in ActiveRows(t) : g.scope = s}
           old == ActiveRows(t) \ same
           new == NewRow(t, s, e)
<1>1. grants' = (((grants \ old) \cup {[g EXCEPT !.state = "superseded"] : g \in old}) \ same) \cup {new}
  BY DEF create_or_refresh_grant, Put
<1>2. /\ new \in Row /\ new.target = t
  BY DEF NewRow, Row
<1>3. \A g \in old : /\ [g EXCEPT !.state = "superseded"] \in Row
                     /\ [g EXCEPT !.state = "superseded"].state = "superseded"
  BY DEF RowsOK, Row, ActiveRows
<1>4. RowsOK'
  BY <1>1, <1>2, <1>3 DEF RowsOK
<1>5. ASSUME NEW g \in grants', g.state = "active"
      PROVE  g = new \/ (g \in grants /\ g.target # t)
  BY <1>1, <1>3, <1>5 DEF ActiveRows
<1>6. OneActiveRow'
  BY <1>2, <1>5 DEF OneActiveRow, ActiveRows
<1> QED BY <1>4, <1>5, <1>6

\* Revocation adds no active row.
LEMMA RevokeRows ==
    ASSUME RowsOK, OneActiveRow, NEW T \in SUBSET Targets, grants' = revoke_grants(T)
    PROVE  /\ RowsOK' /\ OneActiveRow'
           /\ \A g \in grants' : g.state = "active" => g \in grants /\ g.target \notin T
           /\ \A g \in grants' : \E h \in grants : g.target = h.target
<1> DEFINE gone == UNION {ActiveRows(t) : t \in T}
<1>1. grants' = (grants \ gone) \cup {[g EXCEPT !.state = "revoked"] : g \in gone}
  BY DEF revoke_grants, Put
<1>2. gone \subseteq grants
  BY DEF ActiveRows
<1>3. \A g \in gone : /\ [g EXCEPT !.state = "revoked"] \in Row
                      /\ [g EXCEPT !.state = "revoked"].state = "revoked"
                      /\ [g EXCEPT !.state = "revoked"].target = g.target
  BY <1>2 DEF RowsOK, Row
<1>4. RowsOK'
  BY <1>1, <1>3 DEF RowsOK
<1>5. \A g \in grants' : g.state = "active" => g \in grants /\ g.target \notin T
  <2>1. \A g \in grants' : g.state = "active" => g \in grants \ gone
    BY <1>1, <1>3
  <2> QED BY <2>1 DEF ActiveRows
<1>6. \A g \in grants' : \E h \in grants : g.target = h.target
  BY <1>1, <1>2, <1>3
<1>7. OneActiveRow'
  BY <1>5 DEF OneActiveRow, ActiveRows
<1> QED BY <1>4, <1>5, <1>6, <1>7

\* The start revokes, then grants what has no row at all.
LEMMA ReconcileRows ==
    ASSUME RowsOK, OneActiveRow, grants' = reconcile_system_grants
    PROVE  /\ RowsOK' /\ OneActiveRow'
           /\ \A g \in grants' : g.state = "active" =>
                 \/ g \in grants /\ ~(g.target \in Targets /\ Len(g.target) = 1 /\ ~Wanted(g.target))
                 \/ Wanted(g.target) /\ ~HasHistory(g.target) /\ g.target \in Targets
<1> DEFINE off == {t \in Targets : Len(t) = 1 /\ ~Wanted(t)}
           gone == UNION {ActiveRows(t) : t \in off}
           kept == (grants \ gone) \cup {[g EXCEPT !.state = "revoked"] : g \in gone}
           added == {NewRow(t, "reconcile", Never) : t \in Missing}
<1>1. grants' = kept \cup added
  BY DEF reconcile_system_grants, revoke_grants, Put
<1>2. gone \subseteq grants
  BY DEF ActiveRows
<1>3. \A g \in gone : /\ [g EXCEPT !.state = "revoked"] \in Row
                      /\ [g EXCEPT !.state = "revoked"].state = "revoked"
  BY <1>2 DEF RowsOK, Row
<1>4. \A t \in Missing : /\ t \in Targets /\ ~HasHistory(t)
                         /\ NewRow(t, "reconcile", Never) \in Row
                         /\ NewRow(t, "reconcile", Never).target = t
  BY DEF Missing, NewRow, Row, Scopes
<1>5. RowsOK'
  BY <1>1, <1>3, <1>4 DEF RowsOK
<1>6. ASSUME NEW g \in grants', g.state = "active"
      PROVE  \/ g \in grants
             \/ /\ ~HasHistory(g.target)
                /\ g = NewRow(g.target, "reconcile", Never)
  BY <1>1, <1>3, <1>4, <1>6
<1>7. OneActiveRow'
  BY <1>6 DEF OneActiveRow, ActiveRows, HasHistory
<1>8. ASSUME NEW g \in grants', g.state = "active"
      PROVE  \/ g \in grants /\ ~(g.target \in Targets /\ Len(g.target) = 1 /\ ~Wanted(g.target))
             \/ Wanted(g.target) /\ ~HasHistory(g.target) /\ g.target \in Targets
  <2>1. CASE g \in added
    BY <2>1, <1>4 DEF Missing
  <2>2. CASE g \in kept
    <3>1. g \in grants \ gone
      BY <1>3, <1>8, <2>2
    <3> QED BY <1>8, <3>1 DEF ActiveRows
  <2> QED BY <1>1, <2>1, <2>2
<1> QED BY <1>5, <1>7, <1>8
-----------------------------------------------------------------------------

IInv == SettingsOK /\ RowsOK /\ OneActiveRow /\ JobOK /\ Vetted

\* What SetSettings queues for the grants is well formed.
LEMMA SyncItems ==
    ASSUME NEW u \in Updates
    PROVE  SyncTargets(u) \in SUBSET SyncItem
<1>1. ASSUME NEW k \in DOMAIN u \cap Toggles \cap Synced
      PROVE  [target |-> <<k>>, on |-> u[k], scope |-> "set_profile"] \in SyncItem
  BY InstanceAssumption DEF SyncItem, Targets, Scopes, Values, Keys, AllToggles
<1>2. ASSUME NEW k \in DOMAIN u \cap Lists, NEW p \in u[k]
      PROVE  [target |-> <<k, p>>, on |-> TRUE, scope |-> "set_profile"] \in SyncItem
  <2>1. k # "profile" /\ k \notin Toggles
    BY InstanceAssumption DEF AllToggles, AllLists
  <2>2. p \in Paths
    BY <2>1, InstanceAssumption DEF Values, Keys
  <2> QED BY <2>2 DEF SyncItem, Targets, Scopes
<1> QED BY <1>1, <1>2 DEF SyncTargets

\* A handler that starts has been vetted, and its queue is well formed.
LEMMA HandlerStarts ==
    ASSUME SettingsOK, UNCHANGED settings,
           NEW op, NEW c \in BOOLEAN, NEW u, UpdatesOK(u), NEW sync \in SUBSET SyncItem,
           c \/ \A k \in DOMAIN u : ~Broader(k, u[k]),
           job' = [op |-> op, confirmed |-> c, updates |-> u, sync |-> sync]
    PROVE  JobOK' /\ Vetted'
<1>1. JobOK'
  BY DEF JobOK
<1>2. Vetted'
  BY DEF Vetted, Broader
<1> QED BY <1>1, <1>2

\* Every step keeps the inductive invariant.
LEMMA Inductive == IInv /\ [Next]_vars => IInv'
<1> SUFFICES ASSUME IInv, [Next]_vars PROVE IInv'
  OBVIOUS
<1> USE DEF IInv
<1>1. ASSUME NEW u \in Updates, NEW others \in BOOLEAN, NEW c \in BOOLEAN, SetSettings(u, others, c)
      PROVE  IInv'
  <2>0. UpdatesOK(u)
    BY InstanceAssumption DEF UpdatesOK
  <2>1. JobOK' /\ Vetted'
    BY <1>1, <2>0, SyncItems, HandlerStarts DEF SetSettings, validate_permission_settings
  <2> QED BY <1>1, <2>1 DEF SetSettings, SettingsOK, RowsOK, OneActiveRow, ActiveRows
<1>2. ASSUME NEW p \in Paths, NEW c \in BOOLEAN, grant_root(p, c)
      PROVE  IInv'
  <2> DEFINE u == [k \in {"local_roots"} |-> settings[k] \cup {p}]
             sync == {[target |-> <<"local_roots", p>>, on |-> TRUE, scope |-> "grant_root"]}
  <2>1. "local_roots" \in Lists /\ "local_roots" \notin Toggles
    BY <1>2, InstanceAssumption DEF grant_root, AllToggles
  <2>2. sync \in SUBSET SyncItem
    BY <2>1 DEF SyncItem, Targets, Scopes
  <2>3. c \/ ~Broader("local_roots", {p})
    BY <1>2 DEF grant_root, validate_permission_settings
  <2>4. c \/ p \in settings["local_roots"]
    BY <2>1, <2>3 DEF Broader
  <2>5. c \/ \A k \in DOMAIN u : ~Broader(k, u[k])
    BY <2>1, <2>4 DEF Broader
  <2>6. job' = [op |-> "grant_root", confirmed |-> c, updates |-> u, sync |-> sync]
    BY <1>2 DEF grant_root
  <2>7. UNCHANGED <<settings, grants>>
    BY <1>2 DEF grant_root
  <2>t. UpdatesOK(u)
    BY <2>1 DEF UpdatesOK, SettingsOK, Keys, Values
  <2>8. JobOK' /\ Vetted'
    BY <2>t, <2>2, <2>5, <2>6, <2>7, HandlerStarts
  <2> QED BY <2>7, <2>8 DEF SettingsOK, RowsOK, OneActiveRow, ActiveRows
<1>3. ASSUME NEW p \in Paths, revoke_root(p)
      PROVE  IInv'
  <2> DEFINE u == [k \in {"local_roots"} |-> settings[k] \ {p}]
             sync == {[target |-> <<"local_roots", p>>, on |-> FALSE, scope |-> "grant_root"]}
  <2>1. "local_roots" \in Lists /\ "local_roots" \notin Toggles
    BY <1>3, InstanceAssumption DEF revoke_root, AllToggles
  <2>2. sync \in SUBSET SyncItem
    BY <2>1 DEF SyncItem, Targets, Scopes
  <2>3. \A k \in DOMAIN u : ~Broader(k, u[k])
    BY <2>1 DEF Broader
  <2>4. job' = [op |-> "revoke_root", confirmed |-> FALSE, updates |-> u, sync |-> sync]
    BY <1>3 DEF revoke_root
  <2>5. UNCHANGED <<settings, grants>>
    BY <1>3 DEF revoke_root
  <2>t. UpdatesOK(u)
    BY <2>1 DEF UpdatesOK, SettingsOK, Keys, Values
  <2>6. JobOK' /\ Vetted'
    BY <2>t, <2>2, <2>3, <2>4, <2>5, HandlerStarts
  <2> QED BY <2>5, <2>6 DEF SettingsOK, RowsOK, OneActiveRow, ActiveRows
<1>4. ASSUME NEW k \in Keys, persist_settings(k)
      PROVE  IInv'
  <2>1. PICK op, c, u : \E sync \in SUBSET SyncItem :
            UpdatesOK(u) /\ job = [op |-> op, confirmed |-> c, updates |-> u, sync |-> sync]
    BY <1>4 DEF persist_settings, JobOK
  <2>2. PICK sync \in SUBSET SyncItem :
            UpdatesOK(u) /\ job = [op |-> op, confirmed |-> c, updates |-> u, sync |-> sync]
    BY <2>1
  <2> DEFINE rest == [j \in DOMAIN u \ {k} |-> u[j]]
  <2>3. k \in DOMAIN u /\ settings' = [settings EXCEPT ![k] = u[k]]
    BY <1>4, <2>2 DEF persist_settings
  <2>4. job' = [op |-> op, confirmed |-> c, updates |-> rest, sync |-> sync]
    BY <1>4, <2>2 DEF persist_settings
  <2>5. \A j \in Keys \ {k} : settings'[j] = settings[j]
    BY <2>3 DEF SettingsOK
  <2>6. SettingsOK'
    BY <2>2, <2>3 DEF SettingsOK, UpdatesOK
  <2>7. UpdatesOK(rest)
    BY <2>2 DEF UpdatesOK
  <2>8. JobOK'
    BY <2>2, <2>4, <2>7 DEF JobOK
  <2>9. job # Idle /\ (c \/ \A j \in DOMAIN u : ~Broader(j, u[j]))
    BY <1>4, <2>2 DEF Vetted, persist_settings
  <2>10. c \/ \A j \in DOMAIN rest : ~Broader(j, rest[j])'
    BY <2>2, <2>5, <2>9 DEF Broader, UpdatesOK
  <2>11. Vetted'
    BY <2>4, <2>10 DEF Vetted
  <2>12. UNCHANGED grants
    BY <1>4 DEF persist_settings
  <2> QED BY <2>6, <2>8, <2>11, <2>12 DEF RowsOK, OneActiveRow, ActiveRows
<1>5. ASSUME job # Idle, NEW s \in job.sync, sync_setting_grants(s)
      PROVE  IInv'
  <2>1. PICK op, c, u : \E sync \in SUBSET SyncItem :
            UpdatesOK(u) /\ job = [op |-> op, confirmed |-> c, updates |-> u, sync |-> sync]
    BY <1>5 DEF JobOK
  <2>2. PICK sync \in SUBSET SyncItem :
            UpdatesOK(u) /\ job = [op |-> op, confirmed |-> c, updates |-> u, sync |-> sync]
    BY <2>1
  <2>3. s \in SyncItem /\ s \in sync
    BY <1>5, <2>2
  <2>4. job' = [op |-> op, confirmed |-> c, updates |-> u, sync |-> sync \ {s}]
    BY <1>5, <2>2 DEF sync_setting_grants
  <2>5. JobOK'
    BY <2>2, <2>4 DEF JobOK
  <2>6. UNCHANGED settings
    BY <1>5 DEF sync_setting_grants
  <2>7. Vetted'
    BY <1>5, <2>2, <2>4, <2>6 DEF Vetted, Broader
  <2>8. SettingsOK'
    BY <2>6 DEF SettingsOK
  <2>9. RowsOK' /\ OneActiveRow'
    <3>1. CASE s.on
      <4>1. s.scope \in Scopes
        BY <2>3 DEF SyncItem
      <4>2. CASE MatchingRows(s.target, s.scope) # {}
        BY <1>5, <3>1, <4>2 DEF sync_setting_grants, ensure_system_grant, RowsOK, OneActiveRow, ActiveRows
      <4>3. CASE MatchingRows(s.target, s.scope) = {}
        <5>1. grants' = create_or_refresh_grant(s.target, s.scope, Never)
          BY <1>5, <3>1, <4>3 DEF sync_setting_grants, ensure_system_grant
        <5> QED BY <2>3, <4>1, <5>1, CreateRow DEF SyncItem
      <4> QED BY <4>2, <4>3
    <3>2. CASE ~s.on
      <4>1. grants' = revoke_grants({s.target}) /\ {s.target} \in SUBSET Targets
        BY <1>5, <2>3, <3>2 DEF sync_setting_grants, SyncItem
      <4> QED BY <4>1, RevokeRows
    <3> QED BY <3>1, <3>2
  <2> QED BY <2>5, <2>7, <2>8, <2>9
<1>6. ASSUME NEW t \in Targets, NEW e \in {Never, MaxNow}, NEW c \in BOOLEAN, grants_create(t, e, c)
      PROVE  IInv'
  <2>1. e \in {Never} \cup 0..MaxNow
    BY BoundAssumption
  <2>2. grants' = create_or_refresh_grant(t, "user", e)
    BY <1>6 DEF grants_create
  <2>3. RowsOK' /\ OneActiveRow'
    BY <2>1, <2>2, CreateRow DEF Scopes
  <2>4. UNCHANGED <<settings, job>>
    BY <1>6 DEF grants_create
  <2> QED BY <2>3, <2>4 DEF SettingsOK, JobOK, Vetted, Broader
<1>7. ASSUME NEW T \in {{t} : t \in Targets} \cup {Targets}, grants_revoke(T)
      PROVE  IInv'
  <2>1. RowsOK' /\ OneActiveRow'
    BY <1>7, RevokeRows DEF grants_revoke
  <2>2. UNCHANGED <<settings, job>>
    BY <1>7 DEF grants_revoke
  <2> QED BY <2>1, <2>2 DEF SettingsOK, JobOK, Vetted, Broader
<1>8. CASE Return \/ StoreError
  <2>1. UNCHANGED <<settings, grants>> /\ job' = Idle
    BY <1>8 DEF Return, StoreError
  <2> QED BY <2>1 DEF SettingsOK, RowsOK, OneActiveRow, ActiveRows, JobOK, Vetted, Idle
<1>9. CASE Restart
  <2>1. RowsOK' /\ OneActiveRow'
    BY <1>9, ReconcileRows DEF Restart
  <2>2. UNCHANGED settings /\ job' = Idle
    BY <1>9 DEF Restart
  <2> QED BY <2>1, <2>2 DEF SettingsOK, JobOK, Vetted, Idle
<1>10. CASE Tick \/ UNCHANGED vars
  <2>1. UNCHANGED <<settings, grants, job>>
    BY <1>10 DEF Tick, vars
  <2> QED BY <2>1 DEF SettingsOK, RowsOK, OneActiveRow, ActiveRows, JobOK, Vetted, Broader
<1> QED BY <1>1, <1>2, <1>3, <1>4, <1>5, <1>6, <1>7, <1>8, <1>9, <1>10 DEF Next

LEMMA Initially == Init => IInv
<1> SUFFICES ASSUME Init PROVE IInv
  OBVIOUS
<1>1. SettingsOK
  <2> DEFINE first(k) == IF k = "profile" THEN 0 ELSE IF k \in Toggles THEN FALSE ELSE {}
  <2>1. settings = [k \in Keys |-> first(k)]
    BY DEF Init
  <2>2. ASSUME NEW k \in Keys PROVE first(k) \in Values(k)
    <3>1. CASE k = "profile"
      BY <3>1 DEF Values
    <3>2. CASE k # "profile" /\ k \in Toggles
      <4>1. first(k) = FALSE /\ Values(k) = BOOLEAN
        BY <3>2, Zenon DEF Values
      <4> QED BY <4>1
    <3>3. CASE k # "profile" /\ k \notin Toggles
      <4>1. first(k) = {} /\ Values(k) = SUBSET Paths
        BY <3>3, Zenon DEF Values
      <4> QED BY <4>1
    <3> QED BY <3>1, <3>2, <3>3
  <2> HIDE DEF first
  <2> QED BY <2>1, <2>2 DEF SettingsOK
<1> QED BY <1>1 DEF Init, IInv, RowsOK, OneActiveRow, ActiveRows, JobOK, Vetted

LEMMA Invariance == Spec => []IInv
<1> QED BY Initially, Inductive, PTL DEF Spec

\* A target of the grant ledger never has two active rows, for any toggles, lists,
\* paths, clock and number of rows and restarts.
THEOREM SingleGrant == Spec => []OneActiveRow
<1>1. IInv => OneActiveRow
  BY DEF IInv
<1> QED BY <1>1, Invariance, PTL

\* A permission setting becomes broader only in a handler that was confirmed, though
\* the settings are written one by one after a check of all of them.
THEOREM BroadeningConfirmed == Spec => NoSilentBroadening
<1> DEFINE Step == [\A k \in Keys : (settings'[k] # settings[k] /\ Broader(k, settings'[k])) => job.confirmed]_vars
<1>1. IInv /\ [Next]_vars => Step
  <2> SUFFICES ASSUME IInv, [Next]_vars,
                      NEW k \in Keys, settings'[k] # settings[k], Broader(k, settings'[k])
               PROVE  job.confirmed
    OBVIOUS
  <2>1. PICK j \in Keys : persist_settings(j)
    BY DEF Next, SetSettings, grant_root, revoke_root, sync_setting_grants, grants_create,
           grants_revoke, Return, Tick, StoreError, Restart, vars
  <2>2. settings' = [settings EXCEPT ![j] = job.updates[j]] /\ job # Idle /\ j \in DOMAIN job.updates
    BY <2>1 DEF persist_settings
  <2>3. k = j /\ settings'[k] = job.updates[j]
    BY <2>2 DEF IInv, SettingsOK
  <2> QED BY <2>2, <2>3 DEF IInv, Vetted
<1> QED BY <1>1, Invariance, PTL DEF Spec, NoSilentBroadening

-----------------------------------------------------------------------------
(* What a start may grant *)

\* A restart grants nothing that had been granted before.
THEOREM RevokedStaysRevoked == Spec => RevokedSurvivesRestart
<1> DEFINE Step == boots' # boots =>
                     \A t \in Targets : HasHistory(t) /\ ActiveRows(t) = {} => ActiveRows(t)' = {}
<1>1. ASSUME IInv, [Next]_vars PROVE Step
  <2> SUFFICES ASSUME boots' # boots, NEW t \in Targets, HasHistory(t), ActiveRows(t) = {}
               PROVE  ActiveRows(t)' = {}
    OBVIOUS
  <2>1. grants' = reconcile_system_grants
    BY <1>1 DEF Next, SetSettings, grant_root, revoke_root, persist_settings, sync_setting_grants,
           grants_create, grants_revoke, Return, Tick, StoreError, Restart, vars
  <2> QED BY <1>1, <2>1, ReconcileRows DEF IInv, ActiveRows
<1> QED BY <1>1, Invariance, PTL DEF Spec, RevokedSurvivesRestart

-----------------------------------------------------------------------------
(* Off is off, and a revoked root is closed.  Between the start of a handler and its  *)
(* end the settings and the grants say different things; what is compared is the     *)
(* setting that will be stored and the grants that will be left.                     *)

Running == job # Idle

\* The toggle is on once the running handler has written its settings.
WillBeOn(t) == IF Running /\ t \in DOMAIN job.updates THEN job.updates[t] = TRUE
               ELSE settings[t] = TRUE

\* The running handler has still to revoke the toggle's grant.
WillRevoke(t) == Running /\ \E s \in job.sync : s.target = <<t>> /\ ~s.on

WillGrant(t) == Running /\ \E s \in job.sync : s.target = <<t>> /\ s.on

UserOnly(t) == \A g \in ActiveRows(<<t>>) : g.scope = "user"

Agrees(t) == /\ WillBeOn(t) \/ WillRevoke(t) \/ UserOnly(t)
             /\ WillGrant(t) => WillBeOn(t)

OffInv == ~half => \A t \in Toggles \cap Synced : Agrees(t)

Root(p) == <<"local_roots", p>>

\* A revoked root has no grant, no setting names it, and the running handler is not
\* about to change that.
Shut(p) ==
    /\ ActiveRows(Root(p)) = {}
    /\ p \notin settings["local_roots"]
    /\ Running /\ "local_roots" \in DOMAIN job.updates => p \notin job.updates["local_roots"]
    /\ Running => \A s \in job.sync : s.target = Root(p) => ~s.on

\* revoke_root has a root to revoke, which it takes out of the setting first.
RevokeJob ==
    Running /\ job.op = "revoke_root" =>
        /\ "local_roots" \in Lists
        /\ \A s \in job.sync : ~s.on /\ \E p \in Paths :
              /\ s.target = Root(p)
              /\ p \notin IF "local_roots" \in DOMAIN job.updates THEN job.updates["local_roots"]
                          ELSE settings["local_roots"]

ClosedInv ==
    /\ RevokeJob
    /\ closed # {} => "local_roots" \in Lists
    /\ \A p \in closed : Shut(p)

\* Paths and toggles are not mixed up.
LEMMA TargetFacts ==
    /\ \A t, u : <<t>> = <<u>> => t = u
    /\ \A t, p : <<t>> # Root(p)
    /\ \A p, q : Root(p) = Root(q) => p = q
    /\ \A p : Root(p)[2] = p
BY DEF Root

\* The running handler's record.
LEMMA JobShape ==
    ASSUME JobOK, job # Idle
    PROVE  /\ job.sync \in SUBSET SyncItem /\ UpdatesOK(job.updates)
           /\ \A k : k \in DOMAIN job.updates /\
                job' = [job EXCEPT !.updates = [j \in DOMAIN @ \ {k} |-> @[j]]] =>
                   /\ job' # Idle /\ job'.op = job.op /\ job'.sync = job.sync
                   /\ job'.updates = [j \in DOMAIN job.updates \ {k} |-> job.updates[j]]
           /\ \A s : job' = [job EXCEPT !.sync = @ \ {s}] =>
                   /\ job' # Idle /\ job'.op = job.op
                   /\ job'.sync = job.sync \ {s} /\ job'.updates = job.updates
<1>1. PICK op, c, u : \E sync \in SUBSET SyncItem :
          UpdatesOK(u) /\ job = [op |-> op, confirmed |-> c, updates |-> u, sync |-> sync]
  BY DEF JobOK
<1>2. PICK sync \in SUBSET SyncItem :
          UpdatesOK(u) /\ job = [op |-> op, confirmed |-> c, updates |-> u, sync |-> sync]
  BY <1>1
<1>3. job.op = op /\ job.updates = u /\ job.sync = sync
  BY <1>2
<1>4. \A k : job' = [job EXCEPT !.updates = [j \in DOMAIN @ \ {k} |-> @[j]]] =>
          job' = [op |-> op, confirmed |-> c, updates |-> [j \in DOMAIN u \ {k} |-> u[j]], sync |-> sync]
  BY <1>2
<1>5. \A s : job' = [job EXCEPT !.sync = @ \ {s}] =>
          job' = [op |-> op, confirmed |-> c, updates |-> u, sync |-> sync \ {s}]
  BY <1>2
<1>6. ASSUME NEW x, NEW y, job' = [op |-> op, confirmed |-> c, updates |-> x, sync |-> y]
      PROVE  job' # Idle
  <2>1. DOMAIN job' = {"op", "confirmed", "updates", "sync"} /\ DOMAIN Idle = {"op"}
    BY <1>6 DEF Idle
  <2> QED BY <2>1
<1> QED BY <1>2, <1>3, <1>4, <1>5, <1>6

\* What sync_setting_grants leaves active.
LEMMA SyncRows ==
    ASSUME IInv, job # Idle, NEW s \in job.sync, sync_setting_grants(s)
    PROVE  /\ s \in SyncItem
           /\ \A g \in grants' : g.state = "active" =>
                 \/ g \in grants /\ (~s.on => g.target # s.target)
                 \/ s.on /\ g.target = s.target
<1>1. s \in SyncItem
  BY JobShape DEF IInv
<1>2. s.target \in Targets /\ s.scope \in Scopes /\ Never \in {Never} \cup 0..MaxNow
  BY <1>1 DEF SyncItem
<1>3. CASE s.on
  <2>1. \/ grants' = grants \/ grants' = create_or_refresh_grant(s.target, s.scope, Never)
    BY <1>3 DEF sync_setting_grants, ensure_system_grant
  <2>2. CASE grants' = create_or_refresh_grant(s.target, s.scope, Never)
    <3>1. \A g \in grants' : g.state = "active" =>
            g = NewRow(s.target, s.scope, Never) \/ (g \in grants /\ g.target # s.target)
      BY <1>2, <2>2, CreateRow DEF IInv
    <3> QED BY <1>1, <1>3, <3>1 DEF NewRow
  <2> QED BY <1>1, <1>3, <2>1, <2>2
<1>4. CASE ~s.on
  <2>1. grants' = revoke_grants({s.target}) /\ {s.target} \in SUBSET Targets
    BY <1>2, <1>4 DEF sync_setting_grants
  <2> QED BY <1>1, <1>4, <2>1, RevokeRows DEF IInv
<1> QED BY <1>3, <1>4

\* The items a handler queues for a toggle say what it will store.
LEMMA SetAgrees ==
    ASSUME IInv, OffInv, NEW u \in Updates, NEW others, NEW c, SetSettings(u, others, c)
    PROVE  OffInv'
<1>1. /\ job = Idle /\ UNCHANGED <<settings, grants, half>>
      /\ job' = [op |-> "set", confirmed |-> c, updates |-> u, sync |-> SyncTargets(u)]
  BY DEF SetSettings
<1>2. job' # Idle /\ job'.updates = u /\ job'.sync = SyncTargets(u)
  BY <1>1 DEF Idle
<1>3. UpdatesOK(u)
  BY InstanceAssumption DEF UpdatesOK
<1> SUFFICES ASSUME ~half', NEW t \in Toggles \cap Synced PROVE Agrees(t)'
  BY DEF OffInv
<1>4. Agrees(t)
  BY <1>1 DEF OffInv
<1>5. \A s \in SyncTargets(u) : s.target = <<t>> => t \in DOMAIN u /\ s.on = u[t]
  <2> SUFFICES ASSUME NEW s \in SyncTargets(u), s.target = <<t>> PROVE t \in DOMAIN u /\ s.on = u[t]
    OBVIOUS
  <2>1. CASE \E k \in DOMAIN u \cap Toggles \cap Synced :
                s = [target |-> <<k>>, on |-> u[k], scope |-> "set_profile"]
    BY <2>1
  <2>2. CASE \E k \in DOMAIN u \cap Lists : \E p \in u[k] :
                s = [target |-> <<k, p>>, on |-> TRUE, scope |-> "set_profile"]
    <3>1. PICK k, p : s.target = <<k, p>>
      BY <2>2
    <3> QED BY <3>1
  <2> QED BY <2>1, <2>2 DEF SyncTargets
<1>6. UserOnly(t)' <=> UserOnly(t)
  BY <1>1 DEF UserOnly, ActiveRows
<1>7. CASE t \in DOMAIN u
  <2>1. t # "profile"
    BY InstanceAssumption DEF AllToggles
  <2>2. Values(t) = BOOLEAN
    BY <2>1, Zenon DEF Values
  <2>3. u[t] \in BOOLEAN
    BY <1>3, <1>7, <2>2 DEF UpdatesOK
  <2>4. WillBeOn(t)' <=> u[t] = TRUE
    BY <1>2, <1>7 DEF WillBeOn, Running
  <2>5. [target |-> <<t>>, on |-> u[t], scope |-> "set_profile"] \in SyncTargets(u)
    BY <1>7 DEF SyncTargets
  <2>6. u[t] = FALSE => WillRevoke(t)'
    BY <1>2, <2>5 DEF WillRevoke, Running
  <2>7. WillGrant(t)' => u[t] = TRUE
    BY <1>2, <1>5, <2>3 DEF WillGrant, Running
  <2> QED BY <2>3, <2>4, <2>6, <2>7 DEF Agrees
<1>8. CASE t \notin DOMAIN u
  <2>1. WillBeOn(t)' <=> WillBeOn(t)
    BY <1>1, <1>2, <1>8 DEF WillBeOn, Running
  <2>2. ~WillGrant(t)' /\ ~WillRevoke(t)
    BY <1>1, <1>2, <1>5, <1>8 DEF WillGrant, WillRevoke, Running
  <2> QED BY <1>4, <1>6, <2>1, <2>2 DEF Agrees
<1> QED BY <1>7, <1>8

\* A handler on roots leaves the toggles alone.
LEMMA RootAgrees ==
    ASSUME IInv, OffInv, NEW op, NEW c, NEW paths, NEW p, NEW on, NEW scope, job = Idle,
           UNCHANGED <<settings, grants, half>>,
           job' = [op |-> op, confirmed |-> c, updates |-> [k \in {"local_roots"} |-> paths],
                   sync |-> {[target |-> Root(p), on |-> on, scope |-> scope]}]
    PROVE  OffInv'
<1>1. /\ job' # Idle /\ DOMAIN job'.updates = {"local_roots"}
      /\ \A s \in job'.sync : s.target = Root(p)
  BY DEF Idle
<1> SUFFICES ASSUME ~half', NEW t \in Toggles \cap Synced PROVE Agrees(t)'
  BY DEF OffInv
<1>2. Agrees(t) /\ t # "local_roots"
  BY InstanceAssumption DEF OffInv, AllToggles
<1>3. UserOnly(t)' <=> UserOnly(t)
  BY DEF UserOnly, ActiveRows
<1>4. WillBeOn(t)' <=> WillBeOn(t)
  BY <1>1, <1>2 DEF WillBeOn, Running
<1>5. ~WillGrant(t)' /\ ~WillRevoke(t)
  BY <1>1, TargetFacts DEF WillGrant, WillRevoke, Running
<1> QED BY <1>2, <1>3, <1>4, <1>5 DEF Agrees

\* Writing a setting does not change what will be stored in the end.
LEMMA PersistAgrees ==
    ASSUME IInv, OffInv, NEW k \in Keys, persist_settings(k)
    PROVE  OffInv'
<1>1. /\ job # Idle /\ k \in DOMAIN job.updates /\ settings' = [settings EXCEPT ![k] = job.updates[k]]
      /\ job' = [job EXCEPT !.updates = [j \in DOMAIN @ \ {k} |-> @[j]]]
      /\ UNCHANGED <<grants, half>>
  BY DEF persist_settings
<1>2. /\ job' # Idle /\ job'.op = job.op /\ job'.sync = job.sync
      /\ job'.updates = [j \in DOMAIN job.updates \ {k} |-> job.updates[j]]
  BY <1>1, JobShape DEF IInv
<1> SUFFICES ASSUME ~half', NEW t \in Toggles \cap Synced PROVE Agrees(t)'
  BY DEF OffInv
<1>4. Agrees(t) /\ t \in Keys
  BY <1>1 DEF OffInv, Keys
<1>5. UserOnly(t)' <=> UserOnly(t)
  BY <1>1 DEF UserOnly, ActiveRows
<1>6. settings'[t] = IF t = k THEN job.updates[k] ELSE settings[t]
  BY <1>1, <1>4 DEF IInv, SettingsOK
<1>7. WillBeOn(t)' <=> WillBeOn(t)
  BY <1>1, <1>2, <1>6 DEF WillBeOn, Running
<1>8. (WillGrant(t)' <=> WillGrant(t)) /\ (WillRevoke(t)' <=> WillRevoke(t))
  BY <1>1, <1>2 DEF WillGrant, WillRevoke, Running
<1> QED BY <1>4, <1>5, <1>7, <1>8 DEF Agrees

\* Granting or revoking one target brings it to what the settings say.
LEMMA SyncAgrees ==
    ASSUME IInv, OffInv, job # Idle, NEW s \in job.sync, sync_setting_grants(s)
    PROVE  OffInv'
<1>1. /\ DOMAIN job.updates = {} /\ job' = [job EXCEPT !.sync = @ \ {s}]
      /\ UNCHANGED <<settings, half>>
  BY DEF sync_setting_grants
<1>2. /\ job' # Idle /\ job'.op = job.op
      /\ job'.sync = job.sync \ {s} /\ job'.updates = job.updates
  BY <1>1, JobShape DEF IInv
<1>3. \A g \in grants' : g.state = "active" =>
          \/ g \in grants /\ (~s.on => g.target # s.target)
          \/ s.on /\ g.target = s.target
  BY SyncRows
<1> SUFFICES ASSUME ~half', NEW t \in Toggles \cap Synced PROVE Agrees(t)'
  BY DEF OffInv
<1>4. Agrees(t)
  BY <1>1 DEF OffInv
<1>5. WillBeOn(t)' <=> WillBeOn(t)
  BY <1>1, <1>2 DEF WillBeOn, Running
<1>6. WillGrant(t)' => WillGrant(t)
  BY <1>2 DEF WillGrant, Running
<1>7. CASE WillBeOn(t)
  BY <1>5, <1>7 DEF Agrees
<1>8. CASE ~WillBeOn(t)
  <2>1. ~WillGrant(t) /\ (WillRevoke(t) \/ UserOnly(t))
    BY <1>4, <1>8 DEF Agrees
  <2>2. CASE s.target = <<t>>
    <3>1. ~s.on
      BY <2>1, <2>2 DEF WillGrant, Running
    <3>2. UserOnly(t)'
      BY <1>3, <2>2, <3>1 DEF UserOnly, ActiveRows
    <3> QED BY <1>6, <2>1, <3>2 DEF Agrees
  <2>3. CASE s.target # <<t>>
    <3>1. UserOnly(t) => UserOnly(t)'
      BY <1>3, <2>3 DEF UserOnly, ActiveRows
    <3>2. WillRevoke(t) => WillRevoke(t)'
      BY <1>2, <2>3 DEF WillRevoke, Running
    <3> QED BY <1>6, <2>1, <3>1, <3>2 DEF Agrees
  <2> QED BY <2>2, <2>3
<1> QED BY <1>7, <1>8

\* Every step keeps settings and grants in agreement.
LEMMA OffInductive ==
    ASSUME IInv, OffInv, [Next]_vars
    PROVE  OffInv'
<1>1. ASSUME NEW u \in Updates, NEW others \in BOOLEAN, NEW c \in BOOLEAN, SetSettings(u, others, c)
      PROVE  OffInv'
  BY <1>1, SetAgrees
<1>2. ASSUME NEW p \in Paths, NEW c \in BOOLEAN, grant_root(p, c)
      PROVE  OffInv'
  <2> DEFINE paths == settings["local_roots"] \cup {p}
  <2>1. /\ job = Idle /\ UNCHANGED <<settings, grants, half>>
        /\ job' = [op |-> "grant_root", confirmed |-> c, updates |-> [k \in {"local_roots"} |-> paths],
                   sync |-> {[target |-> Root(p), on |-> TRUE, scope |-> "grant_root"]}]
    BY <1>2 DEF grant_root, Root
  <2> HIDE DEF paths
  <2> QED BY <2>1, RootAgrees
<1>3. ASSUME NEW p \in Paths, revoke_root(p)
      PROVE  OffInv'
  <2> DEFINE paths == settings["local_roots"] \ {p}
  <2>1. /\ job = Idle /\ UNCHANGED <<settings, grants, half>>
        /\ job' = [op |-> "revoke_root", confirmed |-> FALSE, updates |-> [k \in {"local_roots"} |-> paths],
                   sync |-> {[target |-> Root(p), on |-> FALSE, scope |-> "grant_root"]}]
    BY <1>3 DEF revoke_root, Root
  <2> HIDE DEF paths
  <2> QED BY <2>1, RootAgrees
<1>4. ASSUME NEW k \in Keys, persist_settings(k) PROVE OffInv'
  BY <1>4, PersistAgrees
<1>5. ASSUME job # Idle, NEW s \in job.sync, sync_setting_grants(s) PROVE OffInv'
  BY <1>5, SyncAgrees
<1>6. ASSUME UNCHANGED <<settings, job, half>>,
             \A g \in grants' : g.state = "active" => g \in grants \/ g.scope = "user"
      PROVE  OffInv'
  <2>1. \A t : UserOnly(t) => UserOnly(t)'
    BY <1>6 DEF UserOnly, ActiveRows
  <2> QED BY <1>6, <2>1 DEF OffInv, Agrees, WillBeOn, WillRevoke, WillGrant, Running
<1>7. ASSUME NEW t \in Targets, NEW e \in {Never, MaxNow}, NEW c \in BOOLEAN, grants_create(t, e, c)
      PROVE  OffInv'
  <2>1. e \in {Never} \cup 0..MaxNow /\ "user" \in Scopes
    BY BoundAssumption DEF Scopes
  <2>2. grants' = create_or_refresh_grant(t, "user", e) /\ UNCHANGED <<settings, job, half>>
    BY <1>7 DEF grants_create
  <2>3. \A g \in grants' : g.state = "active" =>
            g = NewRow(t, "user", e) \/ (g \in grants /\ g.target # t)
    BY <2>1, <2>2, CreateRow DEF IInv
  <2> QED BY <1>6, <2>2, <2>3 DEF NewRow
<1>8. ASSUME NEW T \in {{t} : t \in Targets} \cup {Targets}, grants_revoke(T)
      PROVE  OffInv'
  <2>1. T \in SUBSET Targets /\ grants' = revoke_grants(T) /\ UNCHANGED <<settings, job, half>>
    BY <1>8 DEF grants_revoke
  <2> QED BY <1>6, <2>1, RevokeRows DEF IInv
<1>9. CASE Return
  <2>1. /\ DOMAIN job.updates = {} /\ job.sync = {} /\ job' = Idle
        /\ UNCHANGED <<settings, grants, half>>
    BY <1>9 DEF Return
  <2>2. \A t : UserOnly(t)' <=> UserOnly(t)
    BY <2>1 DEF UserOnly, ActiveRows
  <2> QED BY <2>1, <2>2 DEF OffInv, Agrees, WillBeOn, WillRevoke, WillGrant, Running
<1>10. CASE StoreError
  BY <1>10 DEF StoreError, OffInv
<1>11. CASE Restart
  <2>1. grants' = reconcile_system_grants /\ job' = Idle /\ UNCHANGED settings
    BY <1>11 DEF Restart
  <2> SUFFICES ASSUME NEW t \in Toggles \cap Synced PROVE Agrees(t)'
    BY DEF OffInv
  <2>2. <<t>> \in Targets /\ Len(<<t>>) = 1
    BY DEF Targets
  <2>3. ~WillGrant(t)' /\ (WillBeOn(t)' <=> settings[t] = TRUE)
    BY <2>1 DEF WillGrant, WillBeOn, Running
  <2>4. settings[t] \in BOOLEAN
    <3>1. t # "profile" /\ t \in Keys
      BY InstanceAssumption DEF AllToggles, Keys
    <3>2. Values(t) = BOOLEAN
      BY <3>1, Zenon DEF Values
    <3> QED BY <3>1, <3>2 DEF IInv, SettingsOK
  <2>5. Wanted(<<t>>) => settings[t] = TRUE
    <3>1. Wanted(<<t>>) => settings[t]
      BY <2>2 DEF Wanted
    <3> QED BY <2>4, <3>1
  <2>6. ASSUME settings[t] = FALSE PROVE UserOnly(t)'
    <3>1. \A g \in grants' : g.state = "active" => g.target # <<t>>
      BY <2>1, <2>2, <2>5, <2>6, ReconcileRows DEF IInv
    <3> QED BY <3>1 DEF UserOnly, ActiveRows
  <2> QED BY <2>3, <2>4, <2>6 DEF Agrees
<1>12. CASE Tick \/ UNCHANGED vars
  BY <1>6, <1>12 DEF Tick, vars
<1> QED BY <1>1, <1>2, <1>3, <1>4, <1>5, <1>7, <1>8, <1>9, <1>10, <1>11, <1>12 DEF Next

\* Between handlers a synced toggle that is off has no active grant but a user's own,
\* unless a store error broke a handler off since the start.
THEOREM OffHasNoGrant == Spec => []OffIsRevoked
<1>1. ASSUME Init PROVE OffInv
  BY <1>1 DEF Init, OffInv, Agrees, UserOnly, ActiveRows, WillGrant, Running
<1>2. ASSUME OffInv PROVE OffIsRevoked
  BY <1>2 DEF OffInv, OffIsRevoked, Agrees, WillBeOn, WillRevoke, UserOnly, Running
<1> QED BY <1>1, <1>2, OffInductive, Invariance, PTL DEF Spec

\* A handler that starts does not name a closed root, or takes it off the list.
LEMMA StartShuts ==
    ASSUME ClosedInv, NEW op, NEW c, NEW u, NEW sync, job = Idle, UNCHANGED <<settings, grants>>,
           job' = [op |-> op, confirmed |-> c, updates |-> u, sync |-> sync],
           closed' \subseteq closed,
           \A p \in closed' : /\ "local_roots" \in DOMAIN u => p \notin u["local_roots"]
                              /\ \A s \in sync : s.target = Root(p) => ~s.on,
           RevokeJob'
    PROVE  ClosedInv'
<1>1. job'.updates = u /\ job'.sync = sync
  OBVIOUS
<1>2. ASSUME NEW p \in closed' PROVE Shut(p)'
  <2>1. Shut(p)
    BY DEF ClosedInv
  <2>2. ActiveRows(Root(p))' = {} /\ p \notin settings'["local_roots"]
    BY <2>1 DEF Shut, ActiveRows
  <2> QED BY <1>1, <2>2 DEF Shut
<1> QED BY <1>2 DEF ClosedInv

\* A step that leaves settings and handler alone, or ends the handler.
LEMMA StayShut ==
    ASSUME ClosedInv, UNCHANGED settings, UNCHANGED job \/ job' = Idle, closed' \subseteq closed,
           \A p \in closed' : ActiveRows(Root(p))' = {}
    PROVE  ClosedInv'
<1>1. RevokeJob'
  BY DEF ClosedInv, RevokeJob, Running
<1>2. ASSUME NEW p \in closed' PROVE Shut(p)'
  <2>1. Shut(p)
    BY DEF ClosedInv
  <2> QED BY <2>1 DEF Shut, Running
<1> QED BY <1>1, <1>2 DEF ClosedInv

\* The settings a handler writes do not name a closed root.
LEMMA PersistShuts ==
    ASSUME IInv, ClosedInv, NEW k \in Keys, persist_settings(k)
    PROVE  ClosedInv'
<1>1. /\ job # Idle /\ k \in DOMAIN job.updates /\ settings' = [settings EXCEPT ![k] = job.updates[k]]
      /\ job' = [job EXCEPT !.updates = [j \in DOMAIN @ \ {k} |-> @[j]]]
      /\ UNCHANGED <<grants, closed>>
  BY DEF persist_settings
<1>2. /\ job' # Idle /\ job'.op = job.op /\ job'.sync = job.sync
      /\ job'.updates = [j \in DOMAIN job.updates \ {k} |-> job.updates[j]]
  BY <1>1, JobShape DEF IInv
<1>3. "local_roots" \in Lists =>
          settings'["local_roots"] = IF "local_roots" = k THEN job.updates[k] ELSE settings["local_roots"]
  BY <1>1 DEF IInv, SettingsOK, Keys
<1>4. RevokeJob'
  <2> SUFFICES ASSUME job.op = "revoke_root" PROVE RevokeJob'
    BY <1>2 DEF RevokeJob
  <2>1. "local_roots" \in Lists
    BY <1>1 DEF ClosedInv, RevokeJob, Running
  <2> DEFINE will == IF "local_roots" \in DOMAIN job.updates THEN job.updates["local_roots"]
                     ELSE settings["local_roots"]
  <2>2. will' = will
    BY <1>1, <1>2, <1>3, <2>1
  <2>3. \A s \in job.sync : ~s.on /\ \E p \in Paths : s.target = Root(p) /\ p \notin will
    BY <1>1 DEF ClosedInv, RevokeJob, Running
  <2> HIDE DEF will
  <2>4. \A s \in job'.sync : ~s.on /\ \E p \in Paths : s.target = Root(p) /\ p \notin will'
    BY <1>2, <2>2, <2>3
  <2> QED BY <2>1, <2>4 DEF RevokeJob, will
<1>5. ASSUME NEW p \in closed PROVE Shut(p)'
  <2>1. Shut(p) /\ "local_roots" \in Lists
    BY DEF ClosedInv
  <2>2. ActiveRows(Root(p))' = {}
    BY <1>1, <2>1 DEF Shut, ActiveRows
  <2>3. p \notin settings'["local_roots"]
    BY <1>1, <1>3, <2>1 DEF Shut, Running
  <2>4. "local_roots" \in DOMAIN job'.updates => p \notin job'.updates["local_roots"]
    BY <1>1, <1>2, <2>1 DEF Shut, Running
  <2>5. \A s \in job'.sync : s.target = Root(p) => ~s.on
    BY <1>1, <1>2, <2>1 DEF Shut, Running
  <2> QED BY <2>2, <2>3, <2>4, <2>5 DEF Shut
<1> QED BY <1>1, <1>4, <1>5 DEF ClosedInv

\* revoke_root closes its root; no other handler grants a closed one.
LEMMA SyncShuts ==
    ASSUME IInv, ClosedInv, job # Idle, NEW s \in job.sync, sync_setting_grants(s)
    PROVE  ClosedInv'
<1>1. /\ DOMAIN job.updates = {} /\ job' = [job EXCEPT !.sync = @ \ {s}]
      /\ closed' = IF job.op = "revoke_root" THEN closed \cup {s.target[2]} ELSE closed
      /\ UNCHANGED settings
  BY DEF sync_setting_grants
<1>2. /\ job' # Idle /\ job'.op = job.op
      /\ job'.sync = job.sync \ {s} /\ job'.updates = job.updates
  BY <1>1, JobShape DEF IInv
<1>3. \A g \in grants' : g.state = "active" =>
          \/ g \in grants /\ (~s.on => g.target # s.target)
          \/ s.on /\ g.target = s.target
  BY SyncRows
<1>4. RevokeJob'
  BY <1>1, <1>2 DEF ClosedInv, RevokeJob, Running
<1>5. ASSUME NEW p \in closed PROVE Shut(p)'
  <2>1. Shut(p)
    BY DEF ClosedInv
  <2>2. s.target = Root(p) => ~s.on
    BY <2>1 DEF Shut, Running
  <2>3. ActiveRows(Root(p))' = {}
    BY <1>3, <2>1, <2>2 DEF Shut, ActiveRows
  <2> QED BY <1>1, <1>2, <2>1, <2>3 DEF Shut, Running
<1>6. CASE job.op = "revoke_root"
  <2>1. /\ "local_roots" \in Lists /\ ~s.on /\ \A r \in job.sync : ~r.on
        /\ \E p \in Paths : s.target = Root(p) /\ p \notin settings["local_roots"]
    BY <1>1, <1>6 DEF ClosedInv, RevokeJob, Running
  <2>2. PICK p \in Paths : s.target = Root(p) /\ p \notin settings["local_roots"]
    BY <2>1
  <2>3. closed' = closed \cup {p}
    BY <1>1, <1>6, <2>2, TargetFacts
  <2>4. ActiveRows(Root(p))' = {}
    BY <1>3, <2>1, <2>2 DEF ActiveRows
  <2>5. Shut(p)'
    BY <1>1, <1>2, <2>1, <2>2, <2>4 DEF Shut
  <2> QED BY <1>4, <1>5, <2>1, <2>3, <2>5 DEF ClosedInv
<1>7. CASE job.op # "revoke_root"
  BY <1>1, <1>4, <1>5, <1>7 DEF ClosedInv
<1> QED BY <1>6, <1>7

\* Every step keeps closed roots closed.
LEMMA ClosedInductive ==
    ASSUME IInv, ClosedInv, [Next]_vars
    PROVE  ClosedInv'
<1>1. ASSUME NEW u \in Updates, NEW others \in BOOLEAN, NEW c \in BOOLEAN, SetSettings(u, others, c)
      PROVE  ClosedInv'
  <2>1. /\ job = Idle /\ UNCHANGED <<settings, grants>> /\ closed' = closed \ Asked(u)
        /\ job' = [op |-> "set", confirmed |-> c, updates |-> u, sync |-> SyncTargets(u)]
    BY <1>1 DEF SetSettings
  <2>2. ASSUME NEW p \in closed', NEW s \in SyncTargets(u), s.target = Root(p) PROVE ~s.on
    <3>1. CASE \E k \in DOMAIN u \cap Toggles \cap Synced :
                  s = [target |-> <<k>>, on |-> u[k], scope |-> "set_profile"]
      BY <2>2, <3>1, TargetFacts
    <3>2. CASE \E k \in DOMAIN u \cap Lists : \E q \in u[k] :
                  s = [target |-> <<k, q>>, on |-> TRUE, scope |-> "set_profile"]
      <4>1. PICK k, q : k \in DOMAIN u \cap Lists /\ q \in u[k] /\ s.target = <<k, q>>
        BY <3>2
      <4>2. k = "local_roots" /\ q = p
        BY <2>2, <4>1 DEF Root
      <4> QED BY <2>1, <4>1, <4>2 DEF Asked
    <3> QED BY <3>1, <3>2 DEF SyncTargets
  <2>3. \A p \in closed' : "local_roots" \in DOMAIN u => p \notin u["local_roots"]
    BY <2>1 DEF Asked
  <2>4. RevokeJob'
    BY <2>1 DEF RevokeJob
  <2> QED BY <2>1, <2>2, <2>3, <2>4, StartShuts
<1>2. ASSUME NEW p \in Paths, NEW c \in BOOLEAN, grant_root(p, c)
      PROVE  ClosedInv'
  <2> DEFINE u == [k \in {"local_roots"} |-> settings[k] \cup {p}]
             sync == {[target |-> Root(p), on |-> TRUE, scope |-> "grant_root"]}
  <2>1. /\ job = Idle /\ UNCHANGED <<settings, grants>> /\ closed' = closed \ {p}
        /\ job' = [op |-> "grant_root", confirmed |-> c, updates |-> u, sync |-> sync]
    BY <1>2 DEF grant_root, Root
  <2>2. \A q \in closed' : q \notin u["local_roots"]
    BY <2>1 DEF ClosedInv, Shut
  <2>3. \A q \in closed' : \A s \in sync : s.target = Root(q) => ~s.on
    BY <2>1, TargetFacts
  <2>4. RevokeJob'
    BY <2>1 DEF RevokeJob
  <2> HIDE DEF u, sync
  <2> QED BY <2>1, <2>2, <2>3, <2>4, StartShuts
<1>3. ASSUME NEW p \in Paths, revoke_root(p)
      PROVE  ClosedInv'
  <2> DEFINE u == [k \in {"local_roots"} |-> settings[k] \ {p}]
             sync == {[target |-> Root(p), on |-> FALSE, scope |-> "grant_root"]}
  <2>1. /\ job = Idle /\ UNCHANGED <<settings, grants, closed>> /\ "local_roots" \in Lists
        /\ job' = [op |-> "revoke_root", confirmed |-> FALSE, updates |-> u, sync |-> sync]
    BY <1>3 DEF revoke_root, Root
  <2>2. \A q \in closed' : q \notin u["local_roots"]
    BY <2>1 DEF ClosedInv, Shut
  <2>3. \A q \in closed' : \A s \in sync : s.target = Root(q) => ~s.on
    OBVIOUS
  <2>4. RevokeJob'
    <3>1. job'.updates = u /\ job'.sync = sync
      BY <2>1
    <3>2. "local_roots" \in DOMAIN u /\ p \notin u["local_roots"]
      OBVIOUS
    <3>3. \A s \in sync : ~s.on /\ s.target = Root(p)
      OBVIOUS
    <3> HIDE DEF u, sync
    <3> QED BY <2>1, <3>1, <3>2, <3>3 DEF RevokeJob
  <2> HIDE DEF u, sync
  <2> QED BY <2>1, <2>2, <2>3, <2>4, StartShuts
<1>4. ASSUME NEW k \in Keys, persist_settings(k) PROVE ClosedInv'
  BY <1>4, PersistShuts
<1>5. ASSUME job # Idle, NEW s \in job.sync, sync_setting_grants(s) PROVE ClosedInv'
  BY <1>5, SyncShuts
<1>6. \A p \in closed : ActiveRows(Root(p)) = {}
  BY DEF ClosedInv, Shut
<1>7. ASSUME NEW t \in Targets, NEW e \in {Never, MaxNow}, NEW c \in BOOLEAN, grants_create(t, e, c)
      PROVE  ClosedInv'
  <2>1. e \in {Never} \cup 0..MaxNow /\ "user" \in Scopes
    BY BoundAssumption DEF Scopes
  <2>2. /\ grants' = create_or_refresh_grant(t, "user", e) /\ UNCHANGED <<settings, job>>
        /\ closed' = IF Len(t) = 2 THEN closed \ {t[2]} ELSE closed
    BY <1>7 DEF grants_create
  <2>3. \A g \in grants' : g.state = "active" =>
            g = NewRow(t, "user", e) \/ (g \in grants /\ g.target # t)
    BY <2>1, <2>2, CreateRow DEF IInv
  <2>4. \A p \in closed' : Root(p) # t
    BY <2>2, TargetFacts DEF Root
  <2>5. \A p \in closed' : ActiveRows(Root(p))' = {}
    BY <1>6, <2>2, <2>3, <2>4 DEF ActiveRows, NewRow
  <2> QED BY <2>2, <2>5, StayShut
<1>8. ASSUME NEW T \in {{t} : t \in Targets} \cup {Targets}, grants_revoke(T)
      PROVE  ClosedInv'
  <2>1. T \in SUBSET Targets /\ grants' = revoke_grants(T) /\ UNCHANGED <<settings, job, closed>>
    BY <1>8 DEF grants_revoke
  <2>2. \A g \in grants' : g.state = "active" => g \in grants
    BY <2>1, RevokeRows DEF IInv
  <2>3. \A p \in closed' : ActiveRows(Root(p))' = {}
    BY <1>6, <2>1, <2>2 DEF ActiveRows
  <2> QED BY <2>1, <2>3, StayShut
<1>9. CASE Return \/ StoreError \/ Tick \/ UNCHANGED vars
  <2>1. UNCHANGED <<settings, grants, closed>> /\ (UNCHANGED job \/ job' = Idle)
    BY <1>9 DEF Return, StoreError, Tick, vars
  <2>2. \A p \in closed' : ActiveRows(Root(p))' = {}
    BY <1>6, <2>1 DEF ActiveRows
  <2> QED BY <2>1, <2>2, StayShut
<1>10. CASE Restart
  <2>1. grants' = reconcile_system_grants /\ job' = Idle /\ UNCHANGED <<settings, closed>>
    BY <1>10 DEF Restart
  <2>2. \A p \in closed : ~Wanted(Root(p))
    <3>1. \A p : Len(Root(p)) # 1 /\ Root(p)[1] = "local_roots" /\ Root(p)[2] = p
      BY DEF Root
    <3> QED BY <3>1 DEF Wanted, ClosedInv, Shut
  <2>3. \A g \in grants' : g.state = "active" => g \in grants \/ Wanted(g.target)
    BY <2>1, ReconcileRows DEF IInv
  <2>4. \A p \in closed' : ActiveRows(Root(p))' = {}
    BY <1>6, <2>1, <2>2, <2>3 DEF ActiveRows
  <2> QED BY <2>1, <2>4, StayShut
<1> QED BY <1>1, <1>2, <1>3, <1>4, <1>5, <1>7, <1>8, <1>9, <1>10 DEF Next

\* A root whose revoke_root has returned stays closed, across restarts, until a call asks
\* for it again; the tool gate passes its path only for another grant that covers it.
THEOREM RevokedRootStaysClosed == Spec => []RevokedRootClosed
<1>1. ASSUME Init PROVE ClosedInv
  BY <1>1 DEF Init, ClosedInv, RevokeJob, Running
<1>2. ASSUME ClosedInv PROVE RevokedRootClosed
  <2> SUFFICES ASSUME NEW p \in closed
               PROVE  /\ ActiveRows(Root(p)) = {}
                      /\ enforce_tool_gate(p) =>
                           \E t \in Targets \ {Root(p)} :
                              Len(t) = 2 /\ <<t[2], p>> \in Covers /\ ActiveRows(t) # {}
    BY DEF RevokedRootClosed, Root
  <2>1. ActiveRows(Root(p)) = {}
    BY <1>2 DEF ClosedInv, Shut
  <2> QED BY <2>1 DEF enforce_tool_gate, has_filesystem_grant
<1> QED BY <1>1, <1>2, ClosedInductive, Invariance, PTL DEF Spec
=============================================================================
