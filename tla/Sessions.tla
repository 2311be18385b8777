------------------------------ MODULE Sessions ------------------------------
(***************************************************************************)
(* Projects, sessions, compaction and reasoning artifacts of the brain     *)
(* (projects.rs, sessions.rs, session.rs, reasoning_bridge.rs).  The       *)
(* Cognition worker runs these calls one after the other, but a call takes *)
(* the store mutex several times and commits each time: the Save worker    *)
(* saves in between, and an error or a crash cuts a call off after any of  *)
(* its commits.                                                            *)
(*                                                                         *)
(* A memory is its place in the table, in the order of creation.  Its text *)
(* is a verdict: "plain", "secret" (security_gate finds a secret in a      *)
(* leaf) or "seam" (a secret appears only when leaves are joined).  What a *)
(* duplicate is decided by is the first 300 characters of the value.       *)
(***************************************************************************)
EXTENDS Integers, FiniteSets, Sequences, SequencesExt

CONSTANTS
    Projects, SessionIds, Titles,
    Drafts,        \* memories others save: records [session, verdict, action]
    Limits,        \* the limits a compaction may be asked with
    MaxTexts,      \* bound: memories
    MaxRenames     \* bound: title events of a session

ASSUME SessionsAssumption == Limits \subseteq Nat

VARIABLES
    projects,      \* table projects
    sessions,      \* table sessions: a partial function
    titleEvents,   \* ledger events session.created and session.renamed, by session
    texts,         \* table memories
    recent,        \* first memory of the last hour
    events,        \* ledger events session.compacted and reasoning.artifact
    links,         \* table reasoning_bridge_events: <<kind, memory, source>>
    job,           \* the call the Cognition worker runs
    answered       \* history variable: artifacts whose call was answered

sessionTables == <<projects, sessions, titleEvents>>
textTables == <<texts, recent, events, links>>
sessionsVars == <<sessionTables, textTables, job, answered>>

NoJob == [pc |-> "idle"]

SessionsInit ==
    /\ projects = {} /\ sessions = [s \in {} |-> {}] /\ titleEvents = [s \in SessionIds |-> <<>>]
    /\ texts = <<>> /\ recent = 1 /\ events = {} /\ links = {}
    /\ job = NoJob /\ answered = {}

-----------------------------------------------------------------------------
(* Projects and sessions.                                                  *)

projects_create(p) ==
    /\ job.pc = "idle" /\ p \notin projects
    /\ projects' = projects \cup {p}
    /\ UNCHANGED <<sessions, titleEvents, textTables, job, answered>>

Deactivated == [s \in DOMAIN sessions |-> [sessions[s] EXCEPT !.active = FALSE]]

\* Mutant: the session that was active stays so.
sessions_create_Beside(s, p, title, activate) ==
    /\ job.pc = "idle" /\ s \notin DOMAIN sessions /\ p \in projects \cup {"none"}
    /\ sessions' = [x \in DOMAIN sessions \cup {s} |->
                       IF x = s THEN [project |-> p, title |-> title, active |-> activate] ELSE sessions[x]]
    /\ titleEvents' = [titleEvents EXCEPT ![s] = Append(@, [old |-> "", new |-> title])]
    /\ UNCHANGED <<projects, textTables, job, answered>>

\* One transaction; the foreign key wants the project.
sessions_create(s, p, title, activate) ==
    LET before == IF activate THEN Deactivated ELSE sessions
    IN  /\ job.pc = "idle" /\ s \notin DOMAIN sessions /\ p \in projects \cup {"none"}
        /\ sessions' = [x \in DOMAIN sessions \cup {s} |->
                           IF x = s THEN [project |-> p, title |-> title, active |-> activate] ELSE before[x]]
        /\ titleEvents' = [titleEvents EXCEPT ![s] = Append(@, [old |-> "", new |-> title])]
        /\ UNCHANGED <<projects, textTables, job, answered>>

\* set_active commits twice under one guard of the store mutex: all sessions off, then the
\* one asked for; a session that is not there is found out last.
set_active(s, active) ==
    /\ job.pc = "idle"
    /\ sessions' = Deactivated
    /\ job' = [pc |-> "activate", session |-> s, active |-> active]
    /\ UNCHANGED <<projects, titleEvents, textTables, answered>>

SetActiveSecond ==
    /\ job.pc = "activate"
    /\ sessions' = IF job.session \in DOMAIN sessions
                   THEN [sessions EXCEPT ![job.session].active = job.active] ELSE sessions
    /\ job' = NoJob
    /\ UNCHANGED <<projects, titleEvents, textTables, answered>>

\* One transaction: the old title, the new one and their ledger event.
rename(s, title) ==
    /\ job.pc = "idle" /\ s \in DOMAIN sessions /\ Len(titleEvents[s]) < MaxRenames
    /\ sessions' = [sessions EXCEPT ![s].title = title]
    /\ titleEvents' = [titleEvents EXCEPT ![s] = Append(@, [old |-> sessions[s].title, new |-> title])]
    /\ UNCHANGED <<projects, textTables, job, answered>>

\* hierarchy: the sessions of each project, and those of none.
TextsOf(s) == {m \in DOMAIN texts : texts[m].session = s}
hierarchy ==
    [p \in projects \cup {"none"} |->
        [s \in {x \in DOMAIN sessions : sessions[x].project = p} |-> Cardinality(TextsOf(s))]]

\* projects.list counts memories by a subquery.
projects_list(p) == Cardinality({m \in DOMAIN texts : texts[m].session \in {s \in DOMAIN sessions : sessions[s].project = p}})

-----------------------------------------------------------------------------
(* Memories.                                                               *)

Held == job.pc \in {"activate", "sources"}

Text(s, kind, verdict, prefix, sources) ==
    [session |-> s, kind |-> kind, verdict |-> verdict, prefix |-> prefix, sources |-> sources]

\* save_memory of another worker, with a text of its own; a memory may name a session that has
\* no row.  memory_matches_markers tells by its key or track whether it is an action taken.
SaveText(s, verdict, action) ==
    /\ ~Held /\ Len(texts) < MaxTexts
    /\ texts' = Append(texts, Text(s, IF action THEN "action" ELSE "note", verdict, <<"own", Len(texts) + 1>>, {}))
    /\ UNCHANGED <<sessionTables, recent, events, links, job, answered>>

HourPasses ==
    /\ recent' \in (recent + 1)..(Len(texts) + 1)
    /\ UNCHANGED <<sessionTables, texts, events, links, job, answered>>

has_recent_duplicate_prefix_tx(prefix) == \E m \in recent..Len(texts) : texts[m].prefix = prefix

-----------------------------------------------------------------------------
(* session.compact.                                                        *)

\* active_session_id: what a call that names no session works on.
active_session_id == {s \in DOMAIN sessions : sessions[s].active}

\* Mutant: the newest memories instead of the oldest.
load_session_memories_Newest(s, limit) ==
    {m \in TextsOf(s) : Cardinality({j \in TextsOf(s) : j > m}) < limit}

\* ORDER BY created_at_s ASC LIMIT: the oldest memories of the session, artifacts included.
load_session_memories(s, limit) ==
    {m \in TextsOf(s) : Cardinality({j \in TextsOf(s) : j < m}) < limit}

\* Leaves with a secret are replaced by a hash.
sanitize_compaction_value(verdict) == IF verdict = "secret" THEN "plain" ELSE verdict

\* compartment_items of the actions taken.
ActionsTaken(sources) == {m \in sources : texts[m].kind = "action"}

\* The text starts with the artifact type, the budget and the number of actions taken: the
\* session and the first item come after the first 300 characters.
build_compaction_artifact(sources, budget) ==
    [verdict |-> IF \E m \in sources : sanitize_compaction_value(texts[m].verdict) # "plain" THEN "seam" ELSE "plain",
     prefix |-> <<"compaction", budget, Cardinality(ActionsTaken(sources))>>]

\* A session without memories is refused, and so is an artifact that still holds a secret.
CompactLoad(s, limit, budget) ==
    LET sources  == load_session_memories(s, limit)
        artifact == build_compaction_artifact(sources, budget)
    IN  /\ job.pc = "idle" /\ sources # {} /\ artifact.verdict = "plain"
        /\ job' = [pc |-> "save", text |-> Text(s, "session_compaction", artifact.verdict, artifact.prefix, sources)]
        /\ UNCHANGED <<sessionTables, textTables, answered>>

\* save_memory; a recent memory that starts alike makes the call fail.
CompactSave ==
    /\ job.pc = "save" /\ job.text.kind = "session_compaction" /\ Len(texts) < MaxTexts
    /\ IF has_recent_duplicate_prefix_tx(job.text.prefix)
       THEN job' = NoJob /\ UNCHANGED texts
       ELSE texts' = Append(texts, job.text) /\ job' = [pc |-> "ledger", memory |-> Len(texts) + 1]
    /\ UNCHANGED <<sessionTables, recent, events, links, answered>>

\* record_compaction_ledger, its own transaction.
record_compaction_ledger ==
    /\ job.pc = "ledger" /\ texts[job.memory].kind = "session_compaction"
    /\ events' = events \cup {<<"session.compacted", job.memory>>}
    /\ job' = [job EXCEPT !.pc = "bridge"]
    /\ UNCHANGED <<sessionTables, texts, recent, links, answered>>

\* record_compaction: the row of the artifact, then one per source under the same guard.
insert_bridge(kind, memory, source) == links' = links \cup {<<kind, memory, source>>}

record_compaction ==
    /\ job.pc = "bridge"
    /\ insert_bridge("session_compaction", job.memory, 0)
    /\ job' = [pc |-> "sources", memory |-> job.memory, left |-> texts[job.memory].sources]
    /\ UNCHANGED <<sessionTables, texts, recent, events, answered>>

RecordSource ==
    /\ job.pc = "sources"
    /\ \E oldest \in job.left :
           /\ \A i \in job.left : oldest <= i
           /\ insert_bridge("session_compaction_source", job.memory, oldest)
           /\ job' = [job EXCEPT !.left = @ \ {oldest}]
    /\ UNCHANGED <<sessionTables, texts, recent, events, answered>>

CompactAnswer ==
    /\ job.pc = "sources" /\ job.left = {}
    /\ job' = NoJob /\ answered' = answered \cup {job.memory}
    /\ UNCHANGED <<sessionTables, textTables>>

\* session.compactions: the newest artifacts of a session.
ArtifactsOf(s) == {m \in TextsOf(s) : texts[m].kind = "session_compaction"}
compactions(s, limit) ==
    {m \in ArtifactsOf(s) : Cardinality({n \in ArtifactsOf(s) : n > m}) < limit}

\* compaction_open: what the artifact says its sources are, -32004 for another memory.
compaction_open(m) ==
    IF m \in DOMAIN texts /\ texts[m].kind = "session_compaction" THEN texts[m].sources ELSE {0}

\* compaction_snapshot: the artifact shown as the latest.
compaction_snapshot(s) == IF compactions(s, 1) = {} THEN 0 ELSE CHOOSE m \in compactions(s, 1) : TRUE

-----------------------------------------------------------------------------
(* reasoning.run.                                                          *)

\* list: the bridge rows of a memory.
BridgesOf(m) == {l \in links : m \in {l[2], l[3]}}

\* open_memory, then the bridges: two guards of the mutex, and neither changes anything.  The
\* text names the target and the number of its bridges first.
ReasoningRead(target) ==
    /\ job.pc = "idle" /\ target \in DOMAIN texts
    /\ job' = [pc |-> "save",
               text |-> Text(texts[target].session, "session_reasoning", "plain",
                             <<"reasoning", target, Cardinality(BridgesOf(target))>>, {target})]
    /\ UNCHANGED <<sessionTables, textTables, answered>>

ReasoningSave ==
    /\ job.pc = "save" /\ job.text.kind = "session_reasoning" /\ Len(texts) < MaxTexts
    /\ IF has_recent_duplicate_prefix_tx(job.text.prefix)
       THEN job' = NoJob /\ UNCHANGED texts
       ELSE texts' = Append(texts, job.text) /\ job' = [pc |-> "ledger", memory |-> Len(texts) + 1]
    /\ UNCHANGED <<sessionTables, recent, events, links, answered>>

ReasoningLedger ==
    /\ job.pc = "ledger" /\ texts[job.memory].kind = "session_reasoning"
    /\ events' = events \cup {<<"reasoning.artifact", job.memory>>}
    /\ job' = [job EXCEPT !.pc = "link"]
    /\ UNCHANGED <<sessionTables, texts, recent, links, answered>>

ReasoningLink ==
    /\ job.pc = "link"
    /\ \E target \in texts[job.memory].sources : insert_bridge("reasoning_artifact", target, job.memory)
    /\ job' = NoJob /\ answered' = answered \cup {job.memory}
    /\ UNCHANGED <<sessionTables, texts, recent, events>>

\* A store error ends the call; a crash too, and the worker starts anew.
CutOff == /\ job.pc # "idle" /\ job' = NoJob
          /\ UNCHANGED <<sessionTables, textTables, answered>>

SessionNext ==
    \/ \E p \in Projects : projects_create(p)
    \/ \E s \in SessionIds :
           \/ \E p \in Projects \cup {"none"}, t \in Titles, a \in BOOLEAN : sessions_create(s, p, t, a)
           \/ \E a \in BOOLEAN : set_active(s, a)
           \/ \E t \in Titles : rename(s, t)
    \/ SetActiveSecond

CompactNext ==
    \/ \E s \in SessionIds, limit \in Limits, budget \in BOOLEAN : CompactLoad(s, limit, budget)
    \/ CompactSave \/ record_compaction_ledger \/ record_compaction \/ RecordSource \/ CompactAnswer

ReasoningNext == \/ \E m \in DOMAIN texts : ReasoningRead(m)
                 \/ ReasoningSave \/ ReasoningLedger \/ ReasoningLink

SaveNext == \E d \in Drafts : SaveText(d.session, d.verdict, d.action)

SessionsNext == SessionNext \/ SaveNext \/ HourPasses \/ CompactNext \/ ReasoningNext \/ CutOff

SessionsSpec == SessionsInit /\ [][SessionsNext]_sessionsVars

-----------------------------------------------------------------------------
(* Properties.                                                             *)

\* At most one session is active, though it changes in two commits a crash can part; the ledger
\* alone gives back every session's title; and the tree of sessions holds each of them once,
\* with as many memories under a project as the list of projects says.
SessionsTold ==
    /\ Cardinality(active_session_id) <= 1
    /\ \A s \in DOMAIN sessions :
           LET log == titleEvents[s] IN
           /\ log # <<>> /\ Last(log).new = sessions[s].title
           /\ \A i \in 2..Len(log) : log[i].old = log[i - 1].new
           /\ Cardinality({p \in DOMAIN hierarchy : s \in DOMAIN hierarchy[p]}) = 1
    /\ \A p \in projects :
           projects_list(p) = Cardinality(UNION {TextsOf(s) : s \in DOMAIN hierarchy[p]})

\* Whatever cut a compaction off, a bridge row leads to a ledgered event and this to a saved
\* artifact; an answered one has a row for every source; its sources are the oldest memories of
\* the session without a gap, though others were saved meanwhile; it holds no secret; and the
\* registry shows it.
CompactionTraceable ==
    /\ \A e \in events : e[2] \in DOMAIN texts
    /\ \A l \in links :
           \/ l[1] = "session_compaction" /\ <<"session.compacted", l[2]>> \in events
           \/ /\ l[1] = "session_compaction_source" /\ <<"session_compaction", l[2], 0>> \in links
              /\ l[3] \in compaction_open(l[2])
           \/ l[1] = "reasoning_artifact" /\ <<"reasoning.artifact", l[3]>> \in events /\ l[2] < l[3]
    /\ \A m \in answered :
           texts[m].kind = "session_compaction" =>
               /\ \A i \in texts[m].sources : <<"session_compaction_source", m, i>> \in links
               /\ m \in compactions(texts[m].session, Len(texts))
               /\ compaction_snapshot(texts[m].session) >= m
    /\ \A m \in DOMAIN texts :
           texts[m].kind = "session_compaction" =>
               /\ texts[m].verdict = "plain"
               /\ \A i \in texts[m].sources : \A j \in TextsOf(texts[m].session) :
                      j < i => j \in texts[m].sources

\* "When context windows fill up, sessions can be compacted" and "Ensure no information loss"
\* (docs/memory-model.md): a compaction is refused as a duplicate only when an artifact of the
\* same memories is there.
CompactionNotDuplicate ==
    job.pc = "save" /\ job.text.kind = "session_compaction" /\ has_recent_duplicate_prefix_tx(job.text.prefix) =>
        \E m \in DOMAIN texts : texts[m].kind = "session_compaction" /\ texts[m].sources = job.text.sources
=============================================================================
