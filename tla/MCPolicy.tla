------------------------------ MODULE MCPolicy ------------------------------
\* Model-checking instances of Gates and of Permissions, which share no variable: a
\* behaviour moves one of them and leaves the other as it began.
EXTENDS Gates, Permissions, TLC

VARIABLE part

\* Gates: a plan of two tasks with different methods, scopes and required evidence.
MCTaskLists ==
    {<<[method |-> "memory.save", scopes |-> {"memory:save"}, required |-> {"command_result"}],
       [method |-> "settings.set", scopes |-> {"system"}, required |-> {"db_query", "command_result"}]>>}

\* Permissions: a synced toggle, one that is not, and the local roots.
MCUpdates ==
    {"profile" :> 2 @@ "shell" :> TRUE @@ "filesystem" :> TRUE,
     "profile" :> 0 @@ "shell" :> FALSE @@ "filesystem" :> FALSE,
     "profile" :> 0 @@ "local_roots" :> {"/a"},
     "profile" :> 0 @@ "local_roots" :> {}}

\* "/ab" starts with the text of "/a".
MCCovers == {<<"/a", "/a">>, <<"/ab", "/ab">>, <<"/a", "/ab">>}

MCInit == GatesInit /\ Init /\ part \in {"gates", "permissions"}

MCNext ==
    /\ UNCHANGED part
    /\ \/ part = "gates" /\ GatesNext /\ UNCHANGED vars
       \/ part = "permissions" /\ Next /\ UNCHANGED gatesVars

MCSpec == MCInit /\ [][MCNext]_<<gatesVars, vars, part>>
=============================================================================
