------------------------------ MODULE MCMemory ------------------------------
\* Model-checking instances of Import, Nightly and Sessions, the handlers that write the
\* memory tables.  Each module has its own view of those tables: a behaviour moves one of
\* the modules, or one part of one, and leaves the others as they began.  A batch meets the
\* memories of other imports as those SaveElsewhere saves.
EXTENDS Import, Nightly, Sessions

VARIABLE part

\* Import.
Item(key, value, class) == [key |-> key, value |-> value, class |-> class]

\* A titled item, one without title, and one of another class.
MCContents ==
    {<<Item(<<"k">>, "v1", "ready"), Item(NoKey, "v2", "ready"), Item(NoKey, "v1", "low_quality")>>}

\* A pack with a keyed item, one that is refused ("bad" does not pass the quality gate) and one without a key.
MCPacks ==
    {<<[key |-> <<"k">>, value |-> "v1"], [key |-> NoKey, value |-> "bad"],
       [key |-> NoKey, value |-> "v2"]>>}

\* Nightly: memories of one source and of another, saved in the order of their numbers; as
\* texts their ids are in another order.
MCSourceOf == [m \in Memories |-> IF m = 2 THEN "web" ELSE "chat"]
MCRank == [m \in Memories |-> IF m = 3 THEN 0 ELSE m]
InOrder == saved' = 1..Cardinality(saved')

\* Sessions: texts for two sessions, with and without something to redact.
MCDrafts == {[session |-> "a", verdict |-> "plain", action |-> FALSE],
             [session |-> "a", verdict |-> "secret", action |-> TRUE],
             [session |-> "b", verdict |-> "seam", action |-> FALSE]}

MCInit ==
    /\ ImportInit /\ Init /\ SessionsInit
    /\ part \in {"batches", "packs", "nightly", "sessions", "artifacts"}
    /\ part # "nightly" => started = 0

MCNext ==
    /\ UNCHANGED part
    /\ \/ /\ part \in {"batches", "packs"} /\ ImportNext
          /\ IF part = "batches" THEN UNCHANGED runs ELSE UNCHANGED batches
          /\ UNCHANGED <<vars, sessionsVars>>
       \/ part = "nightly" /\ Next /\ InOrder /\ UNCHANGED <<importVars, sessionsVars>>
       \/ /\ part = "sessions" /\ (SessionNext \/ (SaveNext /\ Len(texts) < 2) \/ CutOff)
          /\ UNCHANGED <<importVars, vars>>
       \/ /\ part = "artifacts" /\ (SaveNext \/ HourPasses \/ CompactNext \/ ReasoningNext \/ CutOff)
          /\ UNCHANGED <<importVars, vars>>

MCSpec == MCInit /\ [][MCNext]_<<importVars, vars, sessionsVars, part>>

\* The Io worker carries on with an import it has begun.
MCFairSpec == MCSpec /\ WF_importVars(JobStep)
=============================================================================
