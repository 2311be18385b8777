----------------------------- MODULE FileStores -----------------------------
(***************************************************************************)
(* The three JSON files in which the capability mesh of hom-ingress keeps  *)
(* what has to survive a restart (capability_mesh.rs): pending file-write  *)
(* previews with the certificates of applied ones, code reviews, and       *)
(* installed plugins with the list of uninstalled ones.                    *)
(*                                                                         *)
(* A handler reads the whole file, changes one entry of what it read and   *)
(* writes the whole file: a temporary file of a fixed name is truncated    *)
(* and filled, then renamed.  No lock is held, and the HTTP server runs    *)
(* handlers in parallel.  A handle stays on the file it was opened on when *)
(* that file is renamed or replaced under another handler's hands.  A file *)
(* that does not parse is read as an empty store.                          *)
(*                                                                         *)
(* The three stores share no file and no handler: a behaviour follows one  *)
(* of them, chosen initially.                                              *)
(*                                                                         *)
(* The routes check permission profile and approval first; a request they  *)
(* refuse changes nothing and is left out.                                 *)
(***************************************************************************)
EXTENDS Integers, FiniteSets

CONSTANTS
    StoreClients,      \* requests that can be in progress at the same time
    Previews,     \* ids of file-write previews, all for one workspace file
    Creates,      \* the previews of mode "create"; the others replace or append
    Reviews,      \* ids of code reviews
    Plugins,      \* ids of plugins
    MaxPushes     \* bound: entries of an append-only list per id, and writes per preview

ASSUME ModesAssumption == Creates \subseteq Previews

Stores == {"previews", "reviews", "plugins"}

Statuses == {"none", "pending", "accepted", "rejected", "installed", "disabled"}

VARIABLES
    store,    \* the store followed
    path,     \* its file: a value, or Absent, Truncated or Torn
    tmp,      \* its temporary file
    exists,   \* whether the workspace file exists
    job,      \* the handler of each client
    told,     \* history variable: the store as acknowledged requests say it is
              \* (not kept up once handlers have overlapped)
    raced,    \* history variable: two handlers have overlapped
    writes,   \* history variable: how often each preview was written to its file
    half      \* history variable: a handler ended between the workspace file and
              \* the certificate

storesVars == <<store, path, tmp, exists, job, told, raced, writes, half>>

IdleStore == [pc |-> "idle"]
Absent == [parses |-> FALSE, is |-> "absent"]
Truncated == [parses |-> FALSE, is |-> "truncated"]   \* opened, nothing written yet
Torn == [parses |-> FALSE, is |-> "torn"]             \* two writers' bytes mixed

\* A store: the status of each entry, and how many entries of its append-only list
\* (certificates of applied previews, uninstalled plugins) are for the id.
Value(rows, pushed) == [parses |-> TRUE, rows |-> rows, pushed |-> pushed]

Keys == CASE store = "previews" -> Previews
          [] store = "reviews"  -> Reviews
          [] store = "plugins"  -> Plugins

EmptyStore == Value([k \in Keys |-> "none"], [k \in Keys |-> 0])

\* read_..._store.
Read == IF path.parses THEN path ELSE EmptyStore

\* The copy of the store a handler writes back.
Changed(value, op) ==
    Value([value.rows EXCEPT ![op.key] = op.to],
          [value.pushed EXCEPT ![op.key] = IF op.pushes THEN @ + 1 ELSE @])

StoresInit ==
    /\ store \in Stores
    /\ path = Absent /\ tmp = Absent
    /\ exists \in BOOLEAN
    /\ job = [c \in StoreClients |-> IdleStore]
    /\ told = EmptyStore
    /\ raced = FALSE /\ half = FALSE
    /\ writes = [k \in Previews |-> 0]

-----------------------------------------------------------------------------
(* What the handlers do to an entry: the statuses they go on from, the status  *)
(* they set, and whether they add to the list.                                 *)

Op(s, k, from, to, pushes) ==
    [store |-> s, key |-> k, from |-> from, to |-> to, pushes |-> pushes]

preview_file_write(k) == Op("previews", k, Statuses, "pending", FALSE)
apply_file_write(k) == Op("previews", k, {"pending"}, "none", TRUE)

\* A review id is a hash of path and millisecond; nothing checks that it is new.
code_review_propose(k) == Op("reviews", k, Statuses, "pending", FALSE)
code_review_accept(k) == Op("reviews", k, {"pending"}, "accepted", FALSE)
code_review_reject(k) == Op("reviews", k, {"pending"}, "rejected", FALSE)

plugin_install(k) == Op("plugins", k, Statuses, "installed", FALSE)
plugin_enable(k) == Op("plugins", k, {"installed", "disabled"}, "installed", FALSE)
plugin_disable(k) == Op("plugins", k, {"installed", "disabled"}, "disabled", FALSE)

plugin_uninstall(k) == Op("plugins", k, {"installed", "disabled"}, "none", TRUE)

Operations ==
    (UNION {{preview_file_write(k), apply_file_write(k)} : k \in Previews})
    \cup (UNION {{code_review_propose(k), code_review_accept(k), code_review_reject(k)} : k \in Reviews})
    \cup (UNION {{plugin_install(k), plugin_enable(k), plugin_disable(k), plugin_uninstall(k)} : k \in Plugins})

\* apply_file_write alone touches the workspace file.
Applies(op) == op.store = "previews" /\ op.pushes

-----------------------------------------------------------------------------
(* Handlers *)

Busy == {c \in StoreClients : job[c] # IdleStore}

\* The store is read and the changed copy made; a request whose entry is not in one
\* of the statuses it goes on from is refused.
BeginStore(c, op) ==
    /\ op.store = store /\ job[c] = IdleStore
    /\ Read.rows[op.key] \in op.from
    /\ op.pushes => Read.pushed[op.key] < MaxPushes
    /\ job' = [job EXCEPT ![c] = [pc |-> IF Applies(op) THEN "file" ELSE "open", op |-> op,
                                  value |-> Changed(Read, op), at |-> "none"]]
    /\ raced' = (raced \/ Busy # {})
    /\ told' = IF raced' THEN EmptyStore ELSE told
    /\ UNCHANGED <<store, path, tmp, exists, writes, half>>

\* Mutant of WriteWorkspaceFile: a failed write is certified like a good one.
WriteWorkspaceFile_Unchecked(c) ==
    LET k == job[c].op.key IN
    /\ job[c].pc = "file" /\ writes[k] < MaxPushes
    /\ writes' = IF k \in Creates /\ exists THEN writes ELSE [writes EXCEPT ![k] = @ + 1]
    /\ exists' = TRUE
    /\ job' = [job EXCEPT ![c].pc = "open"]
    /\ UNCHANGED <<store, path, tmp, told, raced, half>>

\* The workspace file is written; mode "create" fails when it exists, and any write may,
\* after it has created the file too.
WriteWorkspaceFile(c) ==
    LET k == job[c].op.key IN
    /\ job[c].pc = "file"
    /\ \/ /\ ~(k \in Creates /\ exists) /\ writes[k] < MaxPushes
          /\ writes' = [writes EXCEPT ![k] = @ + 1]
          /\ exists' = TRUE
          /\ job' = [job EXCEPT ![c].pc = "open"]
       \/ /\ exists' \in {exists, TRUE}
          /\ job' = [job EXCEPT ![c] = IdleStore]
          /\ UNCHANGED writes
    /\ UNCHANGED <<store, path, tmp, told, raced, half>>

\* Mutant of OpenStore: the store file itself is opened and rewritten.
OpenStore_InPlace(c) ==
    /\ job[c].pc = "open"
    /\ path' = Truncated
    /\ tmp' = job[c].value
    /\ job' = [job EXCEPT ![c].pc = "write", ![c].at = "path"]
    /\ UNCHANGED <<store, exists, told, raced, writes, half>>

\* fs::write opens the temporary file, the one that is there or a new one.
OpenStore(c) ==
    /\ job[c].pc = "open"
    /\ tmp' = Truncated
    /\ job' = [job EXCEPT ![c].pc = "write", ![c].at = "tmp"]
    /\ UNCHANGED <<store, path, exists, told, raced, writes, half>>

\* Bytes written from the start of a file: over those of another writer, the longer
\* text leaves its end behind.
StoreWritten(old, value) == IF old \in {Truncated, value} THEN {value} ELSE {value, Torn}

\* ... and fills it, wherever it is by now.
WriteStore(c) ==
    /\ job[c].pc = "write"
    /\ \/ job[c].at = "tmp" /\ tmp' \in StoreWritten(tmp, job[c].value) /\ UNCHANGED path
       \/ job[c].at = "path" /\ path' \in StoreWritten(path, job[c].value) /\ UNCHANGED tmp
       \/ job[c].at = "gone" /\ UNCHANGED <<path, tmp>>
    /\ job' = [job EXCEPT ![c].pc = "rename"]
    /\ UNCHANGED <<store, exists, told, raced, writes, half>>

\* Where the handle of another handler is after the rename.
Moved(d) ==
    CASE d \in Busy /\ job[d].at = "tmp"  -> [job[d] EXCEPT !.at = "path"]
      [] d \in Busy /\ job[d].at = "path" -> [job[d] EXCEPT !.at = "gone"]
      [] OTHER -> job[d]

\* The rename, and the acknowledgement; when another handler's rename has taken the
\* temporary file away, an error.
RenameStore(c) ==
    /\ job[c].pc = "rename"
    /\ \/ /\ tmp # Absent
          /\ path' = tmp /\ tmp' = Absent
          /\ job' = [d \in StoreClients |-> IF d = c THEN IdleStore ELSE Moved(d)]
          /\ told' = IF raced THEN told ELSE Changed(told, job[c].op)
          /\ UNCHANGED half
       \/ /\ tmp = Absent
          /\ job' = [job EXCEPT ![c] = IdleStore]
          /\ half' = (half \/ Applies(job[c].op))
          /\ UNCHANGED <<path, tmp, told>>
    /\ UNCHANGED <<store, exists, raced, writes>>

\* A file system call on the store fails: an error is answered, and what is on disk
\* stays as it is.
StoreError(c) ==
    /\ job[c].pc \in {"open", "write", "rename"}
    /\ job' = [job EXCEPT ![c] = IdleStore]
    /\ half' = (half \/ Applies(job[c].op))
    /\ UNCHANGED <<store, path, tmp, exists, told, raced, writes>>

\* The process ends, anywhere, and starts again.
Restart ==
    /\ Busy # {}
    /\ half' = (half \/ \E c \in Busy : Applies(job[c].op) /\ job[c].pc # "file")
    /\ job' = [c \in StoreClients |-> IdleStore]
    /\ UNCHANGED <<store, path, tmp, exists, told, raced, writes>>

-----------------------------------------------------------------------------
StoresNext ==
    \/ \E c \in StoreClients :
        \/ \E op \in Operations : BeginStore(c, op)
        \/ WriteWorkspaceFile(c) \/ OpenStore(c) \/ WriteStore(c) \/ RenameStore(c)
        \/ StoreError(c)
    \/ Restart

StoresSpec == StoresInit /\ [][StoresNext]_storesVars

-----------------------------------------------------------------------------
(* Properties *)

\* Durability: while no two handlers of a store overlap, the file says exactly what
\* acknowledged requests were told, across errors and restarts after any file system
\* call.  Overlapping handlers lose updates, and may lose the store.
StoreAsTold == ~raced => Read = told

\* A certificate is never false: however handlers overlap, fail and restart, the store
\* has at most as many certificates of a preview as the file was written for it.  Nor
\* is one missing, unless handlers overlapped or one ended after it had written the
\* file: then the preview is still pending, and may be applied again.
CertificatesTrue ==
    store = "previews" => \A k \in Previews :
        /\ Read.pushed[k] <= writes[k]
        /\ ~raced /\ ~half /\ Busy = {} => Read.pushed[k] = writes[k]

=============================================================================
