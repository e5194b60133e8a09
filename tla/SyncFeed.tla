------------------------------ MODULE SyncFeed ------------------------------
(***************************************************************************)
(* The sync API over change_log (storage.go, export.go), under a sync      *)
(* engine that keeps a remote copy of the tables.                          *)
(*                                                                         *)
(* The handlers commit a change and log it afterwards.  The engine, which  *)
(* is not in this repository, discovers what is there once, by List of all *)
(* entities and a Read of each, and remembers that in a cursor; from then  *)
(* on it polls for unsynced changes, reads what they name, pushes it and   *)
(* marks the batch.  It may die anywhere and starts from its cursor.       *)
(*                                                                         *)
(*   start -> list -> visit -> poll -> apply -> poll                       *)
(***************************************************************************)
EXTENDS Paths, FiniteSets

CONSTANTS
    Instances,   \* plugin instances that write to the workspace
    Requests,    \* the writes and deletes clients make
    Seeds,       \* databases the engine may find
    Prefixes,    \* what clients list, beside all projects
    Limit,       \* the limit the engine passes to GetUnsyncedChanges
    MaxLog,      \* bound on the entries of the log
    MaxFaults    \* bound on deaths of the engine and statements that fail

ASSUME FeedAssumption ==
    /\ Requests \subseteq {q \in Request : q.op # "read"}
    /\ \A d \in Seeds : IsDatabase(d)
    /\ Limit \in Int
    /\ MaxLog \in Nat
    /\ MaxFaults \in Nat

VARIABLES
    db,
    log,      \* change_log: entry i is the row with id i
    synced,   \* the ids whose synced column is set
    cursor,   \* sync_state: whether discovery is on record
    pending,  \* what an instance has committed and not yet logged
    stage,    \* where the engine is
    next,     \* the next SELECT of listAllEntities
    found,    \* listed paths the engine has yet to read
    batch,    \* changes it has fetched and yet to apply
    maxID,    \* the last id of the batch
    held,     \* what it has read and yet to push
    remote,   \* the copy
    missed,   \* history: entities changed or listed without the engine knowing
    faults

vars == <<db, log, synced, cursor, pending, stage, next, found, batch, maxID,
          held, remote, missed, faults>>

tables == <<db, log, pending, missed>>
engine == <<stage, next, found, batch, maxID, held>>

Nothing == [name |-> <<"kv_store", NoName>>, act |-> "none"]

NoHold == [key |-> <<"kv_store", NoName, 0>>, some |-> FALSE,
           row |-> [ver |-> 0, body |-> Blank]]

Entry == [name : Tables \X Names, act : {"upsert", "delete"}]

Ids == 1 .. Len(log)

Listable == {EntityQueries[i] : i \in 1 .. Len(EntityQueries)}

\* Types; a batch and its last id are ids of the log, and so are those marked.
TypeOK ==
    /\ IsDatabase(db)
    /\ log \in Seq(Entry)
    /\ synced \subseteq Ids
    /\ cursor \in BOOLEAN
    /\ pending \in [Instances -> Entry \union {Nothing}]
    /\ stage \in {"start", "list", "visit", "poll", "apply"}
    /\ next \in 1 .. Len(EntityQueries) + 1
    /\ batch \subseteq Ids
    /\ maxID \in 0 .. Len(log)
    /\ held \in [key : Key, some : BOOLEAN, row : [ver : Int, body : Bodies]]
    /\ DOMAIN remote \subseteq Key
    /\ remote \in [DOMAIN remote -> [ver : Int, body : Bodies]]
    /\ missed \subseteq Tables \X Names
    /\ faults \in 0 .. MaxFaults

-----------------------------------------------------------------------------

NameOf(k) == <<k[1], k[2]>>
KeyNamed(n) == <<n[1], n[2], 0>>

\* What a reader gets of a row.
Shape(r) == [ver |-> r.ver, body |-> r.body]

\* Discovery leads to this row.
Discoverable(k, r) ==
    /\ k[1] \in Listable
    /\ k[1] = "notes" => r.body \notin Hidden
    /\ ReadsBack(k, PathOf(k, r))

\* recordChange skips kv_store, and a delete of the stacks does not reach it.
IsLogged(q) ==
    /\ q.table # "kv_store"
    /\ ~(q.table = "stacks" /\ q.op = "delete")

EntryOf(q) ==
    [name |-> <<q.table, IF q.table = "packs" /\ q.op = "delete"
                         THEN "registry" ELSE q.id>>,
     act |-> IF q.op = "write" THEN "upsert" ELSE "delete"]

\* Something fails that may.
Fault == faults < MaxFaults /\ faults' = faults + 1

\* The entities that differ between two databases.
Changed(d, e) ==
    {NameOf(k) : k \in {x \in DOMAIN d \union DOMAIN e :
        ~(x \in DOMAIN d /\ x \in DOMAIN e /\ d[x] = e[x])}}

-----------------------------------------------------------------------------

Init ==
    /\ db \in Seeds
    /\ log = << >>
    /\ synced = {}
    /\ cursor = FALSE
    /\ pending = [i \in Instances |-> Nothing]
    /\ stage = "start"
    /\ next = 1
    /\ found = {}
    /\ batch = {}
    /\ maxID = 0
    /\ held = NoHold
    /\ remote = [k \in {} |-> NoHold.row]
    /\ missed = {NameOf(k) : k \in {x \in DOMAIN db : ~Discoverable(x, db[x])}}
    /\ faults = 0

\* The statements of Write or Delete.  What they change beside the entity they
\* will log, by cascade or by ensureProject, no entry ever names.
Commit(i) ==
    /\ pending[i] = Nothing
    /\ Len(log) + Cardinality({j \in Instances : pending[j] # Nothing}) < MaxLog
    /\ \E q \in Requests :
         /\ Allowed(db, q)
         /\ db' = After(db, q)
         /\ IF IsLogged(q)
            THEN /\ pending' = [pending EXCEPT ![i] = EntryOf(q)]
                 /\ missed' = missed
                        \union (Changed(db, After(db, q)) \ {EntryOf(q).name})
            ELSE /\ missed' = missed \union Changed(db, After(db, q))
                 /\ UNCHANGED pending
    /\ UNCHANGED <<log, synced, cursor, engine, remote, faults>>

\* recordChange.  The entry tells the engine to look at the entity again.
Record(i) ==
    /\ pending[i] # Nothing
    /\ log' = Append(log, pending[i])
    /\ missed' = missed \ {pending[i].name}
    /\ pending' = [pending EXCEPT ![i] = Nothing]
    /\ UNCHANGED <<db, synced, cursor, engine, remote, faults>>

\* The process dies before recordChange, or its INSERT fails and is printed.
LoseRecord(i) ==
    /\ pending[i] # Nothing
    /\ Fault
    /\ missed' = missed \union {pending[i].name}
    /\ pending' = [pending EXCEPT ![i] = Nothing]
    /\ UNCHANGED <<db, log, synced, cursor, engine, remote>>

-----------------------------------------------------------------------------
(* The engine.                                                             *)

\* GetSyncCursor answers "" when there is no cursor, and on any error.
GetSyncCursor ==
    /\ stage = "start"
    /\ \/ cursor /\ stage' = "poll" /\ UNCHANGED faults
       \/ ~cursor /\ stage' = "list" /\ UNCHANGED faults
       \/ cursor /\ stage' = "list" /\ Fault
    /\ next' = 1
    /\ UNCHANGED <<tables, synced, cursor, found, batch, maxID, held, remote>>

\* One SELECT of listAllEntities; one that fails is skipped without a word.
ListNext ==
    /\ stage = "list"
    /\ IF next > Len(EntityQueries)
       THEN stage' = "visit" /\ UNCHANGED <<next, found, missed, faults>>
       ELSE /\ next' = next + 1
            /\ \/ /\ found' = found \union
                        {PathOf(k, db[k]) : k \in Shown(db, EntityQueries[next])}
                  /\ UNCHANGED <<missed, faults>>
               \/ /\ Fault
                  /\ missed' = missed \union
                        {NameOf(k) : k \in Shown(db, EntityQueries[next])}
                  /\ UNCHANGED found
            /\ UNCHANGED stage
    /\ UNCHANGED <<db, log, pending, synced, cursor, batch, maxID, held, remote>>

\* Read of a key: a row that has gone meanwhile is not found.
Fetch(k) ==
    held' = IF k \in DOMAIN db
            THEN [key |-> k, some |-> TRUE, row |-> Shape(db[k])]
            ELSE NoHold

Visit ==
    /\ stage = "visit"
    /\ ~held.some
    /\ \E p \in found :
         /\ Fetch(ReadKey(routePath(p)))
         /\ found' = found \ {p}
    /\ UNCHANGED <<tables, synced, cursor, stage, next, batch, maxID, remote,
                   faults>>

SetSyncCursor ==
    /\ stage = "visit"
    /\ ~held.some
    /\ found = {}
    /\ cursor' = TRUE
    /\ stage' = "poll"
    /\ UNCHANGED <<tables, synced, next, found, batch, maxID, held, remote,
                   faults>>

Push ==
    /\ held.some
    /\ remote' = Put(remote, held.key, held.row)
    /\ held' = NoHold
    /\ UNCHANGED <<tables, synced, cursor, stage, next, found, batch, maxID,
                   faults>>

\* A bug to be caught: no ORDER BY.
UnsyncedNewestFirst(limit) ==
    LET unsynced == Ids \ synced
        most == IF limit <= 0 THEN 1000 ELSE limit
    IN {i \in unsynced : Cardinality({j \in unsynced : j >= i}) <= most}

\* The first entries, by id, that are not marked.
Unsynced(limit) ==
    LET unsynced == Ids \ synced
        most == IF limit <= 0 THEN 1000 ELSE limit
    IN {i \in unsynced : Cardinality({j \in unsynced : j <= i}) <= most}

GetUnsyncedChanges ==
    /\ stage = "poll"
    /\ Unsynced(Limit) # {}
    /\ batch' = Unsynced(Limit)
    /\ maxID' \in batch'
    /\ \A i \in batch' : i <= maxID'
    /\ stage' = "apply"
    /\ UNCHANGED <<tables, synced, cursor, next, found, held, remote, faults>>

\* The engine takes the changes of a batch in the order of their ids: it drops
\* what was deleted and reads again what was written.
ApplyChange ==
    /\ stage = "apply"
    /\ ~held.some
    /\ \E i \in batch :
         /\ \A j \in batch : i <= j
         /\ batch' = batch \ {i}
         /\ LET k == KeyNamed(log[i].name) IN
            IF log[i].act = "delete"
            THEN /\ remote' = Restrict(remote, DOMAIN remote \ {k})
                 /\ UNCHANGED held
            ELSE /\ Fetch(k)
                 /\ UNCHANGED remote
    /\ UNCHANGED <<tables, synced, cursor, stage, next, found, maxID, faults>>

\* Bugs to be caught: id < maxID, and one id too many.
MarkedBelow == synced \union {i \in Ids : i < maxID}
MarkedBeyond == synced \union 1 .. maxID + 1

\* UPDATE ... WHERE id <= maxID
Marked == synced \union {i \in Ids : i <= maxID}

MarkChangesSynced ==
    /\ stage = "apply"
    /\ ~held.some
    /\ batch = {}
    /\ synced' = Marked
    /\ stage' = "poll"
    /\ UNCHANGED <<tables, cursor, next, found, batch, maxID, held, remote,
                   faults>>

\* The engine dies: what it has read is gone, what it has pushed stays.
Crash ==
    /\ Fault
    /\ stage' = "start"
    /\ found' = {}
    /\ batch' = {}
    /\ held' = NoHold
    /\ UNCHANGED <<tables, synced, cursor, next, maxID, remote>>

Engine ==
    \/ GetSyncCursor
    \/ ListNext
    \/ Visit
    \/ SetSyncCursor
    \/ Push
    \/ GetUnsyncedChanges
    \/ ApplyChange
    \/ MarkChangesSynced

Next ==
    \/ \E i \in Instances : Commit(i) \/ Record(i) \/ LoseRecord(i)
    \/ Engine
    \/ Crash

Spec == Init /\ [][Next]_vars

\* The engine keeps polling; nothing is asked of clients or of faults.
FairSpec == Spec /\ WF_vars(Engine)

-----------------------------------------------------------------------------
(* Properties.                                                             *)

\* A key the engine follows: a row of a table that List of all entities shows.
Followed(k) == k[1] \in Listable /\ k[3] = 0

Agree(k) ==
    /\ k \in DOMAIN db <=> k \in DOMAIN remote
    /\ k \in DOMAIN db => remote[k] = Shape(db[k])

\* Nothing is on its way from the handlers to the copy.
Quiet ==
    /\ \A i \in Instances : pending[i] = Nothing
    /\ stage = "poll"
    /\ synced = Ids

\* When the feed has run dry the copy is what the tables are, though the engine
\* listed and read while rows changed, died with a batch half applied, and took
\* changes twice: but for the entities whose change was never logged.
RemoteConverges ==
    Quiet => \A k \in DOMAIN db \union DOMAIN remote :
        Followed(k) /\ NameOf(k) \notin missed => Agree(k)

\* The deployment the feed needs: one instance, whose mutex keeps the order of
\* the log that of the changes.
Solitary == \A i, j \in Instances : i = j

\* The names a deployment must keep to.  A project is one part of a path
\* (list.go:103 joins a project_id with whatever slashes it has) and not called
\* like a folder of the router, a session with turns has no dot in its name
\* (pathrouter.go:101), a turn's number is one that printf and Sscanf take to
\* each other (list.go:267, read.go:608).
PlainNames ==
    /\ \A q \in Requests : PlainRequest(q)
    /\ \A d \in Seeds : AllAddressable(d)

\* A path List answers with leads Read back to the row it stands for, wherever
\* in the two files the path is built and parsed; every path of the packs leads
\* to their listing.  A row of a folder must name its project: a note need not.
\* It takes names that PlainNames describes.
ListedReadsBack ==
    \A k \in listAllProjects(db) \union UNION {ListKeys(db, p) : p \in Prefixes} :
        \/ k[1] \in FolderTables \ {"notes"} /\ db[k].owner = NoName
        \/ k[1] = "packs" /\ Readable(db, routePath(PathOf(k, db[k])))
        \/ ReadsBack(k, PathOf(k, db[k]))

\* Every logged change is delivered and marked in the end, a batch at a time.
EveryChangeSynced ==
    \A i \in 1 .. MaxLog : i \in Ids ~> i \in synced

=============================================================================
