# Verification of plugin-storage-sqlite

TLA+ modules, TLC runs and TLAPS proofs about the storage plugin: its request
handlers, the database they share, compare-and-swap, the change log and its
consumer, paths and lists, the markdown import and export, the index of
workspaces. Source paths below are relative to the repository root.

## The system

| Component | State | Operations | Hard behaviour |
|---|---|---|---|
| Handlers (`internal/write.go`, `delete.go`, `read.go`) | one `sync.Mutex` per `StoragePlugin` | Write, Delete, Read | several SQL statements per request with no transaction; Read takes no lock; returns at many places |
| Schema (`internal/schema.go`) | 21 tables; foreign keys features/persons → projects and session_turns → sessions, all cascading | upsert, delete, INSERT OR IGNORE | cascades change rows no request named |
| Compare-and-swap (`casCheck`, `writeKV`) | the `version` column | check, then upsert without a condition | check and swap are two statements; errors of the check read as "no row" |
| Path router (`internal/pathrouter.go`) | none | `routePath`, `isListPrefix` | several paths for one row; KV keyed by the raw path |
| Change log and sync API (`internal/storage.go`, `export.go`) | `change_log`, `sync_state` | `recordChange`, `GetUnsyncedChanges`, `MarkChangesSynced`, cursors | the log entry is written after the change, and its failure is only printed |
| Import (`internal/migrate_data.go`) | none | `MigrateFromMarkdown` at every start | reruns whenever `features` is empty; order of files against foreign keys; another process holds the lock |
| Export (`internal/markdown_export.go`) | files | `ExportToMarkdown` | rows stream into files one by one while others commit and export; round trip with the import |
| Connection cache (`internal/db.go`) | `dbCache`, `dbCacheMu`, one connection per handle | `OpenDB`, `CloseAll` | ping under the lock; pragmas of one connection |
| Workspace index (`internal/dbpath.go`) | `index.json`, `indexMu` | `RegisterWorkspace`, `ListWorkspaces` | read-modify-write of a file between processes |
| List (`internal/list.go`) | none | one SELECT per prefix, eleven for `*.md` | no snapshot across SELECTs |
| Start (`cmd/main.go`, `NewStoragePlugin`), `BootstrapProject` (`export.go`) | none | open, migrate, serve | built twice, first before flags are parsed |
| Plugin SDK, QUIC, SQLite | external | deliver requests, run statements | |

Requests reach a handler on a goroutine each. The handlers of one instance meet
in its mutex; instances, `BootstrapProject` and the sync API meet in the
database file, where each SQL statement is atomic (WAL, `busy_timeout`) and
nothing larger is, the import excepted. Write and Delete append to `change_log`
after their statement; the sync engine reads it through the exported functions.

What makes each part correct:

- handlers: a request takes effect at one instant or not at all; the mutex is
  released on every return; what is logged is what the tables hold;
- compare-and-swap: create, update and upsert do what `README.md:80-82` says at
  the instant of the upsert; a row's versions step by one;
- schema: no child without its parent;
- change log: replaying it gives the tables; every change is delivered at least
  once;
- import and export: nothing is lost, nothing deleted comes back;
- lists: a listed path can be read back;
- index: no registration is lost.

## Modules

| Module | Role |
|---|---|
| `Schema` | rows, foreign keys, SQL statements, checks, reads, as operators on a database |
| `StoragePlugin` | workers, mutexes, the handlers one statement a step; crash, start, bootstrap |
| `VersionedStore` | the abstract specification: an atomic versioned store with clients |
| `Paths` | storage paths: the row a path addresses, what a list shows and under which paths |
| `SyncFeed` | the sync API over `change_log`, between handlers that commit and then log, and a sync engine that lists, reads, polls, applies, marks and dies |
| `Import` | the markdown import at every start, in one transaction, beside handlers, exports and other processes |
| `WorkspaceIndex` | `index.json` under callers of several processes |
| `Schema_proofs`, `Paths_proofs` | lemmas about the operators of `Schema` and of `Paths` |
| `StoragePlugin_proofs`, `StoreRefinement_proofs` | the theorems about `StoragePlugin`, and that it implements `VersionedStore` |
| `SyncFeed_proofs`, `Import_proofs`, `WorkspaceIndex_proofs` | the theorems about these modules |
| `RoundTrip_proofs` | the theorems about whole imports, and that an import restores what an export wrote |
| `MCStoragePlugin`, `MCSyncFeed`, `MCImport`, `MCWorkspaceIndex` | requests, starting databases, trees of files and deployments for TLC |

`StoragePlugin` and `Paths` extend `Schema`; `SyncFeed` and `Import` extend
`Paths`. `StoragePlugin` has the statements inside a request, which interleave;
`SyncFeed` and `Import` compose whole requests (`Allowed` and `After` of
`Schema`) with what happens around them. What justifies the coarser step is
`ImplementsStore`: a request takes effect at one instant. `SyncFeed` keeps the
one seam that clients do not see, between the commit and `recordChange`.

### Handlers: state and code

| Model | Code |
|---|---|
| `db`: `<<table, id, turn>>` → `[ver, owner, body]` | the rows; `owner` is `project_id`, `body` every other column |
| `changeLog`: `<<table, id>>` → `[act, ver]` | the latest `change_log` row of each entity |
| `locked[i]` | `mu` of the `StoragePlugin` `i` |
| `up[i]` | the process of `i` is serving |
| `pc[w]`, `req[w]`, `answer[w]` | a goroutine of an instance: its place in the handler, its request, `newVer` and what it answers |

| Action | Code |
|---|---|
| `Receive` | the request after `routePath` (`pathrouter.go:60`) |
| `Acquire` | `s.mu.Lock()` in Write and Delete |
| `Check` | the version SELECT and the conditions of `casCheck` or `writeKV`; fails with the deferred Unlock |
| `ExecWrite` | the INSERT ... ON CONFLICT DO UPDATE of each write handler |
| `ExecDelete` | the DELETE, with its cascades, or the "not found" of zero rows |
| `EnsureProject` | `ensureProject`, in writeFeature, writePerson and writeDoc only, after the upsert; its error is dropped |
| `Record` | `recordChange` and the return |
| `Query` | the SELECT of a read handler, which holds no lock |
| `Reply` | the answer leaves |
| `Crash`, `Start` | the process dies and `NewStoragePlugin` runs again |
| `BootstrapProject` | the function of `export.go`, in another process |

Handlers that differ only in their columns share an action; where they differ
in control the difference is an operator of `Schema`: `KeyOf` (a turn's number
comes from the metadata before the path; a packs write without a name goes to
kv_store), `DeleteTargets` (packs all at once, stacks through the kv_store
default), `IsChecked` (sessions, turns, packs and stacks ignore
`expected_version`), `NewVersion` (stacks take theirs from the metadata),
`Upserted` (an update never moves a row to another project), `Readable`
(wip_config, stacks and packs answer with defaults).

Left out of the data: timestamps, JSON, the other columns. The packs listing is
one payload. `changeLog` keeps one entry per entity, which is all that
`LogExplainsStore` asks; the log as a sequence is in `SyncFeed`.
`Start` is that of a workspace without `.projects/`; `Import` has the others.

### Paths and lists

A path is the sequence of its parts after `filepath.Clean` and the split; a part
is a stem and an extension, which a directory lacks. `routePath` and `isListPrefix` are the functions of
`pathrouter.go` on them, branch by branch and in its order, since a path may fit
several; `PathOf` the path builders of
`list.go`, `ListKeys` the conditions of its SELECTs. Constants stand for what is
done on characters: `Raw` is the key of `kv_store`, `Turn` and `NumberOf` are
`printf('turn-%03d')` and `extractTurnNumber`. Names that come from metadata and
not from a path may hold slashes and dots, and `filepath.Join` cleans what it
joins: `Parts` gives the parts a project's name adds to a path, `PackPath` the
path of a pack, `Stem` what `stripExt` leaves of a directory's name with a dot in
it. The ids of the other tables are what is left of one part of a path.

### Sync feed

| Model | Code |
|---|---|
| `log`, `synced` | the rows of `change_log` in the order of their ids; those with `synced = 1` |
| `cursor` | the row of `sync_state` |
| `pending[i]` | a handler of instance `i` between its commit and `recordChange` |
| `stage`, `next`, `found`, `batch`, `maxID`, `held`, `remote` | the engine (external) and its copy |
| `missed` | history: entities changed or listed without the engine knowing |

| Action | Code |
|---|---|
| `Commit`, `Record`, `LoseRecord` | Write or Delete; `recordChange`; its failure, or death before it |
| `GetSyncCursor`, `SetSyncCursor` | the functions; an error of the first reads as no cursor |
| `ListNext` | one SELECT of `listAllEntities`, or its failure, which is skipped |
| `Visit`, `Push` | the engine reads a listed path and pushes what it got |
| `GetUnsyncedChanges` | the SELECT with its ORDER BY and LIMIT |
| `ApplyChange` | the engine drops what an entry says was deleted and reads what it says was written |
| `MarkChangesSynced` | the UPDATE up to `maxID` |
| `Crash` | the engine dies; what it pushed stays |

The engine is not in the repository. It is modelled after what the code says of
it (`list.go:76-78`, the cursor, the comments in `storage.go`): discovery first,
recorded in a cursor, then the feed in the order of ids.

### Import and export

| Model | Code |
|---|---|
| `files` | the files of `.projects/`: path → whether it parses, `project_id`, `number`, `version`, and one payload |
| `pc[p]`, `at[p]` | where a process is, and the file its walk or the table its export is at |
| `text[p]` | the file that `migrateFeature` and its like hold while their INSERT waits for the lock |
| `writer`, `tx` | the process whose transaction has the write lock; the database as that transaction sees it |
| `rows[p]`, `cut[p]` | the rows of an open SELECT that are not written yet; the one whose file is open and truncated |
| `fresh` | history: the exports that nothing has overtaken |

| Action | Code |
|---|---|
| `Start` | `NewStoragePlugin`: schema, then `MigrateFromMarkdown` if `.projects/` is there |
| `Guard` | `SELECT COUNT(*) FROM features`, outside the transaction; a SELECT that fails counts 0, a BEGIN that fails ends the import |
| `Read` | a file before the transaction has the lock: one that is missing or does not parse takes none |
| `Begin` | the INSERTs of the first file that get through, the first of which takes the lock |
| `BeginLate` | the row's INSERT takes the lock after `ensureProjectTx` has waited in vain and dropped the error |
| `TimeOut`, `GiveUp` | an INSERT that waits past `busy_timeout`, of the project (the row is tried next) or of the row (the file is skipped); a walk that has skipped them all |
| `Walk` | one file under the lock: parse, `routePath`, `ensureProjectTx`, INSERT OR IGNORE; an error skips it |
| `Commit`, `Stop` | the commit, or its failure and the deferred rollback; the death of a process, which rolls its transaction back and leaves an open file as it is |
| `Handle` | a whole Write or Delete of a serving process |
| `Export`, `Select`, `EndExport` | `ExportToMarkdown`, and the SELECT of `exportTable` or its failure, which is logged and skipped |
| `Open`, `Fill` | `os.WriteFile` truncates the file of a row, then writes it |
| `FailWrite` | a row that cannot be scanned or whose file cannot be opened or written: the export goes on with the next |

`Kept` is what the exported columns keep of a payload, `Awkward` the payloads
that are no YAML when written unquoted, `SlugPath` the path that the slug column
of a skill or an agent gives. `Faults` names what may fail: `"guard"`,
`"commit"`, `"export"`.

What is coarser than the code:

- Once a transaction has the lock, a file's read, parse and INSERTs are one
  step (`Walk`): no one else writes the database meanwhile, and files change
  between two steps. A file is looked up when the walk reaches its place in
  `WalkOrder`; the directory listing that `filepath.Walk` takes a little earlier
  is not modelled, so a file that an export creates at the last moment is met here
  where the code may miss it.
- An INSERT fails by a foreign key or by `busy_timeout`; a full disk and the like
  are not modelled. A COMMIT that returns an error is taken to be rolled back.
- A write that went wrong leaves an empty file, a file with a text that is not
  the row's (one payload, `Blank`, for all of these) or frontmatter with no end
  (`Torn`). Two processes that write one file at once may leave the tail of the
  longer text.
- `Handle` is one step, whose statements do not interleave with those of another
  process, and a process does not serve while its own export has a SELECT open:
  `MaxOpenConns(1)` keeps the connection until the rows are closed.

### Workspace index

`Lock`, `Load`, `Truncate` and `Write` are `RegisterWorkspace` with `loadIndex`
and `saveIndex`: `os.WriteFile` truncates the file when it opens it and writes
from its start. A missing, empty or broken file reads as no workspace at all,
since `loadIndex` drops its errors. `Fail` is an error of the save, which no
caller looks at, or the death of the process.

## Runs

Workers are two: the hazards of these handlers are pairwise (check against
upsert, delete against upsert, read against write), and a third worker waits on
the same mutex as the second. `MaxVersion` bounds the versions: no write to a
row that has reached it is received (`InBounds`), so a row may exceed it by the
requests already under way. `b0` is the payload of defaults; `b1` and `b2` tell
two writers apart. The workers of an instance are interchangeable, so the two
safety runs use symmetry; the liveness runs do not.

`sync_feed` bounds the log at three entries (`MaxLog`) with a limit of two, so
that a batch is cut, marked and followed by another, and faults at one
(`MaxFaults`): a death of the engine, a failed SELECT or a lost record. What it
does not reach, several deaths and longer logs, is what `FeedConverges` proves.
`import` has two processes and two starts in all (`MaxStarts`), so that two
imports race or one follows a death or an export, and two exports overlap; its
walk has seven paths, and `.projects/` one of two trees at first: a packs file that
goes to kv_store, a turn before its session, a doc that does not parse and a feature
whose project has no file; or a turn of no session and a project with no features,
whose features only clients write and only exports make files of. `b2` has columns that the
export leaves out (`MCKept` makes `b3` of it). The only writes of clients are of a
feature, the only deletes of its project: two rows, of which each export streams
one a table, and a cascade. Every failure of `Faults` is in the run.

| Run | Instance | Shows |
|---|---|---|
| `cas` | one instance, two workers; reads, creates, updates, upserts and deletes of a kv entry, a feature and its project, and the stacks, which are not checked; empty and version-0 imported databases; upserts that fail; crashes; `MaxVersion` 2, so that an update follows an update | `MutexInv`, `CheckedInv`, `CasCommitsAreExact`, `VersionsStepByOne`, and `ImplementsStore`: the handlers refine `VersionedStore` |
| `tables` | sessions, turns numbered by path or by metadata, a project and a feature filed under another project's path, `BootstrapProject`, version SELECTs and `ensureProject` that fail, crashes; `MaxVersion` 1 | `ForeignKeysHold`, `EffectStands` |
| `change_log` | plans, sessions, stacks, packs; no faults, no crashes, no cascades; weak and strong fairness | `LogExplainsStore`, `EveryRequestAnswered` |
| `two_instances` | a worker on each of two instances of one workspace | `CasCommitsAreExact` fails: a lost update |
| `upsert` | the requests of `cas` without faults | `UpsertIsUnconditional` fails: foreign key before `ensureProject` |
| `cascade` | a project with a feature, deleted | `LogExplainsStore` fails: cascaded deletes are not logged |
| `packs` | the registry written with and without a name | `WrittenIsReadable` fails: stored in one table, read from another |
| `sync_feed` | one instance; a plan written and deleted, a note hidden, a project whose delete cascades, a pack; imported rows to discover; `MaxLog` 3, limit 2, one fault; weak fairness | `RemoteConverges`, `ListedReadsBack`, `EveryChangeSynced`, `TypeOK` |
| `import` | two processes; a tree with a feature, a session and its turn, or with a project and a turn of no session; a feature written and its project deleted; guard, commit and export fail (320 253 states, some two minutes) | `ImportKeepsRows`, `OnlyOrphansSkipped`, `ForeignKeysHold`, `ChildrenRoundTrip`, `EveryStartServes`, `TypeOK` |
| `reimport` | one process, the files of a session and a plan, two starts; the session deleted | `SkipsIfTablesHaveData` fails: with the plan in the tables, the second start imports again and a deleted session comes back |
| `export` | one process, a doc, a plan and a project to export | `ExportIsComplete` fails: docs are not exported |
| `index` | two processes, three callers, five registrations | `RegistrationsKept` fails: a registration is overwritten |

The runs that fail check one statement of the documentation or the comments
each; PROJECT.json quotes it. They are disagreements between the code and its
documentation, not failures of the model: `two_instances` is the `cas` property
without its deployment assumption.

`RemoteConverges` says of a state in which no change is about to be logged and
every entry is marked: the copy is the tables, for the entities of the tables
that `listAllEntities` shows. It leaves out `missed`: entities that a cascade,
`ensureProject` or a lost record changed without an entry, or that discovery
cannot reach (a hidden note, a failed SELECT, a path that does not read back).
That is the shape of the promise, not of the model: `cascade` shows the same
gap from the side of the handlers. `ListedReadsBack` leaves out the rows of a
folder that name no project, whose listed path routes to kv_store, and lets the
path of a pack lead to the listing of all packs.

`ChildrenRoundTrip` asks for features and persons alone, whose project is in
their path; other rows lose it (the export writes `project_slug`, the import
reads `project_id`), notes, skills and agents change their id or their table. It
speaks of an export that is complete and that nothing has overtaken
(`FreshExport`): since it began no process has committed, no SELECT or write of
its own has failed, and no other export has written a file from rows that are
older. That last condition is what a workspace of several processes needs: an
exporter that read before a commit may write its file over the one that a newer
export has finished, and nothing in the code keeps it from that. `fresh` drops
every other export as soon as an overtaken one opens a file (`Keep`), and all of
them when a write leaves a torn file or a process dies in one. Two fresh exports
read the same rows, so that they may write over each other; that what both leave is
right all the same is part of the property.

`OnlyOrphansSkipped` lets an import skip, of the files that parse, a turn whose
session is not there yet and a child whose project is not there because the
project's own INSERT timed out, whose error `ensureProjectTx` drops. Files
skipped before the lock is taken are those that waited out `busy_timeout`
(`TimeOut`), about which the property says nothing.

`ImplementsStore` maps a worker to a client: its call is pending until the
statement of `ExecWrite`, `ExecDelete` or `Query` takes effect, `ensureProject`
is the appearance of a default project, a crash abandons the calls of the
process. Of the tables that ignore `expected_version`, and of values of it
below -1, the store says nothing but that a request is one step. With `Faults`
empty a refusal must have its reason in the store at
that instant; in the run statements may fail, so a refusal only has to change
nothing.

### Fairness

`FairSpec` has weak fairness of each worker's next statement and strong
fairness of its Lock. A statement returns, if only with an error:
`busy_timeout` is 5 s and no handler waits for anything else between Lock and
Unlock. Go's mutex hands itself over to a waiter after 1 ms of starvation, so a
goroutine that finds it free again and again gets it. Nothing is assumed of
clients (`Receive`) or of crashes.

In `SyncFeed` it is weak fairness of the engine as a whole: it keeps polling, as
a sync loop does, and starts again when it has died. In `Import` it is weak
fairness of each step a process takes on its own and strong fairness of taking
the lock (`Begin` or `BeginLate`), which SQLite's busy handler retries; a process that stops is allowed
to stay stopped, and `EveryStartServes` counts that as an end. `TimeOut` has no
fairness: no import needs another to be given up.

## Proofs

`StoragePlugin_proofs` proves, for every set of names, payloads, instances,
workers, requests and faults that meet `NamesAssumption` and `PluginAssumption`
(requests are well typed, the starting databases have no orphans and no kv
entry at version 0):

| Theorem | Statement |
|---|---|
| `TypeCorrect` | `Spec => []TypeOK` |
| `NoOrphans` | `Spec => []ForeignKeysHold` |
| `MutexHolds` | `Spec => []MutexInv` |
| `KvVersions` | `Spec => []KvInv` |
| `ChecksStand` | `Solitary => (Spec => []CheckedInv)` |
| `CasHolds` | `Solitary => (Spec => CasCommitsAreExact)` |
| `VersionsStep` | `Solitary => (Spec => VersionsStepByOne)` |
| `EffectsStand` | `Undisturbed => (Spec => []EffectStands)` |
| `LogExplains` | `Alone /\ Traced => (Spec => []LogExplainsStore)` |
| `Implements` (`StoreRefinement_proofs`) | `Solitary => (Spec => ImplementsStore)` |

`Solitary` is the deployment under which the CAS promise can hold: one instance
on the workspace (`Alone`), no `BootstrapProject` meanwhile, and no version
SELECT that fails. Run `two_instances` shows that the first cannot be dropped.
`recordChange` needs less (`Undisturbed`): one instance, and no
`BootstrapProject` of a project that a client deletes; version SELECTs may fail
and projects may be bootstrapped, as in run `tables`. `Traced` is what a log that
explains the tables needs besides: an empty start, requests that change no row
but the one they log, no bootstrap, no crash and no failed record. Run `cascade`
shows what happens without the second.

The other modules, for every value of the constants that meets their
assumptions:

| Theorem | Statement |
|---|---|
| `SyncFeed_proofs!TypeCorrect` | `Spec => []TypeOK` |
| `SyncFeed_proofs!FeedConverges` | `Solitary => (Spec => []RemoteConverges)` |
| `SyncFeed_proofs!FeedIsComplete` | with `Solitary`, `Gapless` and `[][Lossless]_vars`, a dry feed means that copy and tables agree on every followed row |
| `SyncFeed_proofs!ListedPathsReadBack` | `PlainNames => (Spec => []ListedReadsBack)` |
| `Import_proofs!TypeCorrect` | `Spec => []TypeOK` |
| `Import_proofs!SnapshotHolds` | `Spec => []Snapshot` |
| `Import_proofs!ImportKeepsForeignKeys` | `Spec => []ForeignKeysHold` |
| `Import_proofs!ImportsKeepRows` | `Spec => ImportKeepsRows` |
| `Import_proofs!OnlyOrphansAreSkipped` | `Spec => OnlyOrphansSkipped` |
| `RoundTrip_proofs!ChildrenSurvive` | `PlainProjects => (Spec /\ []FilesWalked => []ChildrenRoundTrip)` |
| `RoundTrip_proofs!ImportPromise` | a whole import that waits for no lock keeps every row and the foreign keys, and gives every file that parses its row, but for turns |
| `RoundTrip_proofs!ReimportAddsTurns` | a second import of a tree adds turns at most |
| `RoundTrip_proofs!ThirdImportIsIdle` | a third import of a tree changes nothing |
| `WorkspaceIndex_proofs!OneProcessKeepsRegistrations` | of one process and without failures, `Spec => []RegistrationsKept` |

`PlainNames` and `PlainProjects` are what paths ask of names, and the code does
not enforce. A project that a row or a file names is one part of a path
(`PlainPart`: `list.go:103` joins a `project_id` with whatever slashes and dots it
has) and not called like a folder that the router takes for itself (`Reserved`);
for the lists, a session with turns has no dot in its name (`pathrouter.go:101`
cuts the directory's name at the last one), a pack's path stays in `.packs/`, and
printf and Sscanf agree on the number of a turn; for the export, a slug leads to no
folder but `.skills` and `.agents`. They are about constants only; `MCSyncFeed` and
`MCImport` state them for the constants of their runs, so that TLC checks them
there. `FilesWalked` says that `WalkOrder`, which stands for the lexical order of
`filepath.Walk`, names every file that is there; exports add files, so it is stated
of the states of a behaviour, and it holds in those of run `import`. `Gapless` says
that no client deletes a project and that all rows found at the start can be
discovered, `Lossless` that a step is no lost record and no failed SELECT of a
discovery; the engine may still die in any of them.

The argument. `ForeignKeysHold` is inductive with the types: a put row's
parents exist or the statement fails, and a cascade removes all the children of
what it removes; one level is enough, because a parent table has no parents of
its own (`ParentsHaveNoParents`). `MutexInv` is inductive with the types.
`CasCommitsAreExact` is about a step, and its guard says nothing of the
database: it follows from `CheckedInv`, that the check still holds when the
upsert runs. `CheckedInv` is inductive with `MutexInv`: under one instance only
the holder of the mutex changes rows, so every other worker's check is not
standing at all (`OneCriticalWorker`). For kv_store a create looks only at the
version, so it also takes `KvInv`: no entry has version 0, and none is about to
get it. `EffectStands` needs that only writes ensure a project
(`EnsuringWrites`): a delete's handler would otherwise bring back what it
removed.

`LogExplains` needs the rows whose log entry is on its way to be named
(`Underway`): every other row is explained by the log, and when `Record` ends
the wait for one, `EffectStands` says that the tables still hold what it logs.

`FeedConverges` rests on four conjuncts (`Inv` of `SyncFeed_proofs`).
`InOrder`: the marks are a prefix of the log and a batch is taken from the low
end of the rest; that is where ORDER BY and LIMIT are used
(`BatchFromTheLowEnd`), and without it a mark would pass over an entry that was
never fetched. `PendingWord` and `LastWord`: a change about to be logged, or
else the last entry of an entity, tells whether its row is there; this is where
one instance is needed. `Mended`: an entity on which copy and tables differ is
still to be mended by something: a change about to be logged, an entry not
applied, a row not yet discovered, or what the engine holds in its hand. In a
quiet state there is none of these, so they agree. Crashes keep it because an
entry stays unmarked until it is applied and discovery stays off the cursor
until it is done.

`FeedIsComplete` adds that nothing is missed. A write changes its own row and, by
`ensureProject`, a project, which discovery does not follow (`WriteChanges`); a
delete takes dependents only from under a project or a session, and turns are
not followed (`DeleteChanges`). So the delete of a project is the one request
that leaves a gap.

`ListedPathsReadBack` rests on an invariant about names, `AllAddressable`: every
row has a key and a project that the path builders and the router take to each
other. A request whose own names are plain keeps it (`AfterKeepsAddressable`:
the upsert, the ensured project and the cascade), and for an addressable row the
branches of `routePath` are gone through one by one (`AddressableReadsBack`); the
lemmas before it exclude the branches that come earlier.

The import. `Snapshot` says that an open transaction sees every row of the
database as it is, since the lock keeps other writers out; INSERT OR IGNORE only
adds to that, so the commit replaces nothing. `ForeignKeys(tx)` is kept file by
file as a statement keeps it. That no other file is skipped follows from
`ensureProjectTx` coming before the row, where it gets through (`FileFindsRow`), and
from the row's own foreign key where it does not (`RowGoesIn`).

A whole import is a recursive function of how far the walk has come (`Walks`).
The theorems of the library that do induction take an operator, which no
installed prover instantiates; `LeastNat` gets a least counterexample from
well-founded inclusion of intervals instead, with sets only, `UpTo` turns it into
induction over a set of places, and `WalksUnfold` shows that the recursive
definition has its equation. The rest is one lemma per step. `ImportPromise`
carries along what the files walked so far have found (`Found`): INSERT OR IGNORE
never takes it back. `ReimportAddsTurns` starts where everything is found but
turns; the row and the project of every other file are there, so that nothing is
put. After that the sessions are those of the first import, so a turn that is
still not there never will be (`Joined`), and a third import is idle.

`ChildrenSurvive` needs four invariants. `Plain`: no row, no file and no
file in hand has a project whose name is not plain, so a child's path leads back to
its key (`ChildPath`) and no other table's path does. `Resting`: a process that
does not walk or export is at the start of its loop. `Current`: the rows that an
export has in hand are of the table it is at and, while it is fresh, are the rows
of the database. `Copied`: of every child that a fresh export is past, the file is
what `ExportFile` makes of the row as it is now, or else another fresh export has
that very file open and is about to write the same (`InFile`). Where a write breaks
off or two of them mix, none is fresh any more. When the export is through and no
file is open, the file of a child is its own (`OwnFile` excludes a stranger's), and
importing the tree into an empty database puts that row and no other under the
key (`WalkRestores`), in whatever place of the walk it comes.

The index. `Excluded`: who is past Lock holds the mutex of its process; `Kept`:
an index in hand has every registration so far, its own included, and the file
is cut only by who is about to write it.

`Implements` maps every step to a step of the store or to a stutter
(`StepImplements`). The upsert maps to the store's write because `CheckedInv`
says that the version checked is still the current one, so what was admitted is
permitted (`AdmittedIsPermitted`, with `KvInv` for kv_store); a failed check
maps to a refusal by the converse. `PlaceInv` says what a worker's request and
answer look like at each place. The operators of `Schema` that the store takes
through INSTANCE are shown equal to those of the handlers first (`SameUpsert`
and its neighbours).

Model-checked only: liveness (`EveryRequestAnswered`, `EveryChangeSynced`,
`EveryStartServes`), which is out of the prover's reach. Every invariant and
every action property that a run confirms is also a theorem, under the
hypotheses named above; the types of `StoragePlugin` are a theorem that no run
repeats. What the runs that fail refute is, of course, not proved:
`OneProcessKeepsRegistrations` and `CasHolds` say under which deployment two of
those statements do hold.

## Plan

Done: the modules above, from the handlers outward. Left:

1. `ClientCas`: clients that read, modify and write with the version they read,
   lost answers and retries, deletes between; version-0 rows and ABA.
2. `Import` composed with the statements inside a request, for the errors that a
   handler meets while another process imports.
3. The lists of kv_store, on paths as strings.

## Not modelled

- Query helpers (`export.go`): single SELECTs for sorted names; they change
  nothing.
- `listKV`: a LIKE on the raw string of a path, where paths here are parts.
- The connection cache: `CloseAll` has no caller and no cached handle is ever
  closed, so that `OpenDB` answers with one handle of one connection; a ping
  waits for a statement and no statement for a ping. That the pool keeps the
  connection its pragmas were set on is assumed.
- The dual write that `src/README.md:30` speaks of: no handler writes a file;
  the export on demand is all there is.
- `project_skills` and `project_agents` (nothing in the repository writes them),
  the contents of markdown, JSON and frontmatter, SQLite itself, the plugin SDK
  and its transport, the CI and release files.
