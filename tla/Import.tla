------------------------------- MODULE Import -------------------------------
(***************************************************************************)
(* The markdown import at every start (migrate_data.go) and the export on  *)
(* demand (markdown_export.go), beside handlers that write and delete.     *)
(*                                                                         *)
(* A start looks at the features table and, when it is empty, walks the    *)
(* files of .projects/ in lexical order, in one transaction that keeps     *)
(* every other writer of the database file out until it commits.           *)
(*                                                                         *)
(*   down -> guard -> begin <-> wait -> walk -> serving <-> export <-> rows *)
(*                                                                         *)
(* An export reads a table and writes the files of its rows one by one,    *)
(* while other processes commit, import and export.                        *)
(***************************************************************************)
EXTENDS Paths

CONSTANTS
    Processes,  \* plugin processes on the workspace
    WalkOrder,  \* every path there may be a file at, in the order of Walk
    Trees,      \* the files .projects/ may hold at first
    Requests,   \* the writes and deletes clients make
    SlugPath(_, _), \* .skills/<slug>.md or .agents/<slug>.md of a payload, cleaned
    Kept(_),    \* what the exported columns keep of a payload
    Awkward,    \* payloads that are no YAML when written unquoted
    Faults,     \* what may fail: "guard", "commit", "export"
    MaxStarts,  \* bound on the starts of a process
    MaxVersion  \* bound: no new write to a row that has reached this version

\* A markdown file: whether it parses, and the frontmatter fields project_id,
\* number and version.
Markdown ==
    [good : BOOLEAN, owner : Names, number : Int, ver : Int, body : Bodies]

NoProcess == "none"

Empty == [k \in {} |-> [ver |-> 0, owner |-> NoName, body |-> Blank]]

ASSUME ImportAssumption ==
    /\ WalkOrder \in Seq(Seq(STRING \X STRING))
    /\ \A t \in Trees : t \in [DOMAIN t -> Markdown]
    /\ Requests \subseteq {q \in Request : q.op # "read"}
    /\ \A i \in 1 .. Len(WalkOrder) :
         /\ Raw(WalkOrder[i]) \in Names
         /\ routePath(WalkOrder[i]).proj \in Names
         /\ routePath(WalkOrder[i]).id \in Names
         /\ routePath(WalkOrder[i]).turn \in Nat
    /\ \A i \in 1 .. Len(WalkOrder) :
         routePath(WalkOrder[i]).table \in ChildTables
             => routePath(WalkOrder[i]).proj # NoName
    /\ \A b \in Bodies : Kept(b) \in Bodies
    /\ Faults \subseteq {"guard", "commit", "export"}
    /\ NoProcess \notin Processes
    /\ MaxStarts \in Nat /\ MaxVersion \in Nat

VARIABLES
    db,
    files,   \* what .projects/ holds
    pc,
    at,      \* the file a walk is at, or the table an export is at
    text,    \* a file that was read and waits for the lock with its INSERT
    writer,  \* the process whose transaction is open
    tx,      \* the database as that transaction sees it
    rows,    \* the rows of an open SELECT that are not written yet
    cut,     \* the row whose file is open and empty, if there is one
    fresh,   \* history: the exports that nothing has overtaken
    starts

vars == <<db, files, pc, at, text, writer, tx, rows, cut, fresh, starts>>

importVars == <<text, writer, tx>>
exportVars == <<rows, cut, fresh>>

-----------------------------------------------------------------------------
(* One file of an import.                                                  *)

\* Features and persons fall back on the project of their path.
ImportOwner(r, f) ==
    IF r.table \in ChildTables
    THEN IF f.owner # NoName THEN f.owner ELSE r.proj
    ELSE IF r.table \in OwnedTables \union DocTables THEN f.owner
    ELSE NoName

\* Packs and stacks have no case of their own: they go to kv_store.
IsRaw(r) == r.table \in {"packs", "stacks", "kv_store"}

ImportKey(p, f) ==
    LET r == routePath(p) IN
    IF IsRaw(r) THEN <<"kv_store", Raw(p), 0>>
    ELSE IF r.table = "session_turns"
    THEN <<r.table, r.id, IF f.number # 0 THEN f.number ELSE r.turn>>
    ELSE <<r.table, r.id, 0>>

ImportRow(p, f) ==
    LET r == routePath(p) IN
    [ver   |-> IF IsRaw(r) \/ r.table = "wip_config" THEN 1
               ELSE IF r.table \in SessionTables THEN 0
               ELSE f.ver,
     owner |-> ImportOwner(r, f),
     body  |-> f.body]

\* ensureProjectTx has a statement to run.
NeedsProject(p, f) ==
    routePath(p).table \in ChildTables /\ ImportOwner(routePath(p), f) # NoName

\* ensureProjectTx, before the row it is for; BeginLate is where it fails.
WithProject(d, p, f) ==
    IF NeedsProject(p, f) THEN InsertProject(d, ImportOwner(routePath(p), f))
    ELSE d

\* INSERT OR IGNORE keeps the row that is there; a foreign key that finds no
\* parent is an error all the same, and the file is skipped.
InsertOrIgnore(d, k, r) ==
    IF k \in DOMAIN d \/ ~(References(k, r) \subseteq DOMAIN d) THEN d
    ELSE Put(d, k, r)

\* A bug to be caught: INSERT OR REPLACE.
ImportReplacing(d, p, f) ==
    IF f.good THEN Put(WithProject(d, p, f), ImportKey(p, f), ImportRow(p, f))
    ELSE d

\* A bug to be caught: the project after the row, as the handlers have it.
ImportThenEnsure(d, p, f) ==
    IF f.good
    THEN WithProject(InsertOrIgnore(d, ImportKey(p, f), ImportRow(p, f)), p, f)
    ELSE d

\* A bug to be caught: a turn imported with no look at its session.
ImportUnchecked(d, p, f) ==
    IF f.good /\ ImportKey(p, f) \notin DOMAIN d
    THEN Put(WithProject(d, p, f), ImportKey(p, f), ImportRow(p, f))
    ELSE d

ImportFile(d, p, f) ==
    IF f.good
    THEN InsertOrIgnore(WithProject(d, p, f), ImportKey(p, f), ImportRow(p, f))
    ELSE d

\* One place of the walk, with a file or without.
WalkStep(d, tree, n) ==
    IF WalkOrder[n] \in DOMAIN tree
    THEN ImportFile(d, WalkOrder[n], tree[WalkOrder[n]])
    ELSE d

\* The whole walk of a tree, as a function of how far it has come.
Walks(d, tree) ==
    LET upTo[n \in 0 .. Len(WalkOrder)] ==
          IF n = 0 THEN d ELSE WalkStep(upTo[n - 1], tree, n)
    IN upTo

ImportAll(d, tree) == Walks(d, tree)[Len(WalkOrder)]

-----------------------------------------------------------------------------
(* One row of an export.                                                   *)

\* The last is the loop over projects that follows exportTable's.
ExportTables ==
    <<"features", "persons", "plans", "requests", "delegations",
      "notes", "docs", "skills", "agents", "projects">>

\* A bug to be caught: one folder for all.
ExportPathFlat(k, r) == <<Dir("features"), File(k[2])>>

ExportPath(k, r) ==
    CASE k[1] = "notes" -> <<Dir(".notes"), File(k[2])>>
      [] k[1] \in {"skills", "agents"} -> SlugPath(k[1], r.body)
      [] OTHER -> PathOf(k, r)

\* The project goes under a name the import does not read, the version not at
\* all; a project is JSON, which the import takes for a body.
ExportFile(k, r) ==
    [good |-> k[1] = "projects" \/ r.body \notin Awkward,
     owner |-> NoName, number |-> 0, ver |-> 0, body |-> Kept(r.body)]

\* The rows of a SELECT; the one on docs names a column the table does not have.
Exported(d, table) ==
    Restrict(d, {k \in DOMAIN d : k[1] = table /\ table # "docs"})

\* A file that WriteFile has truncated: it parses, and says nothing.
Cut == [good |-> TRUE, owner |-> NoName, number |-> 0, ver |-> 0, body |-> Blank]

\* What a write that went wrong may leave of f: nothing, a text that is not the
\* row's, or frontmatter with no end.
Torn(f) == {Cut, [f EXCEPT !.body = Blank], [f EXCEPT !.good = FALSE]}

-----------------------------------------------------------------------------

\* Types; the database's writer is the process that walks, so that no way out of
\* an import leaves its transaction open.
TypeOK ==
    /\ IsDatabase(db)
    /\ IsDatabase(tx)
    /\ files \in [DOMAIN files -> Markdown]
    /\ pc \in [Processes -> {"down", "guard", "begin", "wait", "late", "walk",
                             "serving", "export", "rows"}]
    /\ at \in [Processes -> Nat \ {0}]
    /\ \A p \in Processes : pc[p] \in {"wait", "late"} => at[p] <= Len(WalkOrder)
    /\ text \in [Processes -> Markdown]
    /\ writer \in Processes \union {NoProcess}
    /\ \A p \in Processes : writer = p <=> pc[p] = "walk"
    /\ DOMAIN rows = Processes /\ cut \in [Processes -> SUBSET Key]
    /\ \A p \in Processes :
         /\ IsDatabase(rows[p]) /\ cut[p] \subseteq DOMAIN rows[p]
         /\ DOMAIN rows[p] # {} <=> pc[p] = "rows"
    /\ fresh \subseteq {p \in Processes : pc[p] \in {"export", "rows"}}
    /\ starts \in 0 .. MaxStarts

Goto(p, label) == pc' = [pc EXCEPT ![p] = label]

\* A bug to be caught: an import that ends and leaves its transaction open.
ReleaseNothing(p) ==
    /\ UNCHANGED <<writer, tx>>
    /\ at' = [at EXCEPT ![p] = 1]

\* The transaction is over, committed or rolled back.
Release(p) ==
    /\ writer' = NoProcess
    /\ tx' = Empty
    /\ at' = [at EXCEPT ![p] = 1]

Init ==
    /\ db = Empty
    /\ files \in Trees
    /\ pc = [p \in Processes |-> "down"]
    /\ at = [p \in Processes |-> 1]
    /\ text = [p \in Processes |-> Cut]
    /\ writer = NoProcess
    /\ tx = Empty
    /\ rows = [p \in Processes |-> Empty]
    /\ cut = [p \in Processes |-> {}]
    /\ fresh = {}
    /\ starts = 0

\* OpenDB and InitSchema have run; without .projects/ there is nothing to do.
Start(p) ==
    /\ pc[p] = "down"
    /\ starts < MaxStarts
    /\ starts' = starts + 1
    /\ Goto(p, IF files = << >> THEN "serving" ELSE "guard")
    /\ UNCHANGED <<db, files, at, importVars, exportVars>>

\* SELECT COUNT(*) FROM features, before the transaction begins.  The count of
\* a SELECT that fails is 0; where BEGIN fails there is no import.
Guard(p) ==
    /\ pc[p] = "guard"
    /\ \/ Goto(p, IF \E k \in DOMAIN db : k[1] = "features"
                  THEN "serving" ELSE "begin")
       \/ "guard" \in Faults /\ \E label \in {"begin", "serving"} : Goto(p, label)
    /\ UNCHANGED <<db, files, at, importVars, exportVars, starts>>

\* Before the first INSERT there is no lock: a file that is not there, or does
\* not parse, takes none.
Read(p) ==
    /\ pc[p] = "begin"
    /\ at[p] <= Len(WalkOrder)
    /\ LET path == WalkOrder[at[p]] IN
       IF path \in DOMAIN files /\ files[path].good
       THEN /\ text' = [text EXCEPT ![p] = files[path]]
            /\ Goto(p, "wait")
            /\ UNCHANGED at
       ELSE /\ at' = [at EXCEPT ![p] = @ + 1]
            /\ UNCHANGED <<pc, text>>
    /\ UNCHANGED <<db, files, writer, tx, exportVars, starts>>

\* The transaction's first INSERT to get through takes the write lock of the
\* file, and keeps it when it fails a foreign key.
Lock(p, d) ==
    /\ writer = NoProcess
    /\ writer' = p
    /\ tx' = d
    /\ at' = [at EXCEPT ![p] = @ + 1]
    /\ text' = [text EXCEPT ![p] = Cut]
    /\ Goto(p, "walk")
    /\ UNCHANGED <<db, files, exportVars, starts>>

Begin(p) ==
    /\ pc[p] = "wait"
    /\ Lock(p, ImportFile(db, WalkOrder[at[p]], text[p]))

\* The project's INSERT has timed out and nobody knows: the row goes in without,
\* or fails its foreign key.
BeginLate(p) ==
    /\ pc[p] = "late"
    /\ LET path == WalkOrder[at[p]] IN
       Lock(p, InsertOrIgnore(db, ImportKey(path, text[p]), ImportRow(path, text[p])))

\* Another holds the lock for longer than busy_timeout.  ensureProjectTx drops
\* the error, and the row is tried next; the file of a row that times out is
\* skipped, as any that fails.
TimeOut(p) ==
    /\ writer # NoProcess
    /\ \/ /\ pc[p] = "wait" /\ NeedsProject(WalkOrder[at[p]], text[p])
          /\ Goto(p, "late")
          /\ UNCHANGED <<at, text>>
       \/ /\ \/ pc[p] = "wait" /\ ~NeedsProject(WalkOrder[at[p]], text[p])
             \/ pc[p] = "late"
          /\ Goto(p, "begin")
          /\ at' = [at EXCEPT ![p] = @ + 1]
          /\ text' = [text EXCEPT ![p] = Cut]
    /\ UNCHANGED <<db, files, writer, tx, exportVars, starts>>

\* No file got through: there is nothing to commit.
GiveUp(p) ==
    /\ pc[p] = "begin"
    /\ at[p] > Len(WalkOrder)
    /\ at' = [at EXCEPT ![p] = 1]
    /\ Goto(p, "serving")
    /\ UNCHANGED <<db, files, importVars, exportVars, starts>>

Walk(p) ==
    /\ pc[p] = "walk"
    /\ at[p] <= Len(WalkOrder)
    /\ tx' = WalkStep(tx, files, at[p])
    /\ at' = [at EXCEPT ![p] = @ + 1]
    /\ UNCHANGED <<db, files, pc, text, writer, exportVars, starts>>

\* A commit that fails is rolled back, and the process serves all the same.
Commit(p) ==
    /\ pc[p] = "walk"
    /\ at[p] > Len(WalkOrder)
    /\ \/ db' = tx /\ fresh' = {}
       \/ "commit" \in Faults /\ UNCHANGED <<db, fresh>>
    /\ Release(p)
    /\ Goto(p, "serving")
    /\ UNCHANGED <<files, text, rows, cut, starts>>

\* A request to a serving process, which meets no open transaction and has to
\* wait for the one connection while an export reads its rows.  It is one step
\* here: what interleaves inside a request is the matter of StoragePlugin.
Handle(p) ==
    /\ pc[p] \in {"serving", "export"}
    /\ writer = NoProcess
    /\ \E q \in Requests :
         /\ Allowed(db, q)
         /\ q.op = "write" => VersionAt(db, KeyOf(q)) < MaxVersion
         /\ db' = After(db, q)
    /\ fresh' = {}
    /\ UNCHANGED <<files, pc, at, importVars, rows, cut, starts>>

\* ExportToMarkdown, by a process that serves or by one of its own.
Export(p) ==
    /\ pc[p] = "serving"
    /\ fresh' = fresh \union {p}
    /\ Goto(p, "export")
    /\ UNCHANGED <<db, files, at, importVars, rows, cut, starts>>

\* To the next row, or to the next table.
Continue(p, left) ==
    /\ rows' = [rows EXCEPT ![p] = left]
    /\ IF DOMAIN left = {}
       THEN Goto(p, "export") /\ at' = [at EXCEPT ![p] = @ + 1]
       ELSE Goto(p, "rows") /\ UNCHANGED at

\* A SELECT sees the database of one moment; where it fails the table is skipped.
Select(p) ==
    /\ pc[p] = "export"
    /\ at[p] <= Len(ExportTables)
    /\ \/ Continue(p, Exported(db, ExportTables[at[p]])) /\ UNCHANGED fresh
       \/ /\ "export" \in Faults
          /\ Continue(p, Empty)
          /\ fresh' = fresh \ {p}
    /\ UNCHANGED <<db, files, importVars, cut, starts>>

FileOf(p, k) == ExportFile(k, rows[p][k])

WriteTo(p, k, f) == files' = Put(files, ExportPath(k, rows[p][k]), f)

\* An export of older rows leaves no other one fresh.
Keep(p) == IF p \in fresh THEN fresh ELSE {}

\* WriteFile truncates first.
Open(p) ==
    /\ pc[p] = "rows"
    /\ cut[p] = {}
    /\ \E k \in DOMAIN rows[p] :
         WriteTo(p, k, Cut) /\ cut' = [cut EXCEPT ![p] = {k}]
    /\ fresh' = Keep(p)
    /\ UNCHANGED <<db, pc, at, importVars, rows, starts>>

Written(p, k) ==
    /\ cut' = [cut EXCEPT ![p] = {}]
    /\ Continue(p, Restrict(rows[p], DOMAIN rows[p] \ {k}))
    /\ UNCHANGED <<db, importVars, starts>>

\* Where another process has written since, the rest of what is longer stays.
Fill(p) ==
    /\ pc[p] = "rows"
    /\ \E k \in cut[p] :
         LET f == FileOf(p, k)
             old == files[ExportPath(k, rows[p][k])]
         IN /\ \/ WriteTo(p, k, f) /\ fresh' = Keep(p)
               \/ /\ old \notin {Cut, f}
                  /\ \E g \in Torn(f) : WriteTo(p, k, g)
                  /\ fresh' = {}
            /\ Written(p, k)

\* The row cannot be scanned or its file not opened, or the write breaks off:
\* the export goes on with the next.
FailWrite(p) ==
    /\ "export" \in Faults
    /\ pc[p] = "rows"
    /\ \E k \in DOMAIN rows[p] :
         /\ \/ cut[p] = {} /\ UNCHANGED files /\ fresh' = fresh \ {p}
            \/ /\ k \in cut[p]
               /\ \E g \in Torn(FileOf(p, k)) : WriteTo(p, k, g)
               /\ fresh' = {}
         /\ Written(p, k)

EndExport(p) ==
    /\ pc[p] = "export"
    /\ at[p] > Len(ExportTables)
    /\ Goto(p, "serving")
    /\ at' = [at EXCEPT ![p] = 1]
    /\ fresh' = fresh \ {p}
    /\ UNCHANGED <<db, files, importVars, rows, cut, starts>>

\* The process dies or stops; an open transaction is rolled back, an open file
\* stays as it is.
Stop(p) ==
    /\ pc[p] # "down"
    /\ Goto(p, "down")
    /\ IF writer = p THEN Release(p)
       ELSE at' = [at EXCEPT ![p] = 1] /\ UNCHANGED <<writer, tx>>
    /\ text' = [text EXCEPT ![p] = Cut]
    /\ rows' = [rows EXCEPT ![p] = Empty]
    /\ cut' = [cut EXCEPT ![p] = {}]
    /\ fresh' = IF cut[p] = {} THEN fresh \ {p} ELSE {}
    /\ UNCHANGED <<db, files, starts>>

Import(p) ==
    \/ Guard(p) \/ Read(p) \/ Begin(p) \/ BeginLate(p) \/ TimeOut(p)
    \/ GiveUp(p) \/ Walk(p) \/ Commit(p)

ExportStep(p) ==
    \/ Export(p) \/ Select(p) \/ Open(p) \/ Fill(p) \/ FailWrite(p) \/ EndExport(p)

Next == \E p \in Processes :
    Start(p) \/ Import(p) \/ Handle(p) \/ ExportStep(p) \/ Stop(p)

Spec == Init /\ [][Next]_vars

\* A process that has started goes on; SQLite's busy handler retries the lock,
\* and no timeout is needed for it to get there.
FairSpec == Spec /\ \A p \in Processes :
    /\ WF_vars(Guard(p) \/ Read(p) \/ GiveUp(p) \/ Walk(p) \/ Commit(p))
    /\ SF_vars(Begin(p) \/ BeginLate(p))

-----------------------------------------------------------------------------
(* Properties.                                                             *)

\* No import leaves a child without its parent, in whatever order the files of
\* both come, on top of whatever the handlers have written.
ForeignKeysHold == ForeignKeys(db)

\* An import adds rows.  What this or another process has written between the
\* look at the features table and the commit stands as it was written.
ImportKeepsRows ==
    [][\A p \in Processes : pc[p] = "walk" /\ pc'[p] = "serving" =>
        \A k \in DOMAIN db : k \in DOMAIN db' /\ db'[k] = db[k]]_vars

\* What the open transaction is on top of, and the file it is about to add.
Base(p) == IF pc[p] = "walk" THEN tx ELSE db
InHand(p) == IF pc[p] = "walk" THEN files[WalkOrder[at[p]]] ELSE text[p]

\* In a transaction, every file that parses finds its row but for two kinds: a
\* turn of a session that is not there yet, the folder of a session coming before
\* its file, and the child of a project whose own INSERT has timed out.
OnlyOrphansSkipped ==
    [][\A p \in Processes :
        /\ pc[p] \in {"wait", "late", "walk"} /\ pc'[p] = "walk"
        /\ at'[p] = at[p] + 1
        /\ pc[p] = "walk" => WalkOrder[at[p]] \in DOMAIN files
        => LET k == ImportKey(WalkOrder[at[p]], InHand(p))
               r == ImportRow(WalkOrder[at[p]], InHand(p))
           IN \/ ~InHand(p).good
              \/ k \in DOMAIN tx'
              \/ /\ k[1] = "session_turns" \/ pc[p] = "late"
                 /\ ~(References(k, r) \subseteq DOMAIN Base(p))
      ]_vars

\* A complete export that no commit, no export of older rows and no failed write
\* has overtaken, with no file open.
FreshExport(p) ==
    /\ p \in fresh /\ at[p] > Len(ExportTables)
    /\ \A q \in Processes : cut[q] = {}

\* No file but its own stands for the row, a leftover of another project say.
OwnFile(k) ==
    \A path \in DOMAIN files :
        files[path].good /\ ImportKey(path, files[path]) = k
            => path = ExportPath(k, db[k])

\* WalkOrder is what it says: no file lies anywhere else.
FilesWalked == \A path \in DOMAIN files : \E i \in 1 .. Len(WalkOrder) : path = WalkOrder[i]

\* The names of a deployment that can be restored: no path has others for its
\* project, but metadata may (pathrouter.go:75).
PlainProjects ==
    /\ \A q \in Requests : q.op = "write" =>
         /\ q.table = "projects" => PlainProject(q.id)
         /\ EnsuresProject(q) => PlainProject(q.proj)
    /\ \A i \in 1 .. Len(WalkOrder) :
         LET r == routePath(WalkOrder[i]) IN
         /\ r.table = "projects" => PlainProject(r.id)
         /\ r.table \in ChildTables => PlainProject(r.proj)
    /\ \A t \in Trees : \A path \in DOMAIN t :
         t[path].owner = NoName \/ PlainProject(t[path].owner)
    /\ \A t \in LibraryTables, b \in Bodies :
         SlugPath(t, b)[1] \in {Dir(".skills"), Dir(".agents")}

\* Features and persons survive an export into an empty workspace, with their
\* project (of the path) and what the exported columns keep, at version 0.
ChildrenRoundTrip ==
    \A p \in Processes : FreshExport(p) =>
        LET restored == ImportAll(Empty, files) IN
        \A k \in DOMAIN db :
            k[1] \in ChildTables /\ db[k].body \notin Awkward /\ OwnFile(k) =>
              /\ k \in DOMAIN restored
              /\ restored[k] = [ver |-> 0, owner |-> db[k].owner,
                                body |-> Kept(db[k].body)]

\* A start gets to serve, or its process stops: no import waits for ever, though
\* several want the lock of one file and the one that has it may die.
EveryStartServes ==
    \A p \in Processes : pc[p] = "guard" ~> pc[p] \in {"serving", "down"}

\* migrate_data.go:18, "Idempotent: skips if tables already have data".
SkipsIfTablesHaveData ==
    [][\A p \in Processes : pc[p] = "walk" /\ pc'[p] = "serving" /\ db' # db
        => db = Empty]_vars

\* markdown_export.go:16, "exports all SQLite data": a row of the tables it
\* names can be restored from what it wrote.
ExportIsComplete ==
    \A p \in Processes : FreshExport(p) =>
        \A k \in DOMAIN db :
            db[k].body \notin Awkward
            /\ k[1] \in {ExportTables[i] : i \in 1 .. Len(ExportTables)}
            => k \in DOMAIN ImportAll(Empty, files)

=============================================================================
