------------------------------- MODULE Schema -------------------------------
(***************************************************************************)
(* The workspace database of the storage plugin: the rows its tables hold, *)
(* what one SQL statement of a request handler does to them, and the       *)
(* conditions the handlers test before they write.                         *)
(*                                                                         *)
(* A database is a partial function from keys to rows.  A row keeps the    *)
(* columns the handlers decide by (the version, the foreign key) and one   *)
(* payload that stands for every other column.  Each statement commits on  *)
(* its own: the code opens no transaction around a request.                *)
(***************************************************************************)
EXTENDS Integers, Functions

CONSTANTS
    Names,  \* slugs, ids, storage paths and metadata strings
    Bodies, \* payloads
    Blank   \* the payload of a row that was created by default

NoName == ""
PacksPath == ".packs/registry.json"
StacksPath == ".stacks/stacks.json"

ASSUME NamesAssumption ==
    /\ {NoName, "registry", PacksPath, StacksPath} \subseteq Names
    /\ Blank \in Bodies

-----------------------------------------------------------------------------
(* The tables, grouped by what their write handlers have in common.        *)

\* Rows that belong to a project by foreign key: writeFeature, writePerson.
ChildTables == {"features", "persons"}

\* Rows that only name a project, with no foreign key: writePlan to writeNote.
OwnedTables ==
    {"plans", "requests", "delegations", "assignment_rules", "notes"}

\* Rows whose key is a project slug: writeProject, writeWIPConfig.
SlugTables == {"projects", "wip_config"}

\* writeDoc: names a project, with no foreign key, and ensures it.
DocTables == {"docs"}

\* writeSkill, writeAgent.
LibraryTables == {"skills", "agents"}

\* writeSession, writeSessionTurn: no version column.
SessionTables == {"sessions", "session_turns"}

\* The tables whose writes go through casCheck.
CasTables ==
    ChildTables \union OwnedTables \union SlugTables
        \union DocTables \union LibraryTables

Tables == CasTables \union SessionTables \union {"packs", "stacks", "kv_store"}

UnversionedTables == SessionTables \union {"packs"}

\* <<table, primary key, turn number>>; the number is 0 but for session_turns.
Key == Tables \X Names \X Int

Row == [ver : Int, owner : Names, body : Bodies]

IsDatabase(d) == DOMAIN d \subseteq Key /\ d \in [DOMAIN d -> Row]

\* A storage request after routePath.  table, proj, id and turn come from the
\* path (for kv_store, id is the raw path); owner, name, number and version are
\* the metadata fields project_id, name, number and version.
Request ==
    [op : {"read", "write", "delete"},
     table : Tables, proj : Names, id : Names, turn : Nat,
     exp : Int,
     owner : Names, name : Names, number : Int, version : Int,
     body : Bodies]

-----------------------------------------------------------------------------
(* Foreign keys.                                                           *)

\* The keys row r stored under k must find in the database.
References(k, r) ==
    IF k[1] \in ChildTables THEN {<<"projects", r.owner, 0>>}
    ELSE IF k[1] = "session_turns" THEN {<<"sessions", k[2], 0>>}
    ELSE {}

ForeignKeys(d) == \A k \in DOMAIN d : References(k, d[k]) \subseteq DOMAIN d

\* A bug to be caught: foreign keys left off, so that nothing cascades.
NoDependents(d, keys) == {}

\* The rows ON DELETE CASCADE takes along when the rows in keys go.
Dependents(d, keys) ==
    {k \in DOMAIN d : References(k, d[k]) \intersect keys # {}}

-----------------------------------------------------------------------------
(* Statements.                                                             *)

\* The row a write handler addresses.
KeyOf(q) ==
    CASE q.table = "session_turns" ->
             <<q.table, q.id, IF q.number # 0 THEN q.number ELSE q.turn>>
      [] q.table = "packs" ->
             IF q.name # NoName THEN <<"packs", q.name, 0>>
             ELSE <<"kv_store", PacksPath, 0>>
      [] OTHER -> <<q.table, q.id, 0>>

\* The foreign or plain project column of a new row, from the metadata.
OwnerOf(q) ==
    IF q.table \in ChildTables \union OwnedTables \union DocTables
    THEN q.owner
    ELSE NoName

\* The row INSERT ... ON CONFLICT DO UPDATE leaves: the update never touches
\* the project of a row that is already there.
Upserted(d, q, ver) ==
    LET k == KeyOf(q) IN
    [ver   |-> IF k[1] \in UnversionedTables THEN 0 ELSE ver,
     owner |-> IF k \in DOMAIN d THEN d[k].owner ELSE OwnerOf(q),
     body  |-> q.body]

Put(d, k, r) == [x \in DOMAIN d \union {k} |-> IF x = k THEN r ELSE d[x]]

Upsert(d, q, ver) == Put(d, KeyOf(q), Upserted(d, q, ver))

\* The statement fails on a row whose parent does not exist.
Storable(d, q, ver) ==
    References(KeyOf(q), Upserted(d, q, ver)) \subseteq DOMAIN d

\* INSERT OR IGNORE of a project with default columns; the version's is 1.
InsertProject(d, slug) ==
    LET k == <<"projects", slug, 0>> IN
    IF k \in DOMAIN d THEN d
    ELSE Put(d, k, [ver |-> 1, owner |-> NoName, body |-> Blank])

\* The rows a DELETE names: one turn by the number in its path, every pack,
\* one entry of kv_store (a stacks path included), one row by its id.
DeleteTargets(d, q) ==
    CASE q.table = "session_turns" -> {<<q.table, q.id, q.turn>>}
      [] q.table = "packs" -> {k \in DOMAIN d : k[1] = "packs"}
      [] q.table = "stacks" -> {<<"kv_store", StacksPath, 0>>}
      [] OTHER -> {<<q.table, q.id, 0>>}

\* Deleting nothing is an error, but for the reset of the packs registry.
Deletable(d, q) ==
    q.table = "packs" \/ DeleteTargets(d, q) \intersect DOMAIN d # {}

DeleteRows(d, keys) ==
    Restrict(d, DOMAIN d \ (keys \union Dependents(d, keys)))

-----------------------------------------------------------------------------
(* Compare-and-swap.                                                       *)

VersionAt(d, k) == IF k \in DOMAIN d THEN d[k].ver ELSE 0

\* A bug to be caught: an update asks only that the row be there.
casCheckByPresence(d, k, exp) ==
    exp = -1 \/ (exp = 0 <=> k \notin DOMAIN d)

casCheck(d, k, exp) ==
    \/ exp = -1
    \/ exp = 0 /\ k \notin DOMAIN d
    \/ exp \notin {-1, 0} /\ k \in DOMAIN d /\ d[k].ver = exp

\* A bug to be caught: a create overwrites.
kvCheckUpdatesOnly(d, k, exp) == exp > 0 => VersionAt(d, k) = exp

\* A missing entry counts as version 0, and so does one that cannot be read.
kvCheck(d, k, exp) ==
    /\ exp > 0 => VersionAt(d, k) = exp
    /\ exp = 0 => VersionAt(d, k) <= 0

\* No statement of the code, the import included, gives an entry version 0.
KvVersionsPositive(d) ==
    \A k \in DOMAIN d : k[1] = "kv_store" => d[k].ver > 0

\* Sessions, turns, packs and stacks are written without a look at exp.
IsChecked(q) == KeyOf(q)[1] \in CasTables \union {"kv_store"}

Admits(d, q) ==
    /\ q.table \in CasTables => casCheck(d, KeyOf(q), q.exp)
    /\ KeyOf(q)[1] = "kv_store" => kvCheck(d, KeyOf(q), q.exp)

\* A bug to be caught: the version after the one the client named, which an
\* upsert does not name.
VersionAfterExpected(d, q) == q.exp + 1

\* The version a write answers with and records.
NewVersion(d, q) ==
    IF IsChecked(q) THEN VersionAt(d, KeyOf(q)) + 1
    ELSE IF q.table = "stacks" THEN q.version + 1
    ELSE 1

\* A whole write or delete, as a client sees it when nothing interleaves.
Allowed(d, q) ==
    IF q.op = "write"
    THEN Admits(d, q) /\ Storable(d, q, NewVersion(d, q))
    ELSE Deletable(d, q)

EnsuresProject(q) ==
    q.table \in ChildTables \union DocTables /\ q.proj # NoName

After(d, q) ==
    LET e == Upsert(d, q, NewVersion(d, q)) IN
    IF q.op = "delete" THEN DeleteRows(d, DeleteTargets(d, q))
    ELSE IF EnsuresProject(q) THEN InsertProject(e, q.proj)
    ELSE e

-----------------------------------------------------------------------------
(* Reads.                                                                  *)

\* The row a read handler selects: a turn by the number in its path.
ReadKey(q) ==
    CASE q.table = "session_turns" -> <<q.table, q.id, q.turn>>
      [] OTHER -> <<q.table, q.id, 0>>

\* wip_config, stacks and packs answer with defaults when there is no row.
Readable(d, q) ==
    q.table \in {"wip_config", "stacks", "packs"} \/ ReadKey(q) \in DOMAIN d

\* The packs listing is one payload: it stands for the rows of the table.
ReadAnswer(d, q) ==
    IF q.table # "packs" /\ ReadKey(q) \in DOMAIN d
    THEN [ver |-> d[ReadKey(q)].ver, body |-> d[ReadKey(q)].body]
    ELSE [ver |-> 0, body |-> Blank]

=============================================================================
