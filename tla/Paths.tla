------------------------------- MODULE Paths --------------------------------
(***************************************************************************)
(* Storage paths: the row a path addresses (pathrouter.go) and the paths   *)
(* List answers with (list.go).                                            *)
(*                                                                         *)
(* A path is the sequence of its parts once it is cleaned and split; a     *)
(* part is a stem and an extension, which a directory lacks.               *)
(***************************************************************************)
EXTENDS Schema, Sequences

CONSTANTS
    Raw(_),    \* the string a path was before it was split: the key of kv_store
    Turn(_),   \* the file name of a turn, turn-NNN.md
    NumberOf(_), \* the number in such a name
    Parts(_),  \* the parts a name gives a path: several if it has a slash in it
    PackPath(_), \* .packs/<name>.json once it is cleaned
    Stem(_),   \* a directory's name up to its last dot
    Hidden     \* payloads of notes whose deleted column is set

Part == STRING \X STRING

ASSUME PathsAssumption ==
    /\ Parts(NoName) = << >>
    /\ \A n \in Names : Parts(n) \in Seq(Part)

Dir(name) == <<name, "">>
File(name) == <<name, "md">>
Json(name) == <<name, "json">>

stripExt(part) == IF part[2] = "" THEN Stem(part[1]) ELSE part[1]

\* The folder of a project that stands for a table.
FolderOf(table) ==
    IF table = "assignment_rules" THEN "assignment-rules" ELSE table

FolderTables == ChildTables \union OwnedTables \union DocTables

Routed(table, proj, id, turn) ==
    [table |-> table, proj |-> proj, id |-> id, turn |-> turn]

IdAfterFolder(p) == IF Len(p) >= 2 THEN stripExt(p[2]) ELSE NoName

InSessions(p) == p[1] = Dir("bridge") /\ Len(p) >= 2 /\ p[2] = Dir("sessions")

\* A project, a folder, a file.
InFolder(p, table) == Len(p) = 3 /\ p[2] = Dir(FolderOf(table))
HasFolder(p) == \E t \in FolderTables : InFolder(p, t)
FolderTable(p) == CHOOSE t \in FolderTables : InFolder(p, t)

\* The row a path addresses: a kv entry when nothing else. The order of the
\* branches counts, a path may fit several.
routePath(p) ==
    IF p[1] = Dir(".packs") THEN Routed("packs", NoName, NoName, 0)
    ELSE IF p[1] = Dir(".stacks") THEN Routed("stacks", NoName, NoName, 0)
    ELSE IF p[1] = Dir(".skills") THEN Routed("skills", NoName, IdAfterFolder(p), 0)
    ELSE IF p[1] = Dir(".agents") THEN Routed("agents", NoName, IdAfterFolder(p), 0)
    ELSE IF InSessions(p) /\ Len(p) = 3
         THEN Routed("sessions", NoName, stripExt(p[3]), 0)
    ELSE IF InSessions(p) /\ Len(p) = 4
         THEN Routed("session_turns", NoName, stripExt(p[3]), NumberOf(p[4]))
    ELSE IF Len(p) = 2 /\ p[2] = Json("project")
         THEN Routed("projects", p[1][1], p[1][1], 0)
    ELSE IF Len(p) = 2 /\ p[2] = Json("wip")
         THEN Routed("wip_config", p[1][1], p[1][1], 0)
    ELSE IF HasFolder(p)
         THEN Routed(FolderTable(p), p[1][1], stripExt(p[3]), 0)
    ELSE Routed("kv_store", p[1][1], Raw(p), 0)

-----------------------------------------------------------------------------
(* List.                                                                   *)

\* A bug to be caught: filepath.Join drops an empty project, as it does for the
\* other tables.
NotePathAsIs(id, owner) == Parts(owner) \o <<Dir("notes"), File(id)>>

NotePath(id, owner) ==
    (IF owner = NoName THEN <<Dir(".global")>> ELSE Parts(owner))
        \o <<Dir("notes"), File(id)>>

\* The path of row r under key k; filepath.Join drops an empty project.
\* Project and pack are metadata, the other names one part of a path each.
PathOf(k, r) ==
    CASE k[1] = "notes" -> NotePath(k[2], r.owner)
      [] k[1] \in FolderTables \ {"notes"} ->
             Parts(r.owner) \o <<Dir(FolderOf(k[1])), File(k[2])>>
      [] k[1] = "skills" -> <<Dir(".skills"), File(k[2])>>
      [] k[1] = "agents" -> <<Dir(".agents"), File(k[2])>>
      [] k[1] = "packs" -> PackPath(k[2])
      [] k[1] = "sessions" -> <<Dir("bridge"), Dir("sessions"), File(k[2])>>
      [] k[1] = "session_turns" ->
             <<Dir("bridge"), Dir("sessions"), Dir(k[2]), Turn(k[3])>>
      [] OTHER -> Parts(k[2]) \o <<Json("project")>>

\* The table a prefix lists, with the project or session it is limited to.
isListPrefix(p) ==
    IF p[1] = Dir(".packs") THEN <<"packs", NoName>>
    ELSE IF p[1] = Dir(".stacks") THEN <<"stacks", NoName>>
    ELSE IF p[1] = Dir(".skills") THEN <<"skills", NoName>>
    ELSE IF p[1] = Dir(".agents") THEN <<"agents", NoName>>
    ELSE IF InSessions(p) /\ Len(p) = 3 THEN <<"session_turns", stripExt(p[3])>>
    ELSE IF InSessions(p) THEN <<"sessions", NoName>>
    ELSE IF \E t \in FolderTables : Len(p) = 2 /\ p[2] = Dir(FolderOf(t))
         THEN <<CHOOSE t \in FolderTables : p[2] = Dir(FolderOf(t)), p[1][1]>>
    ELSE <<"kv_store", NoName>>

\* The rows of a table a list shows: a note until it is marked deleted.
Shown(d, table) ==
    {k \in DOMAIN d :
        k[1] = table /\ (table = "notes" => d[k].body \notin Hidden)}

\* The WHERE clause of each list; notes of no project are those of .global.
Within(d, k, scope) ==
    IF k[1] = "notes" /\ scope = ".global" THEN d[k].owner \in {NoName, ".global"}
    ELSE IF k[1] \in FolderTables THEN d[k].owner = scope
    ELSE k[1] = "session_turns" => k[2] = scope

\* The keys List answers with for a prefix, the kv_store fallback aside.
ListKeys(d, prefix) ==
    LET t == isListPrefix(prefix) IN
    IF t[1] \in {"kv_store", "stacks"} THEN {}
    ELSE {k \in Shown(d, t[1]) : Within(d, k, t[2])}

\* List of the root with project.json.
listAllProjects(d) == Shown(d, "projects")

\* The tables of listAllEntities, in the order of its SELECTs.
EntityQueries ==
    <<"features", "persons", "plans", "requests", "delegations",
      "assignment_rules", "notes", "docs", "skills", "agents", "sessions">>

-----------------------------------------------------------------------------
(* Names.                                                                  *)

\* A listed path leads Read back to the row it was made from.
ReadsBack(k, p) == ReadKey(routePath(p)) = k

\* First parts that routePath takes for itself, whatever follows them.
Reserved == {".packs", ".stacks", ".skills", ".agents"}

\* A name that is one part of any path it is joined into.
PlainPart(n) == Parts(n) = <<Dir(n)>> /\ n # ".."

\* A name a project can be found under.
PlainProject(n) == PlainPart(n) /\ n \notin Reserved

\* A row whose listed path can be parsed: its project is one part of a path and
\* not called like a folder of the router, the directory of a session has no
\* dot, the file name of a turn has the turn's number, a pack stays in .packs/.
Addressable(k, owner) ==
    /\ k[1] # "session_turns" => k[3] = 0
    /\ k[1] = "session_turns" =>
         /\ NumberOf(Turn(k[3])) = k[3]
         /\ PlainPart(k[2]) /\ Stem(k[2]) = k[2]
    /\ k[1] = "packs" => PackPath(k[2])[1] = Dir(".packs")
    /\ k[1] = "projects" => PlainProject(k[2])
    /\ k[1] \in FolderTables => owner = NoName \/ PlainProject(owner)

AllAddressable(d) == \A k \in DOMAIN d : Addressable(k, d[k].owner)

\* A write whose names make addressable rows.
PlainRequest(q) ==
    q.op = "write" =>
        /\ Addressable(KeyOf(q), OwnerOf(q))
        /\ EnsuresProject(q) => PlainProject(q.proj)

=============================================================================
