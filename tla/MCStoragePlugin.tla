-------------------------- MODULE MCStoragePlugin ---------------------------
(***************************************************************************)
(* Small instances of StoragePlugin for TLC: the request sets, starting    *)
(* databases and deployments the configurations choose from.               *)
(***************************************************************************)
EXTENDS StoragePlugin, TLC

CONSTANTS i1, i2, w1, w2, b0, b1, b2

MCNames ==
    {"", "registry", PacksPath, StacksPath, "p", "q", "x", "s", "kit", "cache"}

MCBodies == {b0, b1, b2}

\* All workers on one instance; a worker on each of two instances.
OneInstance == [w \in Workers |-> i1]
TwoInstances == w1 :> i1 @@ w2 :> i2

WorkerSymmetry == Permutations(Workers)

EmptyDatabase == [k \in {} |-> NoAnswer]

\* A request with nothing in the fields it does not use.
Plain ==
    [op |-> "read", table |-> "kv_store", proj |-> "", id |-> "", turn |-> 0,
     exp |-> 0, owner |-> "", name |-> "", number |-> 0, version |-> 0,
     body |-> b0]

At(table, id) == [Plain EXCEPT !.table = table, !.id = id]
Reading(q) == [q EXCEPT !.op = "read"]
Deleting(q) == [q EXCEPT !.op = "delete"]
Writing(q, exp, body) ==
    [q EXCEPT !.op = "write", !.exp = exp, !.body = body]

\* A feature of project p by its path, of project owner by its metadata.
Feature(owner) ==
    [At("features", "x") EXCEPT !.proj = "p", !.owner = owner]

Project(slug) == [At("projects", slug) EXCEPT !.proj = slug]

Stacks == [At("stacks", "") EXCEPT !.version = 1]

-----------------------------------------------------------------------------
(* Every way to compare-and-swap a kv entry, a project and a feature of it, *)
(* beside the stacks, which ignore expected_version.                        *)

CasRequests ==
    LET kv == At("kv_store", "cache")
        x == Feature("p")
        p == Project("p")
    IN {Writing(kv, 0, b1), Writing(kv, 1, b2), Deleting(kv),
        Reading(x), Writing(x, 0, b1), Writing(x, 1, b2), Writing(x, -1, b1),
        Writing(p, -1, b2), Deleting(p), Writing(Stacks, 0, b1)}

EmptySeeds == {EmptyDatabase}

\* Rows MigrateFromMarkdown left without a version in their frontmatter.
Imported ==
    <<"projects", "p", 0>> :> [ver |-> 0, owner |-> "", body |-> b0]
    @@ <<"features", "x", 0>> :> [ver |-> 0, owner |-> "p", body |-> b0]

CasSeeds == {EmptyDatabase, Imported}

-----------------------------------------------------------------------------
(* Parents and children, and the tables without compare-and-swap.          *)

MCSlugs == {"p"}

Session == At("sessions", "s")

\* A turn whose metadata may number it otherwise than its path does.
Turn(number) ==
    [At("session_turns", "s") EXCEPT !.turn = 1, !.number = number]

Packs(name) == [At("packs", "") EXCEPT !.name = name]

TableRequests ==
    {Writing(Session, 0, b1), Deleting(Session),
     Writing(Turn(0), 0, b1), Writing(Turn(2), 0, b2), Deleting(Turn(0)),
     Writing(Feature("q"), -1, b1), Writing(Project("q"), -1, b1),
     Deleting(Project("q")), Reading(At("wip_config", "p"))}

-----------------------------------------------------------------------------
(* Entities whose every change a handler logs, beside the registries.      *)

LogRequests ==
    LET plan == At("plans", "x") IN
    {Writing(plan, 0, b1), Writing(plan, 1, b2), Deleting(plan),
     Writing(Session, 0, b2), Deleting(Session),
     Writing(Stacks, 0, b1), Deleting(Stacks), Reading(Stacks),
     Writing(Packs("kit"), 0, b1), Deleting(Packs(""))}

\* A project with a feature, deleted.
CascadeRequests ==
    {Writing(Project("p"), 0, b1), Writing(Feature("p"), 0, b1),
     Deleting(Project("p"))}

\* The registry, written with the name of a pack in its metadata and without.
PacksRequests ==
    {Writing(Packs("kit"), 0, b1), Writing(Packs(""), 0, b2), Reading(Packs(""))}

=============================================================================
