----------------------------- MODULE MCSyncFeed ------------------------------
(***************************************************************************)
(* Small instances of SyncFeed for TLC.                                    *)
(***************************************************************************)
EXTENDS SyncFeed, TLC

CONSTANTS i1, b0, b1, b2, hidden

MCNames ==
    {"", "registry", PacksPath, StacksPath, ".global", "p", "x", "n", "s", "kit"}

MCBodies == {b0, b1, b2, hidden}

MCHidden == {hidden}

MCRaw(p) == "kit"
MCTurn(n) == <<"turn", n>>
MCNumberOf(part) == part[2]
MCParts(n) == IF n = "" THEN << >> ELSE <<Dir(n)>>
MCPackPath(n) == <<Dir(".packs"), Json(n)>>
MCStem(n) == n

Plain ==
    [op |-> "write", table |-> "kv_store", proj |-> "", id |-> "", turn |-> 0,
     exp |-> 0, owner |-> "", name |-> "", number |-> 0, version |-> 0,
     body |-> b1]

Deleting(q) == [q EXCEPT !.op = "delete"]
Updating(q, body) == [q EXCEPT !.exp = -1, !.body = body]

Plan == [Plain EXCEPT !.table = "plans", !.id = "x", !.proj = "p", !.owner = "p"]
Note == [Plain EXCEPT !.table = "notes", !.id = "n", !.proj = ".global"]
Project == [Plain EXCEPT !.table = "projects", !.id = "p", !.proj = "p"]
Pack == [Plain EXCEPT !.table = "packs", !.name = "kit"]

\* An entity that is written and deleted, one that is hidden, a project whose
\* delete takes a feature along, and a table the engine does not follow.
FeedRequests ==
    {Updating(Plan, b1), Deleting(Plan), Updating(Note, hidden),
     Deleting(Project), Pack}

Rowed(owner, body) == [ver |-> 0, owner |-> owner, body |-> body]

\* Rows an import left, which no log entry is about.
FeedSeeds ==
    {<<"projects", "p", 0>> :> Rowed("", b0)
     @@ <<"features", "x", 0>> :> Rowed("p", b0)
     @@ <<"plans", "x", 0>> :> Rowed("p", b0),
     <<"notes", "n", 0>> :> Rowed("", b0)
     @@ <<"sessions", "s", 0>> :> Rowed("", b0)
     @@ <<"session_turns", "s", 2>> :> Rowed("", b0)}

FeedPrefixes ==
    {<<Dir("p"), Dir("plans")>>, <<Dir("p"), Dir("features")>>,
     <<Dir(".global"), Dir("notes")>>, <<Dir("bridge"), Dir("sessions")>>,
     <<Dir("bridge"), Dir("sessions"), Dir("s")>>, <<Dir(".packs")>>}

ASSUME FeedNames == PlainNames

=============================================================================
