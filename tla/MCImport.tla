------------------------------ MODULE MCImport -------------------------------
(***************************************************************************)
(* Small instances of Import for TLC.                                      *)
(***************************************************************************)
EXTENDS Import, TLC

CONSTANTS b0, b1, b2, b3, bad

MCNames ==
    {"", "registry", PacksPath, StacksPath, ".notes", "p", "x", "d", "s", "kit"}

MCBodies == {b0, b1, b2, b3, bad}
MCAwkward == {bad}

\* What the export keeps of b2, which has columns it leaves out, is b3.
MCKept(b) == IF b = b2 THEN b3 ELSE b
MCSlugPath(table, b) ==
    <<Dir(IF table = "skills" THEN ".skills" ELSE ".agents"), File("kit")>>

MCRaw(p) == PacksPath
MCTurn(n) == <<"turn", "md">>
MCNumberOf(part) == 1
MCParts(n) == IF n = "" THEN << >> ELSE <<Dir(n)>>
MCPackPath(n) == <<Dir(".packs"), Json(n)>>
MCStem(n) == n

SessionFolder == <<Dir("bridge"), Dir("sessions")>>
TurnFile == SessionFolder \o <<Dir("s"), File("turn")>>
SessionFile == SessionFolder \o <<File("s")>>
FeatureFile == <<Dir("p"), Dir("features"), File("x")>>
PlanFile == <<Dir("p"), Dir("plans"), File("x")>>
DocFile == <<Dir("p"), Dir("docs"), File("d")>>
ProjectFile == <<Dir("p"), Json("project")>>
PacksFile == <<Dir(".packs"), Json("registry")>>

\* Lexical: s before s.md, the folders of p before its files.
MCWalkOrder ==
    <<PacksFile, TurnFile, SessionFile, DocFile, FeatureFile,
      PlanFile, ProjectFile>>

Content(owner, body) ==
    [good |-> TRUE, owner |-> owner, number |-> 0, ver |-> 0, body |-> body]

Unparsed == [Content("", b0) EXCEPT !.good = FALSE]

\* A turn before its session, a file that does not parse, a child of no project.
Markdowns ==
    PacksFile :> Content("", b1) @@ TurnFile :> Content("", b1)
    @@ SessionFile :> Content("", b1) @@ DocFile :> Unparsed
    @@ FeatureFile :> Content("", b1)

\* A turn of no session, a project with no features.
Leftovers == TurnFile :> Content("", b1) @@ ProjectFile :> Content("", b1)

MCTrees == {Leftovers, Markdowns}

Plain ==
    [op |-> "write", table |-> "kv_store", proj |-> "", id |-> "", turn |-> 0,
     exp |-> -1, owner |-> "", name |-> "", number |-> 0, version |-> 0,
     body |-> b2]

Deleting(q) == [q EXCEPT !.op = "delete"]
Feature ==
    [Plain EXCEPT !.table = "features", !.id = "x", !.proj = "p", !.owner = "p"]
Project == [Plain EXCEPT !.table = "projects", !.id = "p", !.proj = "p"]
Session == [Plain EXCEPT !.table = "sessions", !.id = "s"]

ImportRequests == {Feature, Deleting(Project)}

\* A session deleted while a plan is there, and no feature.
SessionRequests == {Deleting(Session)}

\* A doc of a project, and its project.
DocRequests ==
    {[Feature EXCEPT !.table = "docs", !.id = "d"], Project,
     [Feature EXCEPT !.table = "plans"]}

NoTrees == {<< >>}

\* Data of other tables than features.
ReimportTrees == {SessionFile :> Content("", b1) @@ PlanFile :> Content("p", b1)}

ASSUME ImportNames == PlainProjects

=============================================================================
