---------------------------- MODULE Paths_proofs -----------------------------
(***************************************************************************)
(* The path router against the path builders of the lists: which listed    *)
(* paths lead back to their row.                                           *)
(***************************************************************************)
EXTENDS Paths, Schema_proofs, SequenceTheorems

-----------------------------------------------------------------------------
(* One lemma per kind of path.                                             *)

\* The folder of a project names its table.
LEMMA FolderNamesTable ==
    /\ \A t, u \in FolderTables : FolderOf(t) = FolderOf(u) => t = u
    /\ \A t \in FolderTables : FolderOf(t) # "sessions"
BY DEF FolderTables, ChildTables, OwnedTables, DocTables, FolderOf

\* The first parts that lead to a branch of their own.
OwnBranch == {Dir(".packs"), Dir(".stacks"), Dir(".skills"), Dir(".agents")}

\* The branches of routePath that a listed path may take.
LEMMA RouteBranches ==
    ASSUME NEW p
    PROVE  /\ (p[1] = Dir(".packs"))
                => routePath(p) = Routed("packs", NoName, NoName, 0)
           /\ (p[1] = Dir(".skills"))
                => routePath(p) = Routed("skills", NoName, IdAfterFolder(p), 0)
           /\ (p[1] = Dir(".agents"))
                => routePath(p) = Routed("agents", NoName, IdAfterFolder(p), 0)
           /\ (p[1] \notin OwnBranch /\ InSessions(p) /\ Len(p) = 3)
                => routePath(p) = Routed("sessions", NoName, stripExt(p[3]), 0)
           /\ (p[1] \notin OwnBranch /\ InSessions(p) /\ Len(p) = 4)
                => routePath(p)
                     = Routed("session_turns", NoName, stripExt(p[3]), NumberOf(p[4]))
           /\ (p[1] \notin OwnBranch /\ ~InSessions(p) /\ Len(p) = 2 /\ p[2] = Json("project"))
                => routePath(p) = Routed("projects", p[1][1], p[1][1], 0)
           /\ (p[1] \notin OwnBranch /\ ~InSessions(p) /\ Len(p) # 2 /\ HasFolder(p))
                => routePath(p) = Routed(FolderTable(p), p[1][1], stripExt(p[3]), 0)
<1>1. Dir(".packs") # Dir(".skills") /\ Dir(".packs") # Dir(".agents")
  BY DEF Dir
<1>2. Dir(".stacks") # Dir(".skills") /\ Dir(".stacks") # Dir(".agents")
  BY DEF Dir
<1>3. Dir(".skills") # Dir(".agents")
  BY DEF Dir
<1>4. (p[1] = Dir(".packs")) => routePath(p) = Routed("packs", NoName, NoName, 0)
  BY DEF routePath
<1>5. (p[1] = Dir(".skills"))
        => routePath(p) = Routed("skills", NoName, IdAfterFolder(p), 0)
  BY <1>1, <1>2 DEF routePath
<1>6. (p[1] = Dir(".agents"))
        => routePath(p) = Routed("agents", NoName, IdAfterFolder(p), 0)
  BY <1>1, <1>2, <1>3 DEF routePath
<1>7. (p[1] \notin OwnBranch /\ InSessions(p) /\ Len(p) = 3)
        => routePath(p) = Routed("sessions", NoName, stripExt(p[3]), 0)
  BY DEF routePath, OwnBranch
<1>8. (p[1] \notin OwnBranch /\ InSessions(p) /\ Len(p) = 4)
        => routePath(p)
             = Routed("session_turns", NoName, stripExt(p[3]), NumberOf(p[4]))
  BY DEF routePath, OwnBranch
<1>9. (p[1] \notin OwnBranch /\ ~InSessions(p) /\ Len(p) = 2 /\ p[2] = Json("project"))
        => routePath(p) = Routed("projects", p[1][1], p[1][1], 0)
  BY DEF routePath, OwnBranch
<1>10. (p[1] \notin OwnBranch /\ ~InSessions(p) /\ Len(p) # 2 /\ HasFolder(p))
        => routePath(p) = Routed(FolderTable(p), p[1][1], stripExt(p[3]), 0)
  BY DEF routePath, OwnBranch
<1>. QED
  BY <1>4, <1>5, <1>6, <1>7, <1>8, <1>9, <1>10

LEMMA FileStem ==
    ASSUME NEW id
    PROVE  stripExt(File(id)) = id
BY DEF stripExt, File

\* pathrouter.go's branch of <project>/<folder>/<file>.
LEMMA FolderRoutes ==
    ASSUME NEW t \in FolderTables, NEW owner, owner \notin Reserved, NEW id
    PROVE  routePath(<<Dir(owner), Dir(FolderOf(t)), File(id)>>)
               = Routed(t, owner, id, 0)
<1>. DEFINE p == <<Dir(owner), Dir(FolderOf(t)), File(id)>>
<1>1. /\ p[1] = Dir(owner) /\ p[2] = Dir(FolderOf(t)) /\ p[3] = File(id)
      /\ Len(p) = 3
  OBVIOUS
<1>2. p[1] \notin OwnBranch
  BY <1>1 DEF OwnBranch, Reserved, Dir
<1>3. ~InSessions(p)
  BY <1>1, FolderNamesTable DEF InSessions, Dir
<1>4. \A u \in FolderTables : InFolder(p, u) <=> u = t
  BY <1>1, FolderNamesTable DEF InFolder, Dir
<1>5. HasFolder(p) /\ FolderTable(p) = t
  BY <1>4 DEF HasFolder, FolderTable
<1>6. Len(p) # 2 /\ p[1][1] = owner /\ stripExt(p[3]) = id
  <2>1. Dir(owner)[1] = owner /\ File(id)[1] = id
    BY DEF Dir, File
  <2>2. Len(p) # 2
    BY <1>1
  <2>3. p[1][1] = owner /\ stripExt(p[3]) = id
    BY <1>1, <2>1, FileStem
  <2>. QED
    BY <2>2, <2>3
<1>. HIDE DEF p
<1>7. routePath(p) = Routed(FolderTable(p), p[1][1], stripExt(p[3]), 0)
  BY <1>2, <1>3, <1>5, <1>6, RouteBranches
<1>. QED
  BY <1>5, <1>6, <1>7 DEF p

\* .skills/ and .agents/.
LEMMA LibraryRoutes ==
    ASSUME NEW id
    PROVE  /\ routePath(<<Dir(".skills"), File(id)>>) = Routed("skills", NoName, id, 0)
           /\ routePath(<<Dir(".agents"), File(id)>>) = Routed("agents", NoName, id, 0)
<1>. DEFINE s == <<Dir(".skills"), File(id)>>
            a == <<Dir(".agents"), File(id)>>
<1>1. IdAfterFolder(s) = id /\ IdAfterFolder(a) = id
  BY FileStem DEF IdAfterFolder
<1>2. s[1] = Dir(".skills") /\ a[1] = Dir(".agents")
  OBVIOUS
<1>. HIDE DEF s, a
<1>3. /\ routePath(s) = Routed("skills", NoName, id, 0)
      /\ routePath(a) = Routed("agents", NoName, id, 0)
  BY <1>1, <1>2, RouteBranches
<1>. QED
  BY <1>3 DEF s, a

\* .packs/: every path of it.
LEMMA PackRoutes ==
    ASSUME NEW p, p[1] = Dir(".packs")
    PROVE  routePath(p) = Routed("packs", NoName, NoName, 0)
BY RouteBranches

\* bridge/sessions/<id> and bridge/sessions/<id>/<turn>.
LEMMA SessionRoutes ==
    ASSUME NEW id, NEW n
    PROVE  /\ routePath(<<Dir("bridge"), Dir("sessions"), File(id)>>)
                = Routed("sessions", NoName, id, 0)
           /\ Stem(id) = id =>
                routePath(<<Dir("bridge"), Dir("sessions"), Dir(id), Turn(n)>>)
                = Routed("session_turns", NoName, id, NumberOf(Turn(n)))
<1>. DEFINE s == <<Dir("bridge"), Dir("sessions"), File(id)>>
            t == <<Dir("bridge"), Dir("sessions"), Dir(id), Turn(n)>>
<1>1. Dir("bridge") \notin OwnBranch
  BY DEF OwnBranch, Dir
<1>2. /\ s[1] = Dir("bridge") /\ s[2] = Dir("sessions") /\ s[3] = File(id)
      /\ Len(s) = 3
      /\ t[1] = Dir("bridge") /\ t[2] = Dir("sessions") /\ t[3] = Dir(id)
      /\ t[4] = Turn(n) /\ Len(t) = 4
  OBVIOUS
<1>. HIDE DEF s, t
<1>3. /\ InSessions(s) /\ stripExt(s[3]) = id
      /\ InSessions(t) /\ (Stem(id) = id => stripExt(t[3]) = id)
  <2>1. stripExt(Dir(id)) = Stem(id)
    BY DEF Dir, stripExt
  <2>. QED
    BY <1>2, <2>1, FileStem DEF InSessions
<1>4. /\ routePath(s) = Routed("sessions", NoName, id, 0)
      /\ Stem(id) = id => routePath(t) = Routed("session_turns", NoName, id, NumberOf(Turn(n)))
  BY <1>1, <1>2, <1>3, RouteBranches
<1>. QED
  BY <1>4 DEF s, t

\* <project>/project.json.
LEMMA ProjectRoutes ==
    ASSUME NEW id, id \notin Reserved
    PROVE  routePath(<<Dir(id), Json("project")>>) = Routed("projects", id, id, 0)
<1>. DEFINE p == <<Dir(id), Json("project")>>
<1>1. p[1] = Dir(id) /\ p[2] = Json("project") /\ Len(p) = 2
  OBVIOUS
<1>2. p[1] \notin OwnBranch
  BY <1>1 DEF OwnBranch, Reserved, Dir
<1>3. ~InSessions(p) /\ p[1][1] = id
  BY <1>1 DEF InSessions, Dir, Json
<1>. HIDE DEF p
<1>4. routePath(p) = Routed("projects", id, id, 0)
  BY <1>1, <1>2, <1>3, RouteBranches
<1>. QED
  BY <1>4 DEF p

-----------------------------------------------------------------------------
(* The round trip from a row to its path and back.                         *)

LEMMA Prepend ==
    ASSUME NEW x, NEW a, NEW b
    PROVE  /\ <<x>> \o <<a, b>> = <<x, a, b>>
           /\ <<x>> \o <<a>> = <<x, a>>
<1>. DEFINE S == {x, a, b}
            s == <<x>> \o <<a, b>>
            t == <<x, a, b>>
            u == <<x>> \o <<a>>
            v == <<x, a>>
<1>1. /\ <<x>> \in Seq(S) /\ <<a, b>> \in Seq(S) /\ <<a>> \in Seq(S)
      /\ t \in Seq(S) /\ v \in Seq(S)
  OBVIOUS
<1>2. s \in Seq(S) /\ Len(s) = 3 /\ s[1] = x /\ s[2] = a /\ s[3] = b
  BY <1>1, ConcatProperties
<1>3. u \in Seq(S) /\ Len(u) = 2 /\ u[1] = x /\ u[2] = a
  BY <1>1, ConcatProperties
<1>4. Len(s) = Len(t) /\ \A i \in 1 .. Len(s) : s[i] = t[i]
  BY <1>2
<1>5. Len(u) = Len(v) /\ \A i \in 1 .. Len(u) : u[i] = v[i]
  BY <1>3
<1>. HIDE DEF S, s, t, u, v
<1>6. s = t /\ u = v
  BY <1>1, <1>2, <1>3, <1>4, <1>5, SeqEqual
<1>. QED
  BY <1>6 DEF s, t, u, v

\* A plain name joined before a path is its first part.
LEMMA PlainJoin ==
    ASSUME NEW n, PlainPart(n)
    PROVE  /\ \A a, b : Parts(n) \o <<a, b>> = <<Dir(n), a, b>>
           /\ \A a : Parts(n) \o <<a>> = <<Dir(n), a>>
BY Prepend DEF PlainPart

\* The branches of PathOf.
LEMMA PathBranches ==
    ASSUME NEW k, NEW r
    PROVE  /\ k[1] = "notes" => PathOf(k, r) = NotePath(k[2], r.owner)
           /\ k[1] \in FolderTables \ {"notes"}
                => PathOf(k, r) = Parts(r.owner) \o <<Dir(FolderOf(k[1])), File(k[2])>>
           /\ k[1] = "skills" => PathOf(k, r) = <<Dir(".skills"), File(k[2])>>
           /\ k[1] = "agents" => PathOf(k, r) = <<Dir(".agents"), File(k[2])>>
           /\ k[1] = "packs" => PathOf(k, r) = PackPath(k[2])
           /\ k[1] = "sessions"
                => PathOf(k, r) = <<Dir("bridge"), Dir("sessions"), File(k[2])>>
           /\ k[1] = "session_turns"
                => PathOf(k, r)
                     = <<Dir("bridge"), Dir("sessions"), Dir(k[2]), Turn(k[3])>>
           /\ k[1] = "projects" => PathOf(k, r) = Parts(k[2]) \o <<Json("project")>>
<1>1. \A t \in {"skills", "agents", "packs", "sessions", "session_turns", "projects"} :
        t \notin FolderTables \ {"notes"} /\ t # "notes"
  BY DEF FolderTables, ChildTables, OwnedTables, DocTables
<1>2. k[1] = "notes" => PathOf(k, r) = NotePath(k[2], r.owner)
  BY DEF PathOf
<1>3. ASSUME k[1] \in FolderTables \ {"notes"}
      PROVE  PathOf(k, r) = Parts(r.owner) \o <<Dir(FolderOf(k[1])), File(k[2])>>
  <2>1. k[1] \notin {"notes", "skills", "agents", "packs", "sessions",
                    "session_turns", "projects"}
    BY <1>1, <1>3
  <2>. QED
    BY <1>3, <2>1, Zenon DEF PathOf
<1>4. k[1] = "skills" => PathOf(k, r) = <<Dir(".skills"), File(k[2])>>
  BY <1>1, Zenon DEF PathOf
<1>5. k[1] = "agents" => PathOf(k, r) = <<Dir(".agents"), File(k[2])>>
  BY <1>1, Zenon DEF PathOf
<1>6. k[1] = "packs" => PathOf(k, r) = PackPath(k[2])
  BY <1>1, Zenon DEF PathOf
<1>7. k[1] = "sessions"
        => PathOf(k, r) = <<Dir("bridge"), Dir("sessions"), File(k[2])>>
  BY <1>1, Zenon DEF PathOf
<1>8. k[1] = "session_turns"
        => PathOf(k, r) = <<Dir("bridge"), Dir("sessions"), Dir(k[2]), Turn(k[3])>>
  BY <1>1, Zenon DEF PathOf
<1>9. k[1] = "projects" => PathOf(k, r) = Parts(k[2]) \o <<Json("project")>>
  BY <1>1, Zenon DEF PathOf
<1>. QED
  BY <1>2, <1>3, <1>4, <1>5, <1>6, <1>7, <1>8, <1>9

\* Tables some list shows.
ListedTables == FolderTables \union LibraryTables \union SessionTables \union {"projects"}

\* list.go builds a path from a row; read.go finds that row by it.
LEMMA AddressableReadsBack ==
    ASSUME NEW k \in Key, NEW r \in Row, k[1] \in ListedTables,
           Addressable(k, r.owner),
           r.owner = NoName => k[1] \notin FolderTables \ {"notes"}
    PROVE  ReadsBack(k, PathOf(k, r))
<1>1. k = <<k[1], k[2], k[3]>>
  BY DEF Key
<1>2. \A t, a, b, n : /\ t # "session_turns" => ReadKey(Routed(t, a, b, n)) = <<t, b, 0>>
                      /\ ReadKey(Routed("session_turns", a, b, n)) = <<"session_turns", b, n>>
  BY DEF ReadKey, Routed
<1>3. "session_turns" \notin FolderTables \union LibraryTables \union {"sessions", "projects"}
  BY DEF FolderTables, ChildTables, OwnedTables, DocTables, LibraryTables
<1>4. CASE k[1] = "notes"
  <2>1. PICK o : o \notin Reserved
                 /\ PathOf(k, r) = <<Dir(o), Dir(FolderOf("notes")), File(k[2])>>
    <3>1. PathOf(k, r) = NotePath(k[2], r.owner) /\ FolderOf("notes") = "notes"
      BY <1>4, PathBranches DEF FolderOf
    <3>2. r.owner = NoName \/ PlainProject(r.owner)
      BY <1>4 DEF Addressable, FolderTables, OwnedTables
    <3>3. CASE r.owner = NoName
      <4>1. <<Dir(".global")>> \o <<Dir("notes"), File(k[2])>>
              = <<Dir(".global"), Dir("notes"), File(k[2])>>
        BY Prepend
      <4>2. ".global" \notin Reserved
        BY DEF Reserved
      <4>. QED
        BY <3>1, <3>3, <4>1, <4>2 DEF NotePath
    <3>4. CASE r.owner # NoName
      BY <3>1, <3>2, <3>4, PlainJoin DEF NotePath, PlainProject
    <3>. QED
      BY <3>3, <3>4
  <2>2. routePath(PathOf(k, r)) = Routed("notes", o, k[2], 0)
    BY <2>1, FolderRoutes DEF FolderTables, OwnedTables
  <2>. QED
    BY <1>1, <1>2, <1>4, <2>2 DEF ReadsBack, Addressable
<1>5. CASE k[1] \in FolderTables \ {"notes"}
  <2>1. /\ PathOf(k, r) = <<Dir(r.owner), Dir(FolderOf(k[1])), File(k[2])>>
        /\ r.owner \notin Reserved
    <3>1. PathOf(k, r) = Parts(r.owner) \o <<Dir(FolderOf(k[1])), File(k[2])>>
      BY <1>5, PathBranches
    <3>2. PlainPart(r.owner) /\ r.owner \notin Reserved
      BY <1>5 DEF Addressable, PlainProject
    <3>. QED
      BY <3>1, <3>2, PlainJoin
  <2>2. routePath(PathOf(k, r)) = Routed(k[1], r.owner, k[2], 0)
    BY <1>5, <2>1, FolderRoutes
  <2>. QED
    BY <1>1, <1>2, <1>3, <1>5, <2>2 DEF ReadsBack, Addressable
<1>6. CASE k[1] \in LibraryTables
  <2>1. routePath(PathOf(k, r)) = Routed(k[1], NoName, k[2], 0)
    BY <1>6, PathBranches, LibraryRoutes DEF LibraryTables
  <2>. QED
    BY <1>1, <1>2, <1>3, <1>6, <2>1 DEF ReadsBack, Addressable
<1>7. CASE k[1] = "sessions"
  <2>1. routePath(PathOf(k, r)) = Routed("sessions", NoName, k[2], 0)
    BY <1>7, PathBranches, SessionRoutes
  <2>. QED
    BY <1>1, <1>2, <1>3, <1>7, <2>1 DEF ReadsBack, Addressable
<1>8. CASE k[1] = "session_turns"
  <2>1. routePath(PathOf(k, r))
          = Routed("session_turns", NoName, k[2], NumberOf(Turn(k[3])))
    BY <1>8, PathBranches, SessionRoutes DEF Addressable
  <2>. QED
    BY <1>1, <1>2, <1>8, <2>1 DEF ReadsBack, Addressable
<1>9. CASE k[1] = "projects"
  <2>1. routePath(PathOf(k, r)) = Routed("projects", k[2], k[2], 0)
    BY <1>9, PathBranches, PlainJoin, ProjectRoutes DEF Addressable, PlainProject
  <2>. QED
    BY <1>1, <1>2, <1>3, <1>9, <2>1 DEF ReadsBack, Addressable
<1>. QED
  BY <1>4, <1>5, <1>6, <1>7, <1>8, <1>9 DEF ListedTables, SessionTables

-----------------------------------------------------------------------------
(* Requests keep rows addressable.                                         *)

LEMMA UpsertKeepsAddressable ==
    ASSUME NEW d, IsDatabase(d), NEW q \in Request, NEW ver \in Int,
           AllAddressable(d), Addressable(KeyOf(q), OwnerOf(q))
    PROVE  AllAddressable(Upsert(d, q, ver))
<1>. DEFINE k == KeyOf(q)
            e == Upsert(d, q, ver)
<1>1. k \in Key /\ Upserted(d, q, ver) \in Row
  BY KeyOfType, UpsertType
<1>2. /\ DOMAIN e = DOMAIN d \union {k}
      /\ e[k] = Upserted(d, q, ver)
      /\ \A x \in DOMAIN d : x # k => e[x] = d[x]
  BY <1>1, PutType DEF Upsert
<1>3. Upserted(d, q, ver).owner = IF k \in DOMAIN d THEN d[k].owner ELSE OwnerOf(q)
  BY DEF Upserted
<1>4. Addressable(k, e[k].owner)
  BY <1>2, <1>3 DEF AllAddressable
<1>. HIDE DEF e, k
<1>. QED
  BY <1>2, <1>4 DEF AllAddressable, e

LEMMA InsertProjectKeepsAddressable ==
    ASSUME NEW d, IsDatabase(d), NEW slug \in Names,
           AllAddressable(d), PlainProject(slug)
    PROVE  AllAddressable(InsertProject(d, slug))
<1>. DEFINE k == <<"projects", slug, 0>>
            e == InsertProject(d, slug)
<1>1. DOMAIN e = DOMAIN d \union {k} /\ \A x \in DOMAIN d : e[x] = d[x]
  BY InsertProjectEffect
<1>2. "projects" \notin {"session_turns", "packs"} /\ "projects" \notin FolderTables
  BY DEF FolderTables, ChildTables, OwnedTables, DocTables
<1>3. \A o : Addressable(k, o)
  BY <1>2 DEF Addressable
<1>. HIDE DEF e, k
<1>. QED
  BY <1>1, <1>3 DEF AllAddressable, e

LEMMA AfterKeepsAddressable ==
    ASSUME NEW d, IsDatabase(d), NEW q \in Request, q.op # "read",
           AllAddressable(d), PlainRequest(q)
    PROVE  AllAddressable(After(d, q))
<1>. DEFINE e == Upsert(d, q, NewVersion(d, q))
<1>1. NewVersion(d, q) \in Int /\ q.proj \in Names
  BY VersionType DEF Request
<1>2. CASE q.op = "delete"
  <2>. DEFINE f == DeleteRows(d, DeleteTargets(d, q))
  <2>1. After(d, q) = f
    BY <1>2 DEF After
  <2>2. /\ DOMAIN f = DOMAIN d \ (DeleteTargets(d, q) \union Dependents(d, DeleteTargets(d, q)))
        /\ \A x \in DOMAIN f : f[x] = d[x]
    BY DeleteRowsType
  <2>. HIDE DEF f
  <2>. QED
    BY <2>1, <2>2 DEF AllAddressable
<1>3. CASE q.op = "write"
  <2>1. IsDatabase(e) /\ AllAddressable(e)
    BY <1>1, <1>3, UpsertType, UpsertKeepsAddressable DEF PlainRequest
  <2>2. EnsuresProject(q) => AllAddressable(InsertProject(e, q.proj))
    BY <1>1, <1>3, <2>1, InsertProjectKeepsAddressable DEF PlainRequest
  <2>. HIDE DEF e
  <2>3. After(d, q) = IF EnsuresProject(q) THEN InsertProject(e, q.proj) ELSE e
    BY <1>3 DEF After, e
  <2>. QED
    BY <2>1, <2>2, <2>3
<1>. QED
  BY <1>2, <1>3 DEF Request

=============================================================================
