---------------------------- MODULE Schema_proofs ----------------------------
(***************************************************************************)
(* What the statements of Schema return, keep and leave alone, for every   *)
(* database: the lemmas the proofs about the components rest on.           *)
(***************************************************************************)
EXTENDS Schema, TLAPS

-----------------------------------------------------------------------------
(* The statements keep a database well-typed.                              *)

\* The row a write addresses has a key of the schema.
LEMMA KeyOfType ==
    ASSUME NEW q \in Request
    PROVE  KeyOf(q) \in Key
<1>1. q.table \in Tables /\ q.id \in Names /\ q.turn \in Int /\ q.number \in Int
      /\ q.name \in Names
  BY DEF Request
<1>2. CASE q.table = "session_turns"
  BY <1>1, <1>2 DEF KeyOf, Key
<1>3. CASE q.table = "packs"
  <2>1. \/ KeyOf(q) = <<"packs", q.name, 0>>
        \/ KeyOf(q) = <<"kv_store", PacksPath, 0>>
    BY <1>3 DEF KeyOf
  <2>2. {"packs", "kv_store"} \subseteq Tables /\ PacksPath \in Names
    BY NamesAssumption DEF Tables
  <2>. QED
    BY <1>1, <2>1, <2>2 DEF Key
<1>4. CASE q.table \notin {"session_turns", "packs"}
  <2>1. KeyOf(q) = <<q.table, q.id, 0>>
    BY <1>4 DEF KeyOf
  <2>. QED
    BY <1>1, <2>1 DEF Key
<1>. QED
  BY <1>2, <1>3, <1>4

\* Put stores a row and keeps the others.
LEMMA PutType ==
    ASSUME NEW d, IsDatabase(d), NEW k \in Key, NEW r \in Row
    PROVE  /\ IsDatabase(Put(d, k, r))
           /\ DOMAIN Put(d, k, r) = DOMAIN d \union {k}
           /\ Put(d, k, r)[k] = r
           /\ \A x \in DOMAIN d : x # k => Put(d, k, r)[x] = d[x]
BY DEF Put, IsDatabase

LEMMA UpsertType ==
    ASSUME NEW d, IsDatabase(d), NEW q \in Request, NEW ver \in Int
    PROVE  Upserted(d, q, ver) \in Row /\ IsDatabase(Upsert(d, q, ver))
<1>1. KeyOf(q) \in Key
  BY KeyOfType
<1>2. OwnerOf(q) \in Names /\ q.body \in Bodies
  BY NamesAssumption DEF OwnerOf, Request
<1>3. KeyOf(q) \in DOMAIN d => d[KeyOf(q)].owner \in Names
  BY DEF IsDatabase, Row
<1>4. Upserted(d, q, ver) \in Row
  BY <1>2, <1>3 DEF Upserted, Row
<1>. QED
  BY <1>1, <1>4, PutType DEF Upsert

LEMMA InsertProjectType ==
    ASSUME NEW d, IsDatabase(d), NEW slug \in Names
    PROVE  IsDatabase(InsertProject(d, slug))
<1>1. <<"projects", slug, 0>> \in Key
  BY DEF Key, Tables, CasTables, SlugTables
<1>2. [ver |-> 1, owner |-> NoName, body |-> Blank] \in Row
  BY NamesAssumption DEF Row
<1>. QED
  BY <1>1, <1>2, PutType DEF InsertProject

LEMMA DeleteRowsType ==
    ASSUME NEW d, IsDatabase(d), NEW keys
    PROVE  /\ IsDatabase(DeleteRows(d, keys))
           /\ DOMAIN DeleteRows(d, keys)
                = DOMAIN d \ (keys \union Dependents(d, keys))
           /\ \A x \in DOMAIN DeleteRows(d, keys) : DeleteRows(d, keys)[x] = d[x]
BY DEF DeleteRows, Restrict, IsDatabase

\* Versions are integers, and so is the version a write answers with.
LEMMA VersionType ==
    ASSUME NEW d, IsDatabase(d), NEW q \in Request
    PROVE  NewVersion(d, q) \in Int
<1>1. \A k \in DOMAIN d : d[k].ver \in Int
  BY DEF IsDatabase, Row
<1>2. VersionAt(d, KeyOf(q)) \in Int
  BY <1>1 DEF VersionAt
<1>. QED
  BY <1>2 DEF NewVersion, Request

LEMMA ReadAnswerType ==
    ASSUME NEW d, IsDatabase(d), NEW q \in Request
    PROVE  ReadAnswer(d, q) \in [ver : Int, body : Bodies]
<1>1. \A k \in DOMAIN d : d[k].ver \in Int /\ d[k].body \in Bodies
  BY DEF IsDatabase, Row
<1>. QED
  BY <1>1, NamesAssumption DEF ReadAnswer

\* What an upsert leaves under its key, and that it leaves the rest alone.
LEMMA UpsertEffect ==
    ASSUME NEW d, IsDatabase(d), NEW q \in Request, NEW ver \in Int
    PROVE  /\ DOMAIN Upsert(d, q, ver) = DOMAIN d \union {KeyOf(q)}
           /\ Upsert(d, q, ver)[KeyOf(q)].body = q.body
           /\ KeyOf(q)[1] \notin UnversionedTables
                => Upsert(d, q, ver)[KeyOf(q)].ver = ver
           /\ \A x \in DOMAIN d : x # KeyOf(q) => Upsert(d, q, ver)[x] = d[x]
<1>1. KeyOf(q) \in Key /\ Upserted(d, q, ver) \in Row
  BY KeyOfType, UpsertType
<1>2. /\ Upserted(d, q, ver).body = q.body
      /\ KeyOf(q)[1] \notin UnversionedTables => Upserted(d, q, ver).ver = ver
  BY DEF Upserted
<1>3. /\ DOMAIN Upsert(d, q, ver) = DOMAIN d \union {KeyOf(q)}
      /\ Upsert(d, q, ver)[KeyOf(q)] = Upserted(d, q, ver)
      /\ \A x \in DOMAIN d : x # KeyOf(q) => Upsert(d, q, ver)[x] = d[x]
  BY <1>1, PutType DEF Upsert
<1>. QED
  BY <1>2, <1>3

LEMMA InsertProjectEffect ==
    ASSUME NEW d, IsDatabase(d), NEW slug \in Names
    PROVE  /\ DOMAIN InsertProject(d, slug)
                = DOMAIN d \union {<<"projects", slug, 0>>}
           /\ \A x \in DOMAIN d : InsertProject(d, slug)[x] = d[x]
<1>. DEFINE k == <<"projects", slug, 0>>
            r == [ver |-> 1, owner |-> NoName, body |-> Blank]
<1>1. k \in Key /\ r \in Row
  BY NamesAssumption DEF Key, Row, Tables, CasTables, SlugTables
<1>2. CASE k \in DOMAIN d
  BY <1>2 DEF InsertProject
<1>3. CASE k \notin DOMAIN d
  <2>1. InsertProject(d, slug) = Put(d, k, r)
    BY <1>3 DEF InsertProject
  <2>2. /\ DOMAIN Put(d, k, r) = DOMAIN d \union {k}
        /\ \A x \in DOMAIN d : x # k => Put(d, k, r)[x] = d[x]
    BY <1>1, PutType
  <2>. QED
    BY <1>3, <2>1, <2>2
<1>. QED
  BY <1>2, <1>3

-----------------------------------------------------------------------------
(* The statements keep the foreign keys.                                   *)

\* A row whose parents exist may be put.
LEMMA PutKeepsForeignKeys ==
    ASSUME NEW d, IsDatabase(d), ForeignKeys(d), NEW k \in Key, NEW r \in Row,
           References(k, r) \subseteq DOMAIN d
    PROVE  ForeignKeys(Put(d, k, r))
<1>. DEFINE e == Put(d, k, r)
<1>1. /\ DOMAIN e = DOMAIN d \union {k}
      /\ e[k] = r
      /\ \A x \in DOMAIN d : x # k => e[x] = d[x]
  BY PutType
<1>2. ASSUME NEW x \in DOMAIN e
      PROVE  References(x, e[x]) \subseteq DOMAIN e
  <2>1. CASE x = k
    BY <1>1, <2>1
  <2>2. CASE x # k
    <3>1. x \in DOMAIN d /\ e[x] = d[x]
      BY <1>1, <1>2, <2>2
    <3>. QED
      BY <1>1, <3>1 DEF ForeignKeys
  <2>. QED
    BY <2>1, <2>2
<1>. QED
  BY <1>2 DEF ForeignKeys

\* Only features, persons and turns have parents, and they are nobody's parent.
LEMMA ParentsHaveNoParents ==
    ASSUME NEW k, NEW r, NEW p \in References(k, r), NEW s
    PROVE  References(p, s) = {}
BY DEF References, ChildTables

\* One level of cascade is enough.
LEMMA DeleteKeepsForeignKeys ==
    ASSUME NEW d, IsDatabase(d), ForeignKeys(d), NEW keys
    PROVE  ForeignKeys(DeleteRows(d, keys))
<1>. DEFINE e == DeleteRows(d, keys)
<1>1. /\ DOMAIN e = DOMAIN d \ (keys \union Dependents(d, keys))
      /\ \A x \in DOMAIN e : e[x] = d[x]
  BY DeleteRowsType
<1>. SUFFICES ASSUME NEW x \in DOMAIN e, NEW p \in References(x, e[x])
              PROVE  p \in DOMAIN e
  BY DEF ForeignKeys
<1>2. p \in References(x, d[x]) /\ x \in DOMAIN d /\ x \notin Dependents(d, keys)
  BY <1>1
<1>3. p \in DOMAIN d
  BY <1>2 DEF ForeignKeys
<1>4. p \notin keys
  BY <1>2 DEF Dependents
<1>5. p \notin Dependents(d, keys)
  BY <1>2, ParentsHaveNoParents DEF Dependents
<1>. QED
  BY <1>1, <1>3, <1>4, <1>5

LEMMA UpsertKeepsForeignKeys ==
    ASSUME NEW d, IsDatabase(d), ForeignKeys(d),
           NEW q \in Request, NEW ver \in Int, Storable(d, q, ver)
    PROVE  ForeignKeys(Upsert(d, q, ver))
BY KeyOfType, UpsertType, PutKeepsForeignKeys DEF Upsert, Storable

LEMMA InsertProjectKeepsForeignKeys ==
    ASSUME NEW d, IsDatabase(d), ForeignKeys(d), NEW slug \in Names
    PROVE  ForeignKeys(InsertProject(d, slug))
<1>. DEFINE k == <<"projects", slug, 0>>
            r == [ver |-> 1, owner |-> NoName, body |-> Blank]
<1>1. k \in Key /\ r \in Row
  BY NamesAssumption DEF Key, Row, Tables, CasTables, SlugTables
<1>2. References(k, r) = {}
  BY DEF References, ChildTables
<1>. QED
  BY <1>1, <1>2, PutKeepsForeignKeys DEF InsertProject

-----------------------------------------------------------------------------
(* A whole request.                                                        *)

LEMMA AfterType ==
    ASSUME NEW d, IsDatabase(d), NEW q \in Request
    PROVE  IsDatabase(After(d, q))
<1>1. NewVersion(d, q) \in Int /\ q.proj \in Names
  BY VersionType DEF Request
<1>2. IsDatabase(Upsert(d, q, NewVersion(d, q)))
  BY <1>1, UpsertType
<1>3. IsDatabase(InsertProject(Upsert(d, q, NewVersion(d, q)), q.proj))
  BY <1>1, <1>2, InsertProjectType
<1>4. IsDatabase(DeleteRows(d, DeleteTargets(d, q)))
  BY DeleteRowsType
<1>. QED
  BY <1>2, <1>3, <1>4 DEF After

LEMMA AfterKeepsForeignKeys ==
    ASSUME NEW d, IsDatabase(d), ForeignKeys(d),
           NEW q \in Request, q.op # "read", Allowed(d, q)
    PROVE  ForeignKeys(After(d, q))
<1>. DEFINE e == Upsert(d, q, NewVersion(d, q))
<1>1. CASE q.op = "write"
  <2>1. NewVersion(d, q) \in Int /\ q.proj \in Names
    BY VersionType DEF Request
  <2>2. IsDatabase(e)
    BY <2>1, UpsertType
  <2>3. Storable(d, q, NewVersion(d, q))
    BY <1>1 DEF Allowed
  <2>4. ForeignKeys(e)
    BY <2>1, <2>3, UpsertKeepsForeignKeys
  <2>5. ForeignKeys(InsertProject(e, q.proj))
    BY <2>1, <2>2, <2>4, InsertProjectKeepsForeignKeys
  <2>. QED
    BY <1>1, <2>4, <2>5 DEF After
<1>2. CASE q.op = "delete"
  BY <1>2, DeleteKeepsForeignKeys DEF After
<1>. QED
  BY <1>1, <1>2 DEF Request

=============================================================================
