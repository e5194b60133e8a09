---------------------------- MODULE Import_proofs ----------------------------
(***************************************************************************)
(* What holds of Import for every tree of files, every order of the walk   *)
(* and every number of processes.                                          *)
(***************************************************************************)
EXTENDS Import, Schema_proofs

-----------------------------------------------------------------------------
(* One file of an import.                                                  *)

\* Database e has the rows of d as they are there.
Extends(e, d) ==
    DOMAIN d \subseteq DOMAIN e /\ \A k \in DOMAIN d : e[k] = d[k]

\* A path the walk meets.
IsWalked(p) == \E i \in 1 .. Len(WalkOrder) : p = WalkOrder[i]

LEMMA RoutedTable ==
    ASSUME NEW p
    PROVE  routePath(p).table \in Tables
<1>0. \A t, a, b, c : Routed(t, a, b, c).table = t
  BY DEF Routed
<1>1. HasFolder(p) => FolderTable(p) \in FolderTables
  BY DEF HasFolder, FolderTable
<1>2. FolderTables \subseteq Tables
  BY DEF FolderTables, Tables, CasTables
<1>3. {"packs", "stacks", "skills", "agents", "sessions", "session_turns",
       "projects", "wip_config", "kv_store"} \subseteq Tables
  BY DEF Tables, CasTables, SlugTables, LibraryTables, SessionTables
<1>4. \/ routePath(p).table \in
           {"packs", "stacks", "skills", "agents", "sessions",
            "session_turns", "projects", "wip_config", "kv_store"}
      \/ HasFolder(p) /\ routePath(p).table = FolderTable(p)
  BY <1>0 DEF routePath
<1>. QED
  BY <1>1, <1>2, <1>3, <1>4

LEMMA WalkedFacts ==
    ASSUME NEW p, IsWalked(p)
    PROVE  /\ Raw(p) \in Names
           /\ routePath(p).id \in Names
           /\ routePath(p).proj \in Names
           /\ routePath(p).turn \in Nat
           /\ routePath(p).table \in Tables
           /\ routePath(p).table \in ChildTables => routePath(p).proj # NoName
BY ImportAssumption, RoutedTable DEF IsWalked

LEMMA ImportOwnerType ==
    ASSUME NEW p, IsWalked(p), NEW f \in Markdown
    PROVE  ImportOwner(routePath(p), f) \in Names
BY WalkedFacts, NamesAssumption DEF ImportOwner, Markdown

LEMMA ImportKeyType ==
    ASSUME NEW p, IsWalked(p), NEW f \in Markdown
    PROVE  ImportKey(p, f) \in Key
<1>. DEFINE r == routePath(p)
<1>1. /\ r.table \in Tables /\ r.id \in Names /\ Raw(p) \in Names
      /\ r.turn \in Int /\ f.number \in Int /\ "kv_store" \in Tables
  BY WalkedFacts DEF Markdown, Tables
<1>2. \/ ImportKey(p, f) = <<"kv_store", Raw(p), 0>>
      \/ ImportKey(p, f) = <<r.table, r.id, f.number>>
      \/ ImportKey(p, f) = <<r.table, r.id, r.turn>>
      \/ ImportKey(p, f) = <<r.table, r.id, 0>>
  BY DEF ImportKey
<1>. HIDE DEF r
<1>. QED
  BY <1>1, <1>2 DEF Key

LEMMA ImportRowType ==
    ASSUME NEW p, IsWalked(p), NEW f \in Markdown
    PROVE  ImportRow(p, f) \in Row
<1>1. f.ver \in Int /\ f.body \in Bodies /\ ImportOwner(routePath(p), f) \in Names
  BY ImportOwnerType DEF Markdown
<1>. QED
  BY <1>1 DEF ImportRow, Row

LEMMA WithProjectEffect ==
    ASSUME NEW d, IsDatabase(d), NEW p, IsWalked(p), NEW f \in Markdown
    PROVE  /\ IsDatabase(WithProject(d, p, f))
           /\ Extends(WithProject(d, p, f), d)
           /\ ForeignKeys(d) => ForeignKeys(WithProject(d, p, f))
<1>. DEFINE o == ImportOwner(routePath(p), f)
<1>1. o \in Names
  BY ImportOwnerType
<1>2. WithProject(d, p, f) = d \/ WithProject(d, p, f) = InsertProject(d, o)
  BY DEF WithProject, NeedsProject
<1>3. /\ IsDatabase(InsertProject(d, o))
      /\ DOMAIN d \subseteq DOMAIN InsertProject(d, o)
      /\ \A x \in DOMAIN d : InsertProject(d, o)[x] = d[x]
  BY <1>1, InsertProjectType, InsertProjectEffect
<1>4. ForeignKeys(d) => ForeignKeys(InsertProject(d, o))
  BY <1>1, InsertProjectKeepsForeignKeys
<1>. HIDE DEF o
<1>. QED
  BY <1>2, <1>3, <1>4 DEF Extends

LEMMA InsertOrIgnoreEffect ==
    ASSUME NEW d, IsDatabase(d), NEW k \in Key, NEW r \in Row
    PROVE  /\ IsDatabase(InsertOrIgnore(d, k, r))
           /\ Extends(InsertOrIgnore(d, k, r), d)
           /\ ForeignKeys(d) => ForeignKeys(InsertOrIgnore(d, k, r))
           /\ References(k, r) \subseteq DOMAIN d
                => k \in DOMAIN InsertOrIgnore(d, k, r)
<1>1. CASE k \in DOMAIN d \/ ~(References(k, r) \subseteq DOMAIN d)
  BY <1>1 DEF InsertOrIgnore, Extends
<1>2. CASE k \notin DOMAIN d /\ References(k, r) \subseteq DOMAIN d
  <2>1. InsertOrIgnore(d, k, r) = Put(d, k, r)
    BY <1>2 DEF InsertOrIgnore
  <2>2. /\ IsDatabase(Put(d, k, r))
        /\ DOMAIN Put(d, k, r) = DOMAIN d \union {k}
        /\ \A x \in DOMAIN d : x # k => Put(d, k, r)[x] = d[x]
    BY PutType
  <2>3. ForeignKeys(d) => ForeignKeys(Put(d, k, r))
    BY <1>2, PutKeepsForeignKeys
  <2>. QED
    BY <1>2, <2>1, <2>2, <2>3 DEF Extends
<1>. QED
  BY <1>1, <1>2

\* An imported file adds its row, or nothing, and leaves no row without its
\* parent.
LEMMA ImportFileEffect ==
    ASSUME NEW d, IsDatabase(d), NEW p, IsWalked(p), NEW f \in Markdown
    PROVE  /\ IsDatabase(ImportFile(d, p, f))
           /\ Extends(ImportFile(d, p, f), d)
           /\ ForeignKeys(d) => ForeignKeys(ImportFile(d, p, f))
<1>. DEFINE e == WithProject(d, p, f)
            g == InsertOrIgnore(e, ImportKey(p, f), ImportRow(p, f))
<1>1. IsDatabase(e) /\ Extends(e, d) /\ (ForeignKeys(d) => ForeignKeys(e))
  BY WithProjectEffect
<1>2. ImportKey(p, f) \in Key /\ ImportRow(p, f) \in Row
  BY ImportKeyType, ImportRowType
<1>. HIDE DEF e
<1>3. IsDatabase(g) /\ Extends(g, e) /\ (ForeignKeys(e) => ForeignKeys(g))
  BY <1>1, <1>2, InsertOrIgnoreEffect
<1>4. ImportFile(d, p, f) = g \/ ImportFile(d, p, f) = d
  BY DEF ImportFile, e
<1>. HIDE DEF g
<1>. QED
  BY <1>1, <1>3, <1>4 DEF Extends

\* So does a place of the walk.
LEMMA WalkStepEffect ==
    ASSUME NEW d, IsDatabase(d), NEW tree, tree \in [DOMAIN tree -> Markdown],
           NEW n \in 1 .. Len(WalkOrder)
    PROVE  /\ IsDatabase(WalkStep(d, tree, n))
           /\ Extends(WalkStep(d, tree, n), d)
           /\ ForeignKeys(d) => ForeignKeys(WalkStep(d, tree, n))
<1>. DEFINE p == WalkOrder[n]
<1>1. IsWalked(p)
  BY DEF IsWalked
<1>2. WalkStep(d, tree, n) = IF p \in DOMAIN tree THEN ImportFile(d, p, tree[p]) ELSE d
  BY DEF WalkStep
<1>. HIDE DEF p
<1>3. CASE p \in DOMAIN tree
  <2>1. tree[p] \in Markdown
    BY <1>3
  <2>. QED
    BY <1>1, <1>2, <1>3, <2>1, ImportFileEffect
<1>4. CASE p \notin DOMAIN tree
  BY <1>2, <1>4 DEF Extends
<1>. QED
  BY <1>3, <1>4

-----------------------------------------------------------------------------
(* The rows and files of an export.                                        *)

LEMMA ExportedType ==
    ASSUME NEW d, IsDatabase(d), NEW table
    PROVE  /\ IsDatabase(Exported(d, table))
           /\ \A k \in DOMAIN Exported(d, table) :
                k \in DOMAIN d /\ k[1] = table /\ Exported(d, table)[k] = d[k]
BY DEF Exported, Restrict, IsDatabase

LEMMA LeftType ==
    ASSUME NEW d, IsDatabase(d), NEW S
    PROVE  /\ IsDatabase(Restrict(d, DOMAIN d \ S))
           /\ DOMAIN Restrict(d, DOMAIN d \ S) = DOMAIN d \ S
           /\ \A k \in DOMAIN d \ S : Restrict(d, DOMAIN d \ S)[k] = d[k]
BY DEF Restrict, IsDatabase

LEMMA CutType == Cut \in Markdown
BY NamesAssumption DEF Cut, Markdown

LEMMA FileType ==
    ASSUME NEW d, IsDatabase(d), NEW k \in DOMAIN d
    PROVE  /\ ExportFile(k, d[k]) \in Markdown
           /\ Torn(ExportFile(k, d[k])) \subseteq Markdown
<1>1. d[k].body \in Bodies
  BY DEF IsDatabase, Row
<1>2. ExportFile(k, d[k]) \in Markdown
  BY <1>1, ImportAssumption, NamesAssumption DEF ExportFile, Markdown
<1>. QED
  BY <1>2, CutType, NamesAssumption DEF Torn, Markdown

LEMMA PutFile ==
    ASSUME NEW tree, tree \in [DOMAIN tree -> Markdown], NEW path,
           NEW f \in Markdown
    PROVE  Put(tree, path, f) \in [DOMAIN Put(tree, path, f) -> Markdown]
BY DEF Put

-----------------------------------------------------------------------------
(* Types.                                                                  *)

LEMMA EmptyType == IsDatabase(Empty) /\ ForeignKeys(Empty) /\ DOMAIN Empty = {}
BY DEF IsDatabase, ForeignKeys, Empty

LEMMA InitTyped == Init => TypeOK
BY EmptyType, CutType, ImportAssumption DEF Init, TypeOK

\* The file a walk is at.
LEMMA WalkedNow ==
    ASSUME TypeOK, NEW p \in Processes, at[p] <= Len(WalkOrder)
    PROVE  IsWalked(WalkOrder[at[p]])
<1>1. at[p] \in 1 .. Len(WalkOrder)
  BY ImportAssumption DEF TypeOK
<1>. QED
  BY <1>1 DEF IsWalked

\* A lock taken with a database that is one.
LEMMA LockTyped ==
    ASSUME TypeOK, NEW p \in Processes, NEW d, IsDatabase(d), Lock(p, d),
           pc[p] \in {"wait", "late"}
    PROVE  TypeOK'
BY CutType, ImportAssumption DEF Lock, Goto, exportVars, TypeOK

\* A step of an export to the next row or table.
LEMMA ContinueTyped ==
    ASSUME TypeOK, NEW p \in Processes, pc[p] \in {"export", "rows"},
           NEW left, IsDatabase(left), Continue(p, left),
           cut'[p] = {}, \A q \in Processes \ {p} : cut'[q] = cut[q],
           cut' \in [Processes -> SUBSET Key],
           files' \in [DOMAIN files' -> Markdown],
           fresh' \subseteq fresh,
           UNCHANGED <<db, importVars, starts>>
    PROVE  TypeOK'
<1>1. /\ DOMAIN rows' = Processes
      /\ rows'[p] = left /\ \A q \in Processes \ {p} : rows'[q] = rows[q]
  BY DEF Continue, TypeOK
<1>2. /\ pc' \in [Processes -> {"down", "guard", "begin", "wait", "late", "walk",
                                "serving", "export", "rows"}]
      /\ pc'[p] = (IF DOMAIN left = {} THEN "export" ELSE "rows")
      /\ \A q \in Processes \ {p} : pc'[q] = pc[q]
      /\ at' \in [Processes -> Nat \ {0}]
      /\ \A q \in Processes \ {p} : at'[q] = at[q]
  <2>0. /\ pc \in [Processes -> {"down", "guard", "begin", "wait", "late", "walk",
                                "serving", "export", "rows"}]
        /\ at \in [Processes -> Nat \ {0}]
    BY DEF TypeOK
  <2>1. CASE DOMAIN left = {}
    <3>1. pc' = [pc EXCEPT ![p] = "export"] /\ at' = [at EXCEPT ![p] = @ + 1]
      BY <2>1 DEF Continue, Goto
    <3>. QED
      BY <2>0, <2>1, <3>1
  <2>2. CASE DOMAIN left # {}
    <3>1. pc' = [pc EXCEPT ![p] = "rows"] /\ at' = at
      BY <2>2 DEF Continue, Goto
    <3>. QED
      BY <2>0, <2>2, <3>1
  <2>. QED
    BY <2>1, <2>2
<1>3. \A q \in Processes : writer' = q <=> pc'[q] = "walk"
  BY <1>2 DEF TypeOK, importVars
<1>4. \A q \in Processes :
        /\ IsDatabase(rows'[q]) /\ cut'[q] \subseteq DOMAIN rows'[q]
        /\ DOMAIN rows'[q] # {} <=> pc'[q] = "rows"
  <2>. TAKE q \in Processes
  <2>1. CASE q = p
    BY <1>1, <1>2, <2>1
  <2>2. CASE q # p
    BY <1>1, <1>2, <2>2 DEF TypeOK
  <2>. QED
    BY <2>1, <2>2
<1>5. fresh' \subseteq {q \in Processes : pc'[q] \in {"export", "rows"}}
  BY <1>2 DEF TypeOK
<1>6. \A q \in Processes : pc'[q] \in {"wait", "late"} => at'[q] <= Len(WalkOrder)
  BY <1>2 DEF TypeOK
<1>. QED
  BY <1>1, <1>2, <1>3, <1>4, <1>5, <1>6 DEF TypeOK, importVars

\* The row whose write is over, one way or another.
LEMMA WrittenTyped ==
    ASSUME TypeOK, NEW p \in Processes, pc[p] = "rows", NEW k, Written(p, k),
           files' \in [DOMAIN files' -> Markdown],
           fresh' \subseteq fresh
    PROVE  TypeOK'
<1>1. IsDatabase(rows[p]) /\ cut \in [Processes -> SUBSET Key]
  BY DEF TypeOK
<1>2. IsDatabase(Restrict(rows[p], DOMAIN rows[p] \ {k}))
  BY <1>1, LeftType
<1>3. /\ cut'[p] = {} /\ \A q \in Processes \ {p} : cut'[q] = cut[q]
      /\ cut' \in [Processes -> SUBSET Key]
  BY <1>1 DEF Written
<1>. QED
  BY <1>2, <1>3, ContinueTyped DEF Written

LEMMA NextTyped == TypeOK /\ [Next]_vars => TypeOK'
<1>. SUFFICES ASSUME TypeOK, [Next]_vars PROVE TypeOK'
  OBVIOUS
<1>. USE DEF Goto, importVars, exportVars
<1>0. \A p \in Processes : \A k \in DOMAIN rows[p] :
        FileOf(p, k) \in Markdown /\ Torn(FileOf(p, k)) \subseteq Markdown
  BY FileType DEF TypeOK, FileOf
<1>1. ASSUME NEW p \in Processes, Start(p) PROVE TypeOK'
  BY <1>1, ImportAssumption DEF Start, TypeOK
<1>2. ASSUME NEW p \in Processes, Guard(p) PROVE TypeOK'
  BY <1>2 DEF Guard, TypeOK
<1>3. ASSUME NEW p \in Processes, Read(p) PROVE TypeOK'
  <2>1. CASE /\ text' = [text EXCEPT ![p] = files[WalkOrder[at[p]]]]
             /\ WalkOrder[at[p]] \in DOMAIN files
             /\ Goto(p, "wait")
             /\ UNCHANGED at
    BY <1>3, <2>1 DEF Read, TypeOK
  <2>2. CASE /\ at' = [at EXCEPT ![p] = @ + 1]
             /\ UNCHANGED <<pc, text>>
    BY <1>3, <2>2 DEF Read, TypeOK
  <2>. QED
    BY <1>3, <2>1, <2>2 DEF Read
<1>4. ASSUME NEW p \in Processes, Begin(p) PROVE TypeOK'
  <2>1. IsWalked(WalkOrder[at[p]])
    BY <1>4, WalkedNow DEF Begin, TypeOK
  <2>2. IsDatabase(ImportFile(db, WalkOrder[at[p]], text[p]))
    BY <2>1, ImportFileEffect DEF TypeOK
  <2>. QED
    BY <1>4, <2>2, LockTyped DEF Begin
<1>5. ASSUME NEW p \in Processes, BeginLate(p) PROVE TypeOK'
  <2>. DEFINE w == WalkOrder[at[p]]
  <2>1. IsWalked(w)
    BY <1>5, WalkedNow DEF BeginLate, TypeOK
  <2>2. text[p] \in Markdown /\ IsDatabase(db)
    BY DEF TypeOK
  <2>3. ImportKey(w, text[p]) \in Key /\ ImportRow(w, text[p]) \in Row
    BY <2>1, <2>2, ImportKeyType, ImportRowType
  <2>4. IsDatabase(InsertOrIgnore(db, ImportKey(w, text[p]), ImportRow(w, text[p])))
    BY <2>2, <2>3, InsertOrIgnoreEffect
  <2>. QED
    BY <1>5, <2>4, LockTyped DEF BeginLate
<1>6. ASSUME NEW p \in Processes, TimeOut(p) PROVE TypeOK'
  <2>1. CASE pc[p] = "wait" /\ Goto(p, "late") /\ UNCHANGED <<at, text>>
    BY <1>6, <2>1 DEF TimeOut, TypeOK
  <2>2. CASE /\ pc[p] \in {"wait", "late"} /\ Goto(p, "begin")
             /\ at' = [at EXCEPT ![p] = @ + 1]
             /\ text' = [text EXCEPT ![p] = Cut]
    BY <1>6, <2>2, CutType DEF TimeOut, TypeOK
  <2>. QED
    BY <1>6, <2>1, <2>2 DEF TimeOut
<1>7. ASSUME NEW p \in Processes, GiveUp(p) PROVE TypeOK'
  BY <1>7 DEF GiveUp, TypeOK
<1>8. ASSUME NEW p \in Processes, Walk(p) PROVE TypeOK'
  <2>1. at[p] \in 1 .. Len(WalkOrder)
    BY <1>8, ImportAssumption DEF Walk, TypeOK
  <2>2. IsDatabase(tx')
    BY <1>8, <2>1, WalkStepEffect DEF Walk, TypeOK
  <2>. QED
    BY <1>8, <2>2 DEF Walk, TypeOK
<1>9. ASSUME NEW p \in Processes, Commit(p) PROVE TypeOK'
  BY <1>9, EmptyType, ImportAssumption DEF Commit, Release, TypeOK
<1>10. ASSUME NEW p \in Processes, Handle(p) PROVE TypeOK'
  <2>1. PICK q \in Requests : db' = After(db, q)
    BY <1>10 DEF Handle
  <2>2. q \in Request /\ IsDatabase(db)
    BY ImportAssumption DEF TypeOK
  <2>3. IsDatabase(db')
    BY <2>1, <2>2, AfterType
  <2>. QED
    BY <1>10, <2>3 DEF Handle, TypeOK
<1>11. ASSUME NEW p \in Processes, Export(p) PROVE TypeOK'
  BY <1>11 DEF Export, TypeOK
<1>12. ASSUME NEW p \in Processes, Select(p) PROVE TypeOK'
  <2>1. PICK left : left \in {Exported(db, ExportTables[at[p]]), Empty} /\ Continue(p, left)
    BY <1>12 DEF Select
  <2>2. IsDatabase(left)
    BY <2>1, ExportedType, EmptyType DEF TypeOK
  <2>3. cut' = cut /\ files' = files /\ fresh' \subseteq fresh /\ pc[p] = "export"
    BY <1>12 DEF Select
  <2>4. cut[p] = {} /\ cut \in [Processes -> SUBSET Key]
    BY <2>3 DEF TypeOK
  <2>5. UNCHANGED <<db, importVars, starts>> /\ files' \in [DOMAIN files' -> Markdown]
    BY <1>12, <2>3 DEF Select, TypeOK
  <2>. QED
    BY <2>1, <2>2, <2>3, <2>4, <2>5, ContinueTyped
<1>13. ASSUME NEW p \in Processes, Open(p) PROVE TypeOK'
  <2>1. PICK k \in DOMAIN rows[p] : WriteTo(p, k, Cut) /\ cut' = [cut EXCEPT ![p] = {k}]
    BY <1>13 DEF Open
  <2>2. files' \in [DOMAIN files' -> Markdown]
    BY <2>1, CutType, PutFile DEF WriteTo, TypeOK
  <2>3. k \in Key
    BY DEF TypeOK, IsDatabase
  <2>4. /\ cut' \in [Processes -> SUBSET Key]
        /\ \A q \in Processes : cut'[q] \subseteq DOMAIN rows[q]
    BY <2>1, <2>3 DEF TypeOK
  <2>5. fresh' \subseteq fresh
    BY <1>13 DEF Open, Keep
  <2>. QED
    BY <1>13, <2>2, <2>4, <2>5 DEF Open, TypeOK
<1>14. ASSUME NEW p \in Processes, Fill(p) \/ FailWrite(p) PROVE TypeOK'
  <2>1. PICK k \in DOMAIN rows[p] :
          /\ \/ files' = files
             \/ \E f \in {FileOf(p, k)} \union Torn(FileOf(p, k)) : WriteTo(p, k, f)
          /\ fresh' \subseteq fresh
          /\ Written(p, k)
    BY <1>14 DEF Fill, FailWrite, Keep, TypeOK
  <2>2. files' \in [DOMAIN files' -> Markdown]
    BY <1>0, <2>1, PutFile DEF WriteTo, TypeOK
  <2>3. pc[p] = "rows"
    BY <1>14 DEF Fill, FailWrite
  <2>. QED
    BY <2>1, <2>2, <2>3, WrittenTyped
<1>15. ASSUME NEW p \in Processes, EndExport(p) PROVE TypeOK'
  BY <1>15 DEF EndExport, TypeOK
<1>16. ASSUME NEW p \in Processes, Stop(p) PROVE TypeOK'
  <2>1. /\ rows' = [rows EXCEPT ![p] = Empty] /\ cut' = [cut EXCEPT ![p] = {}]
        /\ pc' = [pc EXCEPT ![p] = "down"] /\ text' = [text EXCEPT ![p] = Cut]
        /\ at' = [at EXCEPT ![p] = 1] /\ fresh' \subseteq fresh \ {p}
        /\ UNCHANGED <<db, files, starts>>
    BY <1>16 DEF Stop, Release
  <2>2. /\ DOMAIN rows' = Processes /\ cut' \in [Processes -> SUBSET Key]
        /\ \A q \in Processes :
             /\ IsDatabase(rows'[q]) /\ cut'[q] \subseteq DOMAIN rows'[q]
             /\ DOMAIN rows'[q] # {} <=> pc'[q] = "rows"
    BY <2>1, EmptyType DEF TypeOK
  <2>3. /\ pc' \in [Processes -> {"down", "guard", "begin", "wait", "late", "walk",
                                  "serving", "export", "rows"}]
        /\ at' \in [Processes -> Nat \ {0}]
        /\ \A q \in Processes : pc'[q] \in {"wait", "late"} => at'[q] <= Len(WalkOrder)
        /\ text' \in [Processes -> Markdown]
        /\ fresh' \subseteq {q \in Processes : pc'[q] \in {"export", "rows"}}
    BY <2>1, CutType DEF TypeOK
  <2>4. /\ IsDatabase(tx') /\ writer' \in Processes \union {NoProcess}
        /\ \A q \in Processes : writer' = q <=> pc'[q] = "walk"
    BY <1>16, <2>1, EmptyType, ImportAssumption DEF Stop, Release, TypeOK
  <2>. QED
    BY <2>1, <2>2, <2>3, <2>4 DEF TypeOK
<1>17. CASE UNCHANGED vars
  BY <1>17 DEF vars, TypeOK
<1>. QED
  BY <1>1, <1>2, <1>3, <1>4, <1>5, <1>6, <1>7, <1>8, <1>9, <1>10, <1>11,
     <1>12, <1>13, <1>14, <1>15, <1>16, <1>17
     DEF Next, Import, ExportStep

\* The database, the open transaction and the files stay well-typed.
THEOREM TypeCorrect == Spec => []TypeOK
BY InitTyped, NextTyped, PTL DEF Spec

-----------------------------------------------------------------------------
(* Foreign keys and the rows of others.                                    *)

\* An open transaction only adds to a database nobody else can change.
Snapshot ==
    /\ ForeignKeys(db)
    /\ ForeignKeys(tx)
    /\ writer # NoProcess => Extends(tx, db)

LEMMA NextSnapshot == TypeOK /\ Snapshot /\ [Next]_vars => Snapshot'
<1>. SUFFICES ASSUME TypeOK, Snapshot, [Next]_vars PROVE Snapshot'
  OBVIOUS
<1>. USE DEF importVars
<1>1. CASE UNCHANGED <<db, tx, writer>>
  BY <1>1 DEF Snapshot, Extends
<1>2. ASSUME NEW p \in Processes, Begin(p) PROVE Snapshot'
  <2>. DEFINE e == ImportFile(db, WalkOrder[at[p]], text[p])
  <2>1. IsWalked(WalkOrder[at[p]]) /\ text[p] \in Markdown /\ IsDatabase(db)
    BY <1>2, WalkedNow DEF Begin, TypeOK
  <2>2. Extends(e, db) /\ ForeignKeys(e)
    BY <2>1, ImportFileEffect DEF Snapshot
  <2>3. db' = db /\ tx' = e
    BY <1>2 DEF Begin, Lock
  <2>. QED
    BY <2>2, <2>3 DEF Snapshot, Extends
<1>3. ASSUME NEW p \in Processes, BeginLate(p) PROVE Snapshot'
  <2>. DEFINE w == WalkOrder[at[p]]
              e == InsertOrIgnore(db, ImportKey(w, text[p]), ImportRow(w, text[p]))
  <2>1. IsWalked(w) /\ text[p] \in Markdown /\ IsDatabase(db)
    BY <1>3, WalkedNow DEF BeginLate, TypeOK
  <2>2. ImportKey(w, text[p]) \in Key /\ ImportRow(w, text[p]) \in Row
    BY <2>1, ImportKeyType, ImportRowType
  <2>3. Extends(e, db) /\ ForeignKeys(e)
    BY <2>1, <2>2, InsertOrIgnoreEffect DEF Snapshot
  <2>4. db' = db /\ tx' = e
    BY <1>3 DEF BeginLate, Lock
  <2>. QED
    BY <2>3, <2>4 DEF Snapshot, Extends
<1>4. ASSUME NEW p \in Processes, Walk(p) PROVE Snapshot'
  <2>1. at[p] \in 1 .. Len(WalkOrder)
    BY <1>4, ImportAssumption DEF Walk, TypeOK
  <2>2. Extends(tx', tx) /\ ForeignKeys(tx')
    BY <1>4, <2>1, WalkStepEffect DEF Walk, TypeOK, Snapshot
  <2>. QED
    BY <1>4, <2>2 DEF Walk, Snapshot, Extends
<1>5. ASSUME NEW p \in Processes, Commit(p) PROVE Snapshot'
  BY <1>5, EmptyType DEF Commit, Release, Snapshot
<1>6. ASSUME NEW p \in Processes, Handle(p) PROVE Snapshot'
  <2>1. PICK q \in Requests : Allowed(db, q) /\ db' = After(db, q)
    BY <1>6 DEF Handle
  <2>2. q \in Request /\ q.op # "read" /\ IsDatabase(db) /\ ForeignKeys(db)
    BY ImportAssumption DEF TypeOK, Snapshot
  <2>3. ForeignKeys(db')
    BY <2>1, <2>2, AfterKeepsForeignKeys
  <2>. QED
    BY <1>6, <2>3 DEF Handle, Snapshot
<1>7. ASSUME NEW p \in Processes, Stop(p) PROVE Snapshot'
  <2>1. CASE writer = p
    BY <1>7, <2>1, EmptyType DEF Stop, Release, Snapshot
  <2>2. CASE writer # p
    BY <1>7, <2>2, <1>1 DEF Stop
  <2>. QED
    BY <2>1, <2>2
<1>8. ASSUME NEW p \in Processes,
             \/ Start(p) \/ Guard(p) \/ Read(p) \/ TimeOut(p) \/ GiveUp(p)
             \/ ExportStep(p)
      PROVE  Snapshot'
  BY <1>1, <1>8 DEF Start, Guard, Read, TimeOut, GiveUp, ExportStep, Export, Select,
                    Open, Fill, FailWrite, Written, EndExport
<1>. QED
  BY <1>1, <1>2, <1>3, <1>4, <1>5, <1>6, <1>7, <1>8 DEF Next, Import, vars

LEMMA InitSnapshot == Init => Snapshot
BY EmptyType DEF Init, Snapshot

\* A transaction sees every row there was when it took the lock, as it was: no
\* other writer gets in before it commits (migrate_data.go:35).
THEOREM SnapshotHolds == Spec => []Snapshot
BY InitSnapshot, NextSnapshot, TypeCorrect, PTL DEF Spec

\* Whatever the files say, in whatever order they come (migrate_data.go:44),
\* no row of the database lacks its parent.
THEOREM ImportKeepsForeignKeys == Spec => []ForeignKeysHold
<1>1. Snapshot => ForeignKeysHold
  BY DEF Snapshot, ForeignKeysHold
<1>. QED
  BY <1>1, SnapshotHolds, PTL

\* No import takes away or replaces what another wrote before it took the lock
\* of the database (migrate_data.go:25 to :35), with any number of processes.
THEOREM ImportsKeepRows == Spec => ImportKeepsRows
<1>1. ASSUME TypeOK, Snapshot, [Next]_vars,
             NEW p \in Processes, pc[p] = "walk", pc'[p] = "serving"
      PROVE  Extends(db', db)
  <2>1. writer = p /\ writer # NoProcess
    BY <1>1, ImportAssumption DEF TypeOK
  <2>2. ~\E q \in Processes : Handle(q)
    BY <2>1 DEF Handle
  <2>3. db' = tx \/ db' = db
    BY <1>1, <2>2 DEF Next, Import, ExportStep, vars, Start, Guard, Read, Begin, BeginLate,
                      Lock, TimeOut, GiveUp, Walk, Commit, Export, Select, Open, Fill,
                      FailWrite, Written, EndExport, Stop
  <2>. QED
    BY <1>1, <2>1, <2>3 DEF Snapshot, Extends
<1>2. TypeOK /\ Snapshot /\ [Next]_vars =>
        [\A p \in Processes : pc[p] = "walk" /\ pc'[p] = "serving" =>
            \A k \in DOMAIN db : k \in DOMAIN db' /\ db'[k] = db[k]]_vars
  BY <1>1 DEF Extends
<1>. QED
  BY <1>2, TypeCorrect, SnapshotHolds, PTL DEF Spec, ImportKeepsRows

-----------------------------------------------------------------------------
(* What an import skips.                                                   *)

\* The project of a child is there before the child is.
LEMMA ProjectFirst ==
    ASSUME NEW d, IsDatabase(d), NEW p, IsWalked(p), NEW f \in Markdown,
           routePath(p).table \in ChildTables
    PROVE  <<"projects", ImportOwner(routePath(p), f), 0>>
               \in DOMAIN WithProject(d, p, f)
<1>. DEFINE o == ImportOwner(routePath(p), f)
<1>1. o # NoName
  BY WalkedFacts DEF ImportOwner
<1>2. o \in Names
  BY ImportOwnerType
<1>3. WithProject(d, p, f) = InsertProject(d, o)
  BY <1>1 DEF WithProject, NeedsProject
<1>4. DOMAIN InsertProject(d, o) = DOMAIN d \union {<<"projects", o, 0>>}
  BY <1>2, InsertProjectEffect
<1>. QED
  BY <1>3, <1>4

LEMMA FileFindsRow ==
    ASSUME NEW d, IsDatabase(d), NEW p, IsWalked(p), NEW f \in Markdown, f.good
    PROVE  \/ ImportKey(p, f) \in DOMAIN ImportFile(d, p, f)
           \/ /\ ImportKey(p, f)[1] = "session_turns"
              /\ <<"sessions", ImportKey(p, f)[2], 0>> \notin DOMAIN d
<1>. DEFINE k == ImportKey(p, f)
            r == ImportRow(p, f)
            e == WithProject(d, p, f)
<1>1. k \in Key /\ r \in Row /\ IsDatabase(e) /\ Extends(e, d)
  BY ImportKeyType, ImportRowType, WithProjectEffect
<1>2. r.owner = ImportOwner(routePath(p), f)
  BY DEF ImportRow
<1>3. k[1] \in {"kv_store", routePath(p).table}
  BY DEF ImportKey
<1>4. routePath(p).table \in ChildTables
        => <<"projects", ImportOwner(routePath(p), f), 0>> \in DOMAIN e
  BY ProjectFirst
<1>5. ImportFile(d, p, f) = InsertOrIgnore(e, k, r)
  BY DEF ImportFile
<1>. HIDE DEF k, r, e
<1>6. CASE k[1] \in ChildTables
  <2>1. k[1] = routePath(p).table
    BY <1>3, <1>6 DEF ChildTables
  <2>2. References(k, r) \subseteq DOMAIN e
    BY <1>2, <1>4, <1>6, <2>1 DEF References
  <2>. QED
    BY <1>1, <1>5, <2>2, InsertOrIgnoreEffect DEF k
<1>7. CASE k[1] = "session_turns" /\ <<"sessions", k[2], 0>> \in DOMAIN d
  <2>1. References(k, r) \subseteq DOMAIN e
    BY <1>1, <1>7 DEF References, ChildTables, Extends
  <2>. QED
    BY <1>1, <1>5, <2>1, InsertOrIgnoreEffect DEF k
<1>8. CASE k[1] \notin ChildTables /\ k[1] # "session_turns"
  <2>1. References(k, r) \subseteq DOMAIN e
    BY <1>8 DEF References
  <2>. QED
    BY <1>1, <1>5, <2>1, InsertOrIgnoreEffect DEF k
<1>. QED
  BY <1>6, <1>7, <1>8 DEF k

\* A row whose parents are there, or which is there, is there afterwards.
LEMMA RowGoesIn ==
    ASSUME NEW d, NEW k, NEW r
    PROVE  \/ k \in DOMAIN InsertOrIgnore(d, k, r)
           \/ ~(References(k, r) \subseteq DOMAIN d)
BY DEF InsertOrIgnore, Put

\* A way into a row of a transaction, at the place the process was at.
LEMMA StepsOfAWalk ==
    ASSUME TypeOK, [Next]_vars, NEW p \in Processes,
           pc[p] \in {"wait", "late", "walk"}, pc'[p] = "walk", at'[p] = at[p] + 1
    PROVE  Begin(p) \/ BeginLate(p) \/ Walk(p)
<1>1. /\ at[p] \in Nat \ {0} /\ at'[p] \notin {at[p], 1}
      /\ at \in [Processes -> Nat \ {0}]
      /\ pc \in [Processes -> {"down", "guard", "begin", "wait", "late", "walk",
                              "serving", "export", "rows"}]
  BY DEF TypeOK
<1>2. \A q \in Processes \ {p} :
        Begin(q) \/ BeginLate(q) \/ Walk(q) => at'[p] = at[p]
  BY <1>1 DEF Begin, BeginLate, Lock, Walk
<1>3. \A q \in Processes : ~(Start(q) \/ Guard(q) \/ Handle(q) \/ Export(q) \/ Open(q))
  BY <1>1 DEF Start, Guard, Handle, Export, Open
<1>4. \A q \in Processes :
        ~(Read(q) \/ TimeOut(q) \/ GiveUp(q) \/ Commit(q) \/ EndExport(q) \/ Stop(q))
  BY <1>1 DEF Read, TimeOut, GiveUp, Commit, EndExport, Stop, Release, Goto
<1>5. \A q \in Processes : ~(Select(q) \/ Fill(q) \/ FailWrite(q))
  BY <1>1 DEF Select, Fill, FailWrite, Written, Continue, Goto
<1>6. ~UNCHANGED vars
  BY <1>1 DEF vars
<1>. QED
  BY <1>1, <1>2, <1>3, <1>4, <1>5, <1>6 DEF Next, Import, ExportStep

\* A file that parses and meets an open transaction, or the lock, is in the
\* database when that commits, unless it is a turn before its session
\* (migrate_data.go:269) or the child of a project whose own INSERT timed out
\* (migrate_data.go:349): for every tree and every order of the walk, with any
\* number of processes.
THEOREM OnlyOrphansAreSkipped == Spec => OnlyOrphansSkipped
<1>1. ASSUME TypeOK, [Next]_vars, NEW p \in Processes,
             pc[p] \in {"wait", "late", "walk"}, pc'[p] = "walk",
             at'[p] = at[p] + 1,
             pc[p] = "walk" => WalkOrder[at[p]] \in DOMAIN files,
             InHand(p).good,
             NEW k, k = ImportKey(WalkOrder[at[p]], InHand(p)),
             NEW r, r = ImportRow(WalkOrder[at[p]], InHand(p))
      PROVE  \/ k \in DOMAIN tx'
             \/ /\ k[1] = "session_turns" \/ pc[p] = "late"
                /\ ~(References(k, r) \subseteq DOMAIN Base(p))
  <2>. DEFINE w == WalkOrder[at[p]]
              f == InHand(p)
  <2>1. Begin(p) \/ BeginLate(p) \/ Walk(p)
    BY <1>1, StepsOfAWalk
  <2>2. IsWalked(w)
    BY <1>1, <2>1, WalkedNow DEF Walk, Begin, BeginLate, TypeOK
  <2>3. f \in Markdown /\ IsDatabase(Base(p))
    BY <1>1 DEF TypeOK, InHand, Base
  <2>4. CASE Begin(p) \/ Walk(p)
    <3>1. tx' = ImportFile(Base(p), w, f)
      BY <1>1, <2>4 DEF Begin, Lock, Walk, WalkStep, InHand, Base
    <3>2. \/ k \in DOMAIN ImportFile(Base(p), w, f)
          \/ /\ k[1] = "session_turns"
             /\ <<"sessions", k[2], 0>> \notin DOMAIN Base(p)
      BY <1>1, <2>2, <2>3, FileFindsRow
    <3>3. k[1] = "session_turns" => References(k, r) = {<<"sessions", k[2], 0>>}
      BY DEF References, ChildTables
    <3>. HIDE DEF w, f
    <3>. QED
      BY <3>1, <3>2, <3>3
  <2>5. CASE BeginLate(p)
    <3>1. tx' = InsertOrIgnore(Base(p), k, r) /\ pc[p] = "late"
      BY <1>1, <2>5 DEF BeginLate, Lock, InHand, Base
    <3>. QED
      BY <3>1, RowGoesIn
  <2>. QED
    BY <2>1, <2>4, <2>5
<1>2. TypeOK /\ [Next]_vars =>
        [\A p \in Processes :
          /\ pc[p] \in {"wait", "late", "walk"} /\ pc'[p] = "walk"
          /\ at'[p] = at[p] + 1
          /\ pc[p] = "walk" => WalkOrder[at[p]] \in DOMAIN files
          => LET k == ImportKey(WalkOrder[at[p]], InHand(p))
                 r == ImportRow(WalkOrder[at[p]], InHand(p))
             IN \/ ~InHand(p).good
                \/ k \in DOMAIN tx'
                \/ /\ k[1] = "session_turns" \/ pc[p] = "late"
                   /\ ~(References(k, r) \subseteq DOMAIN Base(p))
        ]_vars
  BY <1>1
<1>. QED
  BY <1>2, TypeCorrect, PTL DEF Spec, OnlyOrphansSkipped

=============================================================================
