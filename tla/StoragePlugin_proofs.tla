------------------------ MODULE StoragePlugin_proofs ------------------------
(***************************************************************************)
(* What holds of StoragePlugin for every value of its constants.           *)
(***************************************************************************)
EXTENDS StoragePlugin, Schema_proofs

-----------------------------------------------------------------------------
(* Types.                                                                  *)

LEMMA ActiveRequest ==
    ASSUME TypeOK, NEW w \in Workers, pc[w] # "idle"
    PROVE  req[w] \in Requests /\ req[w] \in Request
BY PluginAssumption DEF TypeOK

LEMMA EmptyTypes ==
    /\ IsDatabase([k \in {} |-> NoAnswer])
    /\ NoAnswer \in [ver : Int, body : Bodies]
BY NamesAssumption DEF IsDatabase, NoAnswer

LEMMA LogNameType ==
    ASSUME NEW q \in Request
    PROVE  LogName(q) \in Tables \X Names
<1>1. q.table \in Tables /\ q.id \in Names /\ "registry" \in Names
  BY NamesAssumption DEF Request
<1>. QED
  BY <1>1 DEF LogName

LEMMA InitTyped == Init => TypeOK
<1>. SUFFICES ASSUME Init PROVE TypeOK
  OBVIOUS
<1>1. IsDatabase(db)
  BY PluginAssumption DEF Init
<1>. QED
  BY <1>1, EmptyTypes, PluginAssumption DEF Init, TypeOK, Labels

\* Every step keeps the types: one step of the proof for each action.
LEMMA NextTyped == TypeOK /\ [Next]_vars => TypeOK'
<1>. SUFFICES ASSUME TypeOK, [Next]_vars PROVE TypeOK'
  OBVIOUS
<1>. USE DEF TypeOK, Labels, Goto, Return
<1>1. ASSUME NEW w \in Workers, Receive(w) PROVE TypeOK'
  <2>1. PICK q \in Requests :
            /\ req' = [req EXCEPT ![w] = q]
            /\ pc' = [pc EXCEPT ![w] = IF q.op = "read" THEN "query" ELSE "wait"]
    BY <1>1 DEF Receive
  <2>2. UNCHANGED <<db, changeLog, up, locked, answer>>
    BY <1>1 DEF Receive
  <2>3. \A v \in Workers : pc'[v] = "idle" <=> req'[v] = NoRequest
    BY <2>1, PluginAssumption
  <2>. QED
    BY <2>1, <2>2, <2>3
<1>2. ASSUME NEW w \in Workers, Acquire(w) PROVE TypeOK'
  BY <1>2 DEF Acquire
<1>3. ASSUME NEW w \in Workers, Query(w) PROVE TypeOK'
  <2>1. ReadAnswer(db, req[w]) \in [ver : Int, body : Bodies]
    BY <1>3, ActiveRequest, ReadAnswerType DEF Query
  <2>. QED
    BY <1>3, <2>1 DEF Query
<1>4. ASSUME NEW w \in Workers, Check(w) PROVE TypeOK'
  <2>1. PICK seen \in Seen :
            \/ /\ answer' = [answer EXCEPT ![w].ver = NewVersion(seen, req[w])]
               /\ pc' = [pc EXCEPT ![w] = "exec"]
               /\ UNCHANGED locked
            \/ /\ pc' = [pc EXCEPT ![w] = "failed"]
               /\ locked' = [locked EXCEPT ![InstanceOf[w]] = FALSE]
               /\ UNCHANGED answer
    BY <1>4 DEF Check
  <2>2. IsDatabase(seen)
    BY EmptyTypes DEF Seen
  <2>3. NewVersion(seen, req[w]) \in Int
    BY <1>4, <2>2, ActiveRequest, VersionType DEF Check
  <2>4. pc[w] = "check" /\ UNCHANGED <<db, changeLog, up, req>>
    BY <1>4 DEF Check
  <2>. QED
    BY <2>1, <2>3, <2>4
<1>5. ASSUME NEW w \in Workers, ExecWrite(w) PROVE TypeOK'
  <2>1. IsDatabase(Upsert(db, req[w], answer[w].ver))
    BY <1>5, ActiveRequest, UpsertType DEF ExecWrite
  <2>2. IsDatabase(db')
    BY <1>5, <2>1 DEF ExecWrite
  <2>. QED
    BY <1>5, <2>2 DEF ExecWrite
<1>6. ASSUME NEW w \in Workers, ExecDelete(w) PROVE TypeOK'
  <2>1. db' = DeleteRows(db, DeleteTargets(db, req[w])) \/ db' = db
    BY <1>6 DEF ExecDelete
  <2>2. IsDatabase(DeleteRows(db, DeleteTargets(db, req[w])))
    BY DeleteRowsType
  <2>3. IsDatabase(db')
    BY <2>1, <2>2
  <2>. QED
    BY <1>6, <2>3 DEF ExecDelete
<1>7. ASSUME NEW w \in Workers, EnsureProject(w) PROVE TypeOK'
  <2>1. req[w].proj \in Names
    BY <1>7, ActiveRequest DEF EnsureProject, Request
  <2>2. IsDatabase(InsertProject(db, req[w].proj))
    BY <2>1, InsertProjectType
  <2>3. db' = InsertProject(db, req[w].proj) \/ db' = db
    BY <1>7 DEF EnsureProject
  <2>4. IsDatabase(db')
    BY <2>2, <2>3
  <2>. QED
    BY <1>7, <2>4 DEF EnsureProject
<1>8. ASSUME NEW w \in Workers, Record(w) PROVE TypeOK'
  <2>1. LogName(req[w]) \in Tables \X Names
    BY <1>8, ActiveRequest, LogNameType DEF Record
  <2>2. EntryOf(req[w], answer[w].ver) \in LogEntry
    BY DEF EntryOf, LogEntry
  <2>3. /\ DOMAIN changeLog' \subseteq Tables \X Names
        /\ changeLog' \in [DOMAIN changeLog' -> LogEntry]
    BY <1>8, <2>1, <2>2 DEF Record, Logged
  <2>. QED
    BY <1>8, <2>3 DEF Record
<1>9. ASSUME NEW w \in Workers, Reply(w) PROVE TypeOK'
  BY <1>9, EmptyTypes DEF Reply
<1>10. ASSUME NEW i \in Instances, Crash(i) PROVE TypeOK'
  BY <1>10, EmptyTypes DEF Crash
<1>11. ASSUME NEW i \in Instances, Start(i) PROVE TypeOK'
  BY <1>11 DEF Start
<1>12. ASSUME NEW slug \in Slugs, BootstrapProject(slug) PROVE TypeOK'
  <2>1. IsDatabase(db')
    BY <1>12, PluginAssumption, InsertProjectType DEF BootstrapProject
  <2>. QED
    BY <1>12, <2>1 DEF BootstrapProject
<1>13. CASE UNCHANGED vars
  BY <1>13 DEF vars
<1>. QED
  BY <1>1, <1>2, <1>3, <1>4, <1>5, <1>6, <1>7, <1>8, <1>9, <1>10, <1>11, <1>12,
     <1>13
  DEF Next, Serve

\* Each worker is idle exactly when it has no request, every row and log entry
\* is one of the schema: whatever the deployment, the faults and the crashes.
THEOREM TypeCorrect == Spec => []TypeOK
BY InitTyped, NextTyped, PTL DEF Spec

-----------------------------------------------------------------------------
(* Foreign keys.                                                           *)

LEMMA NextKeepsForeignKeys ==
    TypeOK /\ ForeignKeysHold /\ [Next]_vars => ForeignKeysHold'
<1>. SUFFICES ASSUME TypeOK, ForeignKeysHold, [Next]_vars
              PROVE  ForeignKeysHold'
  OBVIOUS
<1>1. IsDatabase(db) /\ ForeignKeys(db)
  BY DEF TypeOK, ForeignKeysHold
<1>2. ASSUME NEW w \in Workers, ExecWrite(w) PROVE ForeignKeysHold'
  <2>1. req[w] \in Request /\ answer[w].ver \in Int
    BY <1>2, ActiveRequest DEF ExecWrite, TypeOK
  <2>. QED
    BY <1>1, <1>2, <2>1, UpsertKeepsForeignKeys DEF ExecWrite, ForeignKeysHold
<1>3. ASSUME NEW w \in Workers, ExecDelete(w) PROVE ForeignKeysHold'
  BY <1>1, <1>3, DeleteKeepsForeignKeys DEF ExecDelete, ForeignKeysHold
<1>4. ASSUME NEW w \in Workers, EnsureProject(w) PROVE ForeignKeysHold'
  <2>1. req[w].proj \in Names
    BY <1>4, ActiveRequest DEF EnsureProject, Request
  <2>. QED
    BY <1>1, <1>4, <2>1, InsertProjectKeepsForeignKeys
    DEF EnsureProject, ForeignKeysHold
<1>5. ASSUME NEW slug \in Slugs, BootstrapProject(slug) PROVE ForeignKeysHold'
  BY <1>1, <1>5, PluginAssumption, InsertProjectKeepsForeignKeys
  DEF BootstrapProject, ForeignKeysHold
<1>6. CASE UNCHANGED db
  BY <1>1, <1>6 DEF ForeignKeysHold
<1>. QED
  BY <1>2, <1>3, <1>4, <1>5, <1>6
  DEF Next, Serve, Receive, Acquire, Query, Check, Record, Reply, Crash, Start, vars

\* No feature, person or turn ever lacks its parent, however many instances
\* write and delete at once and wherever their processes die.
THEOREM NoOrphans == Spec => []ForeignKeysHold
<1>1. Init => ForeignKeysHold
  BY PluginAssumption DEF Init, ForeignKeysHold
<1>. QED
  BY <1>1, TypeCorrect, NextKeepsForeignKeys, PTL DEF Spec

-----------------------------------------------------------------------------
(* The mutex.                                                              *)

LEMMA NextKeepsMutex == TypeOK /\ MutexInv /\ [Next]_vars => MutexInv'
<1>. SUFFICES ASSUME TypeOK, MutexInv, [Next]_vars PROVE MutexInv'
  OBVIOUS
<1>. USE PluginAssumption DEF TypeOK, MutexInv, Critical, Goto, Return
<1>1. ASSUME NEW w \in Workers, Acquire(w) PROVE MutexInv'
  <2>1. pc[w] = "wait" /\ pc'[w] \in Critical
    BY <1>1 DEF Acquire
  <2>2. \A v \in Workers : v # w => pc'[v] = pc[v]
    BY <1>1 DEF Acquire
  <2>3. \A v \in Workers : InstanceOf[v] = InstanceOf[w] => pc[v] \notin Critical
    BY <1>1 DEF Acquire
  <2>4. \A i \in Instances :
            locked'[i] <=> i = InstanceOf[w] \/ locked[i]
    BY <1>1 DEF Acquire
  <2>. QED
    BY <2>1, <2>2, <2>3, <2>4
<1>2. ASSUME NEW w \in Workers,
             pc[w] \in Critical, pc'[w] \notin Critical,
             \A v \in Workers : v # w => pc'[v] = pc[v],
             locked' = [locked EXCEPT ![InstanceOf[w]] = FALSE]
      PROVE  MutexInv'
  <2>1. \A i \in Instances :
            locked'[i] <=> i # InstanceOf[w] /\ locked[i]
    BY <1>2
  <2>2. \A v \in Workers : InstanceOf[v] = InstanceOf[w] => pc'[v] \notin Critical
    BY <1>2
  <2>3. \A v \in Workers :
            pc'[v] \in Critical
              <=> InstanceOf[v] # InstanceOf[w] /\ pc[v] \in Critical
    BY <1>2, <2>2
  <2>. QED
    BY <2>1, <2>3
<1>3. ASSUME NEW w \in Workers,
             pc[w] \in Critical <=> pc'[w] \in Critical,
             \A v \in Workers : v # w => pc'[v] = pc[v],
             locked' = locked
      PROVE  MutexInv'
  <2>1. \A v \in Workers : pc[v] \in Critical <=> pc'[v] \in Critical
    BY <1>3
  <2>. QED
    BY <1>3, <2>1
<1>4. ASSUME NEW w \in Workers, Receive(w) \/ Query(w) \/ Reply(w)
      PROVE  MutexInv'
  <2>1. pc[w] \notin Critical /\ pc'[w] \notin Critical /\ locked' = locked
    BY <1>4 DEF Receive, Query, Reply
  <2>2. \A v \in Workers : v # w => pc'[v] = pc[v]
    BY <1>4 DEF Receive, Query, Reply
  <2>. QED
    BY <1>3, <2>1, <2>2
<1>5. ASSUME NEW w \in Workers, Check(w) PROVE MutexInv'
  <2>1. pc[w] \in Critical /\ \A v \in Workers : v # w => pc'[v] = pc[v]
    BY <1>5 DEF Check
  <2>2. \/ pc'[w] \in Critical /\ locked' = locked
        \/ /\ pc'[w] \notin Critical
           /\ locked' = [locked EXCEPT ![InstanceOf[w]] = FALSE]
    BY <1>5 DEF Check
  <2>. QED
    BY <1>2, <1>3, <2>1, <2>2
<1>6. ASSUME NEW w \in Workers, ExecWrite(w) \/ ExecDelete(w) PROVE MutexInv'
  <2>1. pc[w] \in Critical /\ \A v \in Workers : v # w => pc'[v] = pc[v]
    BY <1>6 DEF ExecWrite, ExecDelete
  <2>2. \/ pc'[w] \in Critical /\ locked' = locked
        \/ /\ pc'[w] \notin Critical
           /\ locked' = [locked EXCEPT ![InstanceOf[w]] = FALSE]
    BY <1>6 DEF ExecWrite, ExecDelete
  <2>. QED
    BY <1>2, <1>3, <2>1, <2>2
<1>7. ASSUME NEW w \in Workers, EnsureProject(w) PROVE MutexInv'
  <2>1. pc[w] \in Critical /\ pc'[w] \in Critical /\ locked' = locked
    BY <1>7 DEF EnsureProject
  <2>2. \A v \in Workers : v # w => pc'[v] = pc[v]
    BY <1>7 DEF EnsureProject
  <2>. QED
    BY <1>3, <2>1, <2>2
<1>8. ASSUME NEW w \in Workers, Record(w) PROVE MutexInv'
  <2>1. pc[w] \in Critical /\ pc'[w] \notin Critical
    BY <1>8 DEF Record
  <2>2. \A v \in Workers : v # w => pc'[v] = pc[v]
    BY <1>8 DEF Record
  <2>3. locked' = [locked EXCEPT ![InstanceOf[w]] = FALSE]
    BY <1>8 DEF Record
  <2>. QED
    BY <1>2, <2>1, <2>2, <2>3
<1>9. ASSUME NEW i \in Instances, Crash(i) PROVE MutexInv'
  <2>1. \A v \in Workers :
            pc'[v] \in Critical <=> InstanceOf[v] # i /\ pc[v] \in Critical
    BY <1>9 DEF Crash
  <2>2. \A j \in Instances : locked'[j] <=> j # i /\ locked[j]
    BY <1>9 DEF Crash
  <2>. QED
    BY <2>1, <2>2
<1>10. CASE UNCHANGED <<pc, locked>>
  BY <1>10
<1>. QED
  BY <1>1, <1>4, <1>5, <1>6, <1>7, <1>8, <1>9, <1>10
  DEF Next, Serve, Start, BootstrapProject, vars

\* An instance's mutex is held exactly while one of its workers, and one only,
\* is between Lock and Unlock.
THEOREM MutexHolds == Spec => []MutexInv
<1>1. Init => MutexInv
  BY PluginAssumption DEF Init, MutexInv, Critical
<1>. QED
  BY <1>1, TypeCorrect, NextKeepsMutex, PTL DEF Spec

-----------------------------------------------------------------------------
(* Compare-and-swap on a solitary instance.                                *)

LEMMA OneCriticalWorker ==
    ASSUME Alone, TypeOK, MutexInv,
           NEW v \in Workers, pc[v] \in Critical,
           NEW w \in Workers, pc[w] \in Critical
    PROVE  v = w
BY PluginAssumption DEF Alone, MutexInv

\* Only the holder of the mutex writes, so nothing a worker has checked changes
\* before its upsert.
LEMMA NextKeepsChecked ==
    ASSUME Solitary
    PROVE  TypeOK /\ MutexInv /\ CheckedInv /\ [Next]_vars => CheckedInv'
<1>. SUFFICES ASSUME TypeOK, MutexInv, CheckedInv, [Next]_vars,
                     NEW v \in Workers, pc'[v] = "exec", req'[v].op = "write"
              PROVE  /\ Admits(db', req'[v])
                     /\ answer'[v].ver = NewVersion(db', req'[v])
  BY DEF CheckedInv
<1>1. CASE /\ pc'[v] = pc[v] /\ req'[v] = req[v] /\ answer'[v] = answer[v]
           /\ db' = db
  BY <1>1 DEF CheckedInv
<1>2. ASSUME NEW w \in Workers, pc[w] \in Critical, v # w PROVE pc[v] # "exec"
  BY <1>2, OneCriticalWorker DEF Solitary, Critical
<1>. USE DEF TypeOK, Goto, Return
<1>3. ASSUME NEW w \in Workers, Receive(w) \/ Query(w) \/ Reply(w)
      PROVE  /\ pc'[v] = pc[v] /\ req'[v] = req[v] /\ answer'[v] = answer[v]
             /\ db' = db
  <2>1. v # w
    BY <1>3 DEF Receive, Query, Reply
  <2>. QED
    BY <1>3, <2>1 DEF Receive, Query, Reply
<1>4. ASSUME NEW w \in Workers, Acquire(w)
      PROVE  /\ pc'[v] = pc[v] /\ req'[v] = req[v] /\ answer'[v] = answer[v]
             /\ db' = db
  <2>1. v # w
    BY <1>4 DEF Acquire
  <2>. QED
    BY <1>4, <2>1 DEF Acquire
<1>5. ASSUME NEW w \in Workers, Check(w)
      PROVE  /\ Admits(db', req'[v])
             /\ answer'[v].ver = NewVersion(db', req'[v])
  <2>1. pc[w] \in Critical /\ UNCHANGED <<db, req>>
    BY <1>5 DEF Check, Critical
  <2>2. v = w
    <3>1. v # w => pc'[v] = pc[v]
      BY <1>5 DEF Check
    <3>. QED
      BY <1>2, <2>1, <3>1
  <2>3. /\ Admits(db, req[w])
        /\ answer' = [answer EXCEPT ![w].ver = NewVersion(db, req[w])]
    BY <1>5, <2>2 DEF Check, Seen, Solitary
  <2>. QED
    BY <2>1, <2>2, <2>3
<1>6. ASSUME NEW w \in Workers,
             ExecWrite(w) \/ ExecDelete(w) \/ EnsureProject(w) \/ Record(w)
      PROVE  FALSE
  <2>1. pc[w] \in Critical /\ pc'[w] # "exec"
    BY <1>6 DEF ExecWrite, ExecDelete, EnsureProject, Record, Critical
  <2>2. v # w => pc'[v] = pc[v]
    BY <1>6 DEF ExecWrite, ExecDelete, EnsureProject, Record
  <2>. QED
    BY <1>2, <2>1, <2>2
<1>7. ASSUME NEW i \in Instances, Crash(i)
      PROVE  /\ pc'[v] = pc[v] /\ req'[v] = req[v] /\ answer'[v] = answer[v]
             /\ db' = db
  BY <1>7 DEF Crash
<1>8. ASSUME NEW i \in Instances, Start(i)
      PROVE  /\ pc'[v] = pc[v] /\ req'[v] = req[v] /\ answer'[v] = answer[v]
             /\ db' = db
  BY <1>8 DEF Start
<1>9. CASE UNCHANGED vars
  BY <1>1, <1>9 DEF vars
<1>. QED
  BY <1>1, <1>3, <1>4, <1>5, <1>6, <1>7, <1>8, <1>9 DEF Next, Serve, Solitary

\* On a solitary instance the upsert runs on the very rows that were checked.
THEOREM ChecksStand == Solitary => (Spec => []CheckedInv)
<1>. SUFFICES ASSUME Solitary PROVE Spec => []CheckedInv
  OBVIOUS
<1>1. Init => CheckedInv
  BY DEF Init, CheckedInv
<1>2. TypeOK /\ MutexInv /\ CheckedInv /\ [Next]_vars => CheckedInv'
  BY NextKeepsChecked
<1>. QED
  BY <1>1, <1>2, TypeCorrect, MutexHolds, PTL DEF Spec

\* An upsert keeps kv versions positive if the version it stores is.
LEMMA UpsertKeepsKvVersions ==
    ASSUME NEW d, IsDatabase(d), KvVersionsPositive(d),
           NEW q \in Request, NEW ver \in Int,
           KeyOf(q)[1] = "kv_store" => ver > 0
    PROVE  KvVersionsPositive(Upsert(d, q, ver))
<1>1. /\ DOMAIN Upsert(d, q, ver) = DOMAIN d \union {KeyOf(q)}
      /\ KeyOf(q)[1] \notin UnversionedTables
           => Upsert(d, q, ver)[KeyOf(q)].ver = ver
      /\ \A x \in DOMAIN d : x # KeyOf(q) => Upsert(d, q, ver)[x] = d[x]
  BY UpsertEffect
<1>. SUFFICES ASSUME NEW k \in DOMAIN Upsert(d, q, ver), k[1] = "kv_store"
              PROVE  Upsert(d, q, ver)[k].ver > 0
  BY DEF KvVersionsPositive
<1>2. CASE k = KeyOf(q)
  <2>1. KeyOf(q)[1] \notin UnversionedTables
    BY <1>2 DEF UnversionedTables, SessionTables
  <2>. QED
    BY <1>1, <1>2, <2>1
<1>3. CASE k # KeyOf(q)
  <2>1. k \in DOMAIN d /\ Upsert(d, q, ver)[k] = d[k]
    BY <1>1, <1>3
  <2>. QED
    BY <2>1 DEF KvVersionsPositive
<1>. QED
  BY <1>2, <1>3

LEMMA NextKeepsKvInv == TypeOK /\ KvInv /\ [Next]_vars => KvInv'
<1>. SUFFICES ASSUME TypeOK, KvInv, [Next]_vars PROVE KvInv'
  OBVIOUS
<1>1. IsDatabase(db) /\ KvVersionsPositive(db)
  BY DEF TypeOK, KvInv
<1>2. KvVersionsPositive(db')
  <2>1. ASSUME NEW w \in Workers, ExecWrite(w) PROVE KvVersionsPositive(db')
    <3>1. req[w] \in Request /\ answer[w].ver \in Int
      BY <2>1, ActiveRequest DEF ExecWrite, TypeOK
    <3>2. KeyOf(req[w])[1] = "kv_store" => answer[w].ver > 0
      BY <2>1 DEF ExecWrite, KvInv
    <3>3. KvVersionsPositive(Upsert(db, req[w], answer[w].ver))
      BY <1>1, <3>1, <3>2, UpsertKeepsKvVersions
    <3>4. db' = Upsert(db, req[w], answer[w].ver) \/ db' = db
      BY <2>1 DEF ExecWrite
    <3>. QED
      BY <1>1, <3>3, <3>4
  <2>2. ASSUME NEW w \in Workers, ExecDelete(w) PROVE KvVersionsPositive(db')
    <3>. DEFINE e == DeleteRows(db, DeleteTargets(db, req[w]))
    <3>0. \A keys :
            /\ DOMAIN DeleteRows(db, keys) = DOMAIN db \ (keys \union Dependents(db, keys))
            /\ \A x \in DOMAIN DeleteRows(db, keys) : DeleteRows(db, keys)[x] = db[x]
      BY <1>1, DeleteRowsType, ZenonT(30)
    <3>1. KvVersionsPositive(e)
      BY <1>1, <3>0 DEF KvVersionsPositive
    <3>2. db' = e \/ db' = db
      BY <2>2 DEF ExecDelete
    <3>. QED
      BY <1>1, <3>1, <3>2
  <2>3. ASSUME NEW slug \in Names, db' = InsertProject(db, slug)
        PROVE  KvVersionsPositive(db')
    <3>. DEFINE e == InsertProject(db, slug)
    <3>1. /\ DOMAIN e = DOMAIN db \union {<<"projects", slug, 0>>}
          /\ \A x \in DOMAIN db : e[x] = db[x]
      BY <1>1, InsertProjectEffect
    <3>2. \A x \in DOMAIN e : x[1] = "kv_store" => x \in DOMAIN db
      BY <3>1
    <3>3. KvVersionsPositive(e)
      BY <1>1, <3>1, <3>2 DEF KvVersionsPositive
    <3>. QED
      BY <2>3, <3>3
  <2>4. ASSUME NEW w \in Workers, EnsureProject(w) PROVE KvVersionsPositive(db')
    <3>1. req[w].proj \in Names
      BY <2>4, ActiveRequest DEF EnsureProject, Request
    <3>2. db' = InsertProject(db, req[w].proj) \/ db' = db
      BY <2>4 DEF EnsureProject
    <3>. QED
      BY <1>1, <2>3, <3>1, <3>2
  <2>5. ASSUME NEW slug \in Slugs, BootstrapProject(slug)
        PROVE  KvVersionsPositive(db')
    BY <2>3, <2>5, PluginAssumption DEF BootstrapProject
  <2>6. CASE UNCHANGED db
    BY <1>1, <2>6
  <2>. QED
    BY <2>1, <2>2, <2>4, <2>5, <2>6
    DEF Next, Serve, Receive, Acquire, Query, Check, Record, Reply, Crash,
        Start, vars
<1>3. ASSUME NEW v \in Workers,
             pc'[v] = "exec", req'[v].op = "write",
             KeyOf(req'[v])[1] = "kv_store"
      PROVE  answer'[v].ver > 0
  <2>1. CASE pc'[v] = pc[v] /\ req'[v] = req[v] /\ answer'[v] = answer[v]
    BY <1>3, <2>1 DEF KvInv
  <2>2. CASE Check(v)
    <3>1. PICK seen \in Seen :
              answer' = [answer EXCEPT ![v].ver = NewVersion(seen, req[v])]
      BY <1>3, <2>2 DEF Check, Goto, Return, TypeOK
    <3>2. req' = req /\ req[v] \in Request
      BY <2>2, ActiveRequest DEF Check
    <3>3. KvVersionsPositive(seen) /\ IsDatabase(seen)
      BY <1>1, EmptyTypes DEF Seen, KvVersionsPositive
    <3>4. \A k \in DOMAIN seen : seen[k].ver \in Int
      BY <3>3 DEF IsDatabase, Row
    <3>5. NewVersion(seen, req[v]) > 0
      BY <1>3, <3>2, <3>3, <3>4
      DEF NewVersion, IsChecked, VersionAt, KvVersionsPositive
    <3>. QED
      BY <3>1, <3>5 DEF TypeOK
  <2>3. ASSUME NEW w \in Workers,
               Receive(w) \/ Acquire(w) \/ Serve(w), ~Check(v)
        PROVE  pc'[v] = pc[v] /\ req'[v] = req[v] /\ answer'[v] = answer[v]
    <3>1. v # w
      BY <1>3, <2>3
      DEF Serve, Receive, Acquire, Query, Check, ExecWrite, ExecDelete,
          EnsureProject, Record, Reply, Goto, Return, TypeOK
    <3>. QED
      BY <2>3, <3>1
      DEF Serve, Receive, Acquire, Query, Check, ExecWrite, ExecDelete,
          EnsureProject, Record, Reply, Goto, Return, TypeOK
  <2>4. ASSUME NEW i \in Instances, Crash(i) \/ Start(i)
        PROVE  pc'[v] = pc[v] /\ req'[v] = req[v] /\ answer'[v] = answer[v]
    BY <1>3, <2>4 DEF Crash, Start
  <2>5. CASE UNCHANGED <<pc, req, answer>>
    BY <2>1, <2>5
  <2>. QED
    BY <2>1, <2>2, <2>3, <2>4, <2>5 DEF Next, BootstrapProject, vars
<1>. QED
  BY <1>2, <1>3 DEF KvInv

\* No kv entry ever has version 0, which is what lets a create tell an entry
\* from none by its version.
THEOREM KvVersions == Spec => []KvInv
<1>1. Init => KvInv
  BY PluginAssumption DEF Init, KvInv
<1>. QED
  BY <1>1, TypeCorrect, NextKeepsKvInv, PTL DEF Spec

-----------------------------------------------------------------------------
(* Compare-and-swap: the check that still stands is the promise that the   *)
(* commit keeps.                                                           *)

\* What admits a checked write is what the README says of expected_version; for
\* kv_store because a create sees version 0 only where there is no entry.
LEMMA AdmittedIsExact ==
    ASSUME NEW d, IsDatabase(d), KvVersionsPositive(d),
           NEW q \in Request, IsChecked(q), Admits(d, q)
    PROVE  /\ q.exp = 0 => KeyOf(q) \notin DOMAIN d
           /\ q.exp > 0 => KeyOf(q) \in DOMAIN d /\ d[KeyOf(q)].ver = q.exp
<1>1. q.exp \in Int /\ \A k \in DOMAIN d : d[k].ver \in Int
  BY DEF Request, IsDatabase, Row
<1>2. CASE KeyOf(q)[1] = "kv_store"
  <2>1. kvCheck(d, KeyOf(q), q.exp)
    BY <1>2 DEF Admits
  <2>2. KeyOf(q) \in DOMAIN d => d[KeyOf(q)].ver > 0
    BY <1>2 DEF KvVersionsPositive
  <2>. QED
    BY <1>1, <2>1, <2>2 DEF kvCheck, VersionAt
<1>3. CASE KeyOf(q)[1] \in CasTables
  <2>1. q.table \in CasTables
    BY <1>3 DEF KeyOf, CasTables, ChildTables, OwnedTables, SlugTables,
                DocTables, LibraryTables
  <2>2. casCheck(d, KeyOf(q), q.exp)
    BY <2>1 DEF Admits
  <2>. QED
    BY <1>1, <2>2 DEF casCheck
<1>. QED
  BY <1>2, <1>3 DEF IsChecked

LEMMA StepIsExact ==
    ASSUME Solitary
    PROVE  TypeOK /\ CheckedInv /\ KvInv => CasExact
<1>. SUFFICES ASSUME TypeOK, CheckedInv, KvInv,
                     NEW w \in Workers, Commits(w), IsChecked(req[w])
              PROVE  /\ req[w].exp = 0 => KeyOf(req[w]) \notin DOMAIN db
                     /\ req[w].exp > 0 =>
                          /\ KeyOf(req[w]) \in DOMAIN db
                          /\ db[KeyOf(req[w])].ver = req[w].exp
  BY DEF CasExact
<1>1. req[w] \in Request
  BY ActiveRequest DEF Commits
<1>2. Admits(db, req[w])
  BY DEF Commits, CheckedInv
<1>3. IsDatabase(db) /\ KvVersionsPositive(db)
  BY DEF TypeOK, KvInv
<1>. QED
  BY <1>1, <1>2, <1>3, AdmittedIsExact

\* The README's compare-and-swap, on a solitary instance: a create commits over
\* no row and an update over the version it names.
THEOREM CasHolds == Solitary => (Spec => CasCommitsAreExact)
<1>. SUFFICES ASSUME Solitary PROVE Spec => [][CasExact]_vars
  BY DEF CasCommitsAreExact
<1>1. TypeOK /\ CheckedInv /\ KvInv => CasExact
  BY StepIsExact
<1>. QED
  BY <1>1, TypeCorrect, ChecksStand, KvVersions, PTL

LEMMA StepGivesNextVersion ==
    ASSUME Solitary
    PROVE  TypeOK /\ CheckedInv /\ [Next]_vars => NextVersions
<1>. SUFFICES ASSUME TypeOK, CheckedInv, [Next]_vars,
                     NEW k \in DOMAIN db \intersect DOMAIN db',
                     k[1] \in CasTables \union {"kv_store"}, db'[k] # db[k]
              PROVE  db'[k].ver = db[k].ver + 1
  BY DEF NextVersions
<1>1. IsDatabase(db)
  BY DEF TypeOK
<1>2. ASSUME NEW w \in Workers, ExecWrite(w)
      PROVE  db'[k].ver = db[k].ver + 1
  <2>1. req[w] \in Request /\ answer[w].ver \in Int
    BY <1>2, ActiveRequest DEF ExecWrite, TypeOK
  <2>2. db' = Upsert(db, req[w], answer[w].ver)
    BY <1>2 DEF ExecWrite
  <2>3. /\ KeyOf(req[w])[1] \notin UnversionedTables
             => db'[KeyOf(req[w])].ver = answer[w].ver
        /\ \A x \in DOMAIN db : x # KeyOf(req[w]) => db'[x] = db[x]
    <3>1. /\ KeyOf(req[w])[1] \notin UnversionedTables
              => Upsert(db, req[w], answer[w].ver)[KeyOf(req[w])].ver
                   = answer[w].ver
          /\ \A x \in DOMAIN db : x # KeyOf(req[w])
              => Upsert(db, req[w], answer[w].ver)[x] = db[x]
      BY <1>1, <2>1, UpsertEffect
    <3>. QED
      BY <2>2, <3>1
  <2>4. k = KeyOf(req[w])
    BY <2>3
  <2>5. KeyOf(req[w])[1] \notin UnversionedTables
    BY <2>4 DEF UnversionedTables, SessionTables, CasTables, ChildTables,
                OwnedTables, SlugTables, DocTables, LibraryTables
  <2>6. answer[w].ver = VersionAt(db, k) + 1
    <3>1. answer[w].ver = NewVersion(db, req[w])
      BY <1>2 DEF ExecWrite, CheckedInv
    <3>. QED
      BY <2>4, <3>1 DEF NewVersion, IsChecked
  <2>. QED
    BY <2>3, <2>4, <2>5, <2>6 DEF VersionAt
<1>3. ASSUME NEW w \in Workers, ExecDelete(w) PROVE FALSE
  <2>1. \A x \in DOMAIN DeleteRows(db, DeleteTargets(db, req[w])) :
            DeleteRows(db, DeleteTargets(db, req[w]))[x] = db[x]
    BY <1>1, DeleteRowsType
  <2>2. db' = DeleteRows(db, DeleteTargets(db, req[w])) \/ db' = db
    BY <1>3 DEF ExecDelete
  <2>. QED
    BY <2>1, <2>2
<1>4. ASSUME NEW w \in Workers, EnsureProject(w) PROVE FALSE
  <2>1. req[w].proj \in Names
    BY <1>4, ActiveRequest DEF EnsureProject, Request
  <2>2. \A x \in DOMAIN db : InsertProject(db, req[w].proj)[x] = db[x]
    BY <1>1, <2>1, InsertProjectEffect
  <2>3. db' = InsertProject(db, req[w].proj) \/ db' = db
    BY <1>4 DEF EnsureProject
  <2>. QED
    BY <2>2, <2>3
<1>. QED
  BY <1>2, <1>3, <1>4
  DEF Next, Serve, Receive, Acquire, Query, Check, Record, Reply, Crash,
      Start, vars, Solitary

\* On a solitary instance an overwritten row gets the next version.
THEOREM VersionsStep == Solitary => (Spec => VersionsStepByOne)
<1>. SUFFICES ASSUME Solitary PROVE Spec => [][NextVersions]_vars
  BY DEF VersionsStepByOne
<1>1. TypeOK /\ CheckedInv /\ [Next]_vars => NextVersions
  BY StepGivesNextVersion
<1>. QED
  BY <1>1, TypeCorrect, ChecksStand, PTL DEF Spec

-----------------------------------------------------------------------------
(* What a handler did stands until it returns.                             *)

\* Only a write ensures a project, or a delete might be undone by its own handler;
\* and no read is recorded.
RightOp(label, q) ==
    /\ label = "ensure" => q.op = "write"
    /\ label = "record" => q.op \in {"write", "delete"}

EnsuringWrites == \A w \in Workers : RightOp(pc[w], req[w])

LEMMA UpsertIsDone ==
    ASSUME NEW d, IsDatabase(d), NEW q \in Request, q.op = "write",
           NEW ver \in Int
    PROVE  Done(Upsert(d, q, ver), q, ver)
<1>1. /\ DOMAIN Upsert(d, q, ver) = DOMAIN d \union {KeyOf(q)}
      /\ Upsert(d, q, ver)[KeyOf(q)].body = q.body
      /\ KeyOf(q)[1] \notin UnversionedTables
           => Upsert(d, q, ver)[KeyOf(q)].ver = ver
  BY UpsertEffect
<1>. QED
  BY <1>1 DEF Done

LEMMA DeleteIsDone ==
    ASSUME NEW d, IsDatabase(d), NEW q \in Request, q.op # "write", NEW ver
    PROVE  Done(DeleteRows(d, DeleteTargets(d, q)), q, ver)
<1>1. DOMAIN DeleteRows(d, DeleteTargets(d, q)) =
        DOMAIN d \ (DeleteTargets(d, q)
                       \union Dependents(d, DeleteTargets(d, q)))
  BY DeleteRowsType
<1>2. DeleteTargets(DeleteRows(d, DeleteTargets(d, q)), q)
        \subseteq DeleteTargets(d, q)
  BY <1>1 DEF DeleteTargets
<1>. QED
  BY <1>1, <1>2 DEF Done

LEMMA EnsureKeepsDone ==
    ASSUME NEW d, IsDatabase(d), NEW q, q.op = "write", NEW ver,
           NEW slug \in Names, Done(d, q, ver)
    PROVE  Done(InsertProject(d, slug), q, ver)
BY InsertProjectEffect DEF Done

\* `orchestra init` does not bring back what was deleted, if it is for others.
LEMMA BootstrapKeepsDeleted ==
    ASSUME NEW d, IsDatabase(d), NEW q \in Request, q.op # "write", NEW ver,
           NEW slug \in Names, ~(q.table = "projects" /\ q.id = slug),
           Done(d, q, ver)
    PROVE  Done(InsertProject(d, slug), q, ver)
<1>. DEFINE p == <<"projects", slug, 0>>
            e == InsertProject(d, slug)
<1>1. DOMAIN e = DOMAIN d \union {p}
  BY InsertProjectEffect
<1>2. DeleteTargets(d, q) \intersect DOMAIN d = {}
  BY DEF Done
<1>. HIDE DEF e
<1>3. p \notin DeleteTargets(e, q) /\ DeleteTargets(e, q) \ {p} \subseteq DeleteTargets(d, q)
  <2>1. CASE q.table = "packs"
    BY <1>1, <2>1 DEF DeleteTargets
  <2>2. CASE q.table = "session_turns"
    BY <2>2 DEF DeleteTargets
  <2>3. CASE q.table = "stacks"
    BY <2>3 DEF DeleteTargets
  <2>4. CASE q.table \notin {"packs", "session_turns", "stacks"}
    BY <2>4 DEF DeleteTargets
  <2>. QED
    BY <2>1, <2>2, <2>3, <2>4
<1>4. DeleteTargets(e, q) \intersect DOMAIN e = {}
  BY <1>1, <1>2, <1>3
<1>. QED
  BY <1>4 DEF Done, e

LEMMA NextKeepsEffect ==
    ASSUME Undisturbed
    PROVE  /\ TypeOK /\ MutexInv /\ EnsuringWrites /\ EffectStands
           /\ [Next]_vars
           => EnsuringWrites' /\ EffectStands'
<1>. SUFFICES ASSUME TypeOK, MutexInv, EnsuringWrites, EffectStands,
                     [Next]_vars
              PROVE  EnsuringWrites' /\ EffectStands'
  OBVIOUS
<1>. SUFFICES ASSUME NEW v \in Workers, pc'[v] \in {"ensure", "record"}
              PROVE  /\ RightOp(pc'[v], req'[v])
                     /\ Done(db', req'[v], answer'[v].ver)
  BY DEF EnsuringWrites, EffectStands, RightOp
<1>0. RightOp(pc[v], req[v])
  BY DEF EnsuringWrites
<1>1. pc[v] \in {"ensure", "record"} => Done(db, req[v], answer[v].ver)
  BY DEF EffectStands
<1>2. CASE /\ pc'[v] = pc[v] /\ req'[v] = req[v] /\ answer'[v] = answer[v]
           /\ db' = db
  BY <1>0, <1>1, <1>2
<1>3. ASSUME NEW w \in Workers, pc[w] \in Critical, v # w
      PROVE  pc[v] \notin {"ensure", "record"}
  BY <1>3, OneCriticalWorker DEF Undisturbed, Critical
<1>4. IsDatabase(db)
  BY DEF TypeOK
<1>. USE DEF TypeOK, Goto, Return, RightOp
<1>5. ASSUME NEW w \in Workers,
             Receive(w) \/ Acquire(w) \/ Query(w) \/ Check(w) \/ Record(w)
               \/ Reply(w)
      PROVE  /\ pc'[v] = pc[v] /\ req'[v] = req[v] /\ answer'[v] = answer[v]
             /\ db' = db
  <2>1. v # w
    BY <1>5 DEF Receive, Acquire, Query, Check, Record, Reply
  <2>. QED
    BY <1>5, <2>1 DEF Receive, Acquire, Query, Check, Record, Reply
<1>6. ASSUME NEW w \in Workers, ExecWrite(w)
      PROVE  /\ RightOp(pc'[v], req'[v])
             /\ Done(db', req'[v], answer'[v].ver)
  <2>1. v = w
    <3>1. pc[w] \in Critical /\ (v # w => pc'[v] = pc[v])
      BY <1>6 DEF ExecWrite, Critical
    <3>. QED
      BY <1>3, <3>1
  <2>2. /\ req[w].op = "write" /\ req' = req /\ answer' = answer
        /\ db' = Upsert(db, req[w], answer[w].ver)
    BY <1>6, <2>1 DEF ExecWrite
  <2>3. req[w] \in Request /\ answer[w].ver \in Int
    BY <1>6, ActiveRequest DEF ExecWrite
  <2>4. Done(Upsert(db, req[w], answer[w].ver), req[w], answer[w].ver)
    BY <1>4, <2>2, <2>3, UpsertIsDone
  <2>. QED
    BY <2>1, <2>2, <2>4
<1>7. ASSUME NEW w \in Workers, ExecDelete(w)
      PROVE  /\ RightOp(pc'[v], req'[v])
             /\ Done(db', req'[v], answer'[v].ver)
  <2>1. v = w
    <3>1. pc[w] \in Critical /\ (v # w => pc'[v] = pc[v])
      BY <1>7 DEF ExecDelete, Critical
    <3>. QED
      BY <1>3, <3>1
  <2>2. /\ req[w].op = "delete" /\ req' = req /\ answer' = answer
        /\ pc'[v] = "record"
        /\ db' = DeleteRows(db, DeleteTargets(db, req[w]))
    BY <1>7, <2>1 DEF ExecDelete
  <2>3. req[w] \in Request
    BY <1>7, ActiveRequest DEF ExecDelete
  <2>4. Done(DeleteRows(db, DeleteTargets(db, req[w])), req[w], answer[w].ver)
    BY <1>4, <2>2, <2>3, DeleteIsDone
  <2>. QED
    BY <2>1, <2>2, <2>4
<1>8. ASSUME NEW w \in Workers, EnsureProject(w)
      PROVE  /\ RightOp(pc'[v], req'[v])
             /\ Done(db', req'[v], answer'[v].ver)
  <2>1. v = w
    <3>1. pc[w] \in Critical /\ (v # w => pc'[v] = pc[v])
      BY <1>8 DEF EnsureProject, Critical
    <3>. QED
      BY <1>3, <3>1
  <2>2. /\ pc[w] = "ensure" /\ req' = req /\ answer' = answer
        /\ pc'[v] = "record"
        /\ db' = InsertProject(db, req[w].proj) \/ db' = db
    BY <1>8, <2>1 DEF EnsureProject
  <2>3. req[w].op = "write" /\ req[w].proj \in Names
    BY <1>8, <2>2, ActiveRequest DEF EnsuringWrites, Request
  <2>4. Done(db, req[w], answer[w].ver)
    BY <1>1, <2>1, <2>2
  <2>5. Done(InsertProject(db, req[w].proj), req[w], answer[w].ver)
    BY <1>4, <2>3, <2>4, EnsureKeepsDone
  <2>. QED
    BY <2>1, <2>2, <2>3, <2>4, <2>5
<1>9. ASSUME NEW i \in Instances, Crash(i) \/ Start(i)
      PROVE  /\ pc'[v] = pc[v] /\ req'[v] = req[v] /\ answer'[v] = answer[v]
             /\ db' = db
  BY <1>9 DEF Crash, Start
<1>10. ASSUME NEW slug \in Slugs, BootstrapProject(slug)
      PROVE  /\ RightOp(pc'[v], req'[v])
             /\ Done(db', req'[v], answer'[v].ver)
  <2>1. /\ pc[v] \in {"ensure", "record"} /\ req' = req /\ answer' = answer /\ pc' = pc
        /\ db' = InsertProject(db, slug)
    BY <1>10 DEF BootstrapProject
  <2>2. req[v] \in Requests /\ req[v] \in Request /\ slug \in Names
    BY <2>1, ActiveRequest, PluginAssumption
  <2>3. req[v].op # "write" =>
          ~(req[v].table = "projects" /\ req[v].id = slug)
    BY <2>1, <2>2 DEF Undisturbed, EnsuringWrites
  <2>4. Done(db, req[v], answer[v].ver)
    BY <1>1, <2>1
  <2>5. Done(InsertProject(db, slug), req[v], answer[v].ver)
    BY <1>4, <2>2, <2>3, <2>4, EnsureKeepsDone, BootstrapKeepsDeleted
  <2>. QED
    BY <1>0, <2>1, <2>5
<1>11. CASE UNCHANGED vars
  BY <1>2, <1>11 DEF vars
<1>. QED
  BY <1>2, <1>5, <1>6, <1>7, <1>8, <1>9, <1>10, <1>11 DEF Next, Serve

\* Of one instance recordChange logs what the tables hold (storage.go:22), though
\* version SELECTs fail and `orchestra init` goes on beside it.
THEOREM EffectsStand == Undisturbed => (Spec => []EffectStands)
<1>. SUFFICES ASSUME Undisturbed PROVE Spec => []EffectStands
  OBVIOUS
<1>1. Init => EnsuringWrites /\ EffectStands
  BY DEF Init, EnsuringWrites, RightOp, EffectStands
<1>2. TypeOK /\ MutexInv /\ EnsuringWrites /\ EffectStands /\ [Next]_vars
        => EnsuringWrites' /\ EffectStands'
  BY NextKeepsEffect
<1>. QED
  BY <1>1, <1>2, TypeCorrect, MutexHolds, PTL DEF Spec

-----------------------------------------------------------------------------
(* The log explains the tables.                                            *)

\* The log and the table agree on the row under k.
Explained(k) ==
    LET n == <<k[1], k[2]>> IN
    k[1] \in LoggedByRow =>
      /\ n \in DOMAIN changeLog
      /\ changeLog[n].act = "upsert" <=> k \in DOMAIN db
      /\ k \in DOMAIN db /\ k[1] # "sessions" => changeLog[n].ver = db[k].ver

\* A handler has changed the row under k and has yet to log it.
Underway(k) ==
    \E w \in Workers :
        pc[w] = "record" /\ IsLogged(req[w]) /\ LogName(req[w]) = <<k[1], k[2]>>

Explainable ==
    DOMAIN db \union {<<n[1], n[2], 0>> : n \in DOMAIN changeLog}

\* No cascade and no ensured project can happen, and every row is explained or
\* about to be.
LogInv ==
    /\ \A w \in Workers : pc[w] # "ensure"
    /\ \A w \in Workers : pc[w] = "record" => req[w].op \in {"write", "delete"}
    /\ \A k \in DOMAIN db :
         k[1] \notin ChildTables \union {"session_turns"} /\ k[3] = 0
    /\ \A k \in Explainable : Explained(k) \/ Underway(k)

\* The row a traced request writes.
LEMMA TracedKey ==
    ASSUME NEW q \in Request,
           q.table \notin ChildTables \union {"session_turns"}
    PROVE  /\ KeyOf(q)[1] \notin ChildTables \union {"session_turns"}
           /\ KeyOf(q)[3] = 0
           /\ KeyOf(q)[1] \in LoggedByRow =>
                /\ KeyOf(q) = <<q.table, q.id, 0>>
                /\ q.table \notin {"packs", "kv_store"}
<1>1. CASE q.table = "packs"
  <2>1. KeyOf(q) \in {<<"packs", q.name, 0>>, <<"kv_store", PacksPath, 0>>}
    BY <1>1 DEF KeyOf
  <2>. QED
    BY <2>1 DEF LoggedByRow, CasTables, ChildTables, OwnedTables, SlugTables,
                DocTables, LibraryTables
<1>2. CASE q.table # "packs"
  <2>1. KeyOf(q) = <<q.table, q.id, 0>>
    BY <1>2 DEF KeyOf
  <2>. QED
    BY <1>2, <2>1 DEF LoggedByRow, CasTables, ChildTables, OwnedTables,
                      SlugTables, DocTables, LibraryTables
<1>. QED
  BY <1>1, <1>2

\* The rows a traced delete removes, where the log is kept by row.
LEMMA TracedTargets ==
    ASSUME NEW d, NEW q \in Request, q.table # "session_turns",
           NEW k, k[1] \in LoggedByRow
    PROVE  /\ k \in DeleteTargets(d, q) =>
                /\ k = <<q.table, q.id, 0>>
                /\ q.table \notin {"packs", "stacks", "kv_store"}
           /\ q.table \notin {"packs", "stacks"}
                => DeleteTargets(d, q) = {<<q.table, q.id, 0>>}
<1>1. k[1] \notin {"packs", "kv_store"}
  BY DEF LoggedByRow, CasTables, ChildTables, OwnedTables, SlugTables,
         DocTables, LibraryTables
<1>2. CASE q.table \in {"packs", "stacks"}
  <2>1. \/ DeleteTargets(d, q) = {x \in DOMAIN d : x[1] = "packs"}
        \/ DeleteTargets(d, q) = {<<"kv_store", StacksPath, 0>>}
    BY <1>2 DEF DeleteTargets
  <2>. QED
    BY <1>1, <1>2, <2>1
<1>3. CASE q.table \notin {"packs", "stacks"}
  <2>1. DeleteTargets(d, q) = {<<q.table, q.id, 0>>}
    BY <1>3 DEF DeleteTargets
  <2>. QED
    BY <1>1, <1>3, <2>1
<1>. QED
  BY <1>2, <1>3

LEMMA NextKeepsLog ==
    ASSUME Traced
    PROVE  TypeOK /\ EffectStands /\ LogInv /\ [Next]_vars => LogInv'
<1>. SUFFICES ASSUME TypeOK, EffectStands, LogInv, [Next]_vars
              PROVE  LogInv'
  OBVIOUS
<1>1. IsDatabase(db) /\ DOMAIN changeLog \subseteq Tables \X Names
  BY DEF TypeOK
<1>2. \A w \in Workers : pc[w] # "idle" =>
          /\ req[w] \in Request
          /\ req[w].table \notin ChildTables \union {"session_turns"}
          /\ ~EnsuresProject(req[w])
  BY ActiveRequest DEF Traced
<1>3. CASE /\ UNCHANGED <<db, changeLog>>
           /\ \A w \in Workers : pc'[w] # "ensure"
           /\ \A w \in Workers : pc[w] = "record" <=> pc'[w] = "record"
           /\ \A w \in Workers : pc[w] = "record" => req'[w] = req[w]
  <2>1. \A k \in Explainable : Underway(k) => Underway(k)'
    <3>. SUFFICES ASSUME NEW k, NEW w \in Workers, pc[w] = "record",
                         IsLogged(req[w]), LogName(req[w]) = <<k[1], k[2]>>
                  PROVE  Underway(k)'
      BY DEF Underway
    <3>1. pc'[w] = "record" /\ req'[w] = req[w]
      BY <1>3
    <3>. QED
      BY <3>1 DEF Underway
  <2>2. Explainable' = Explainable /\ \A k : Explained(k)' <=> Explained(k)
    BY <1>3 DEF Explainable, Explained
  <2>. QED
    BY <1>3, <2>1, <2>2 DEF LogInv
<1>. USE DEF TypeOK, Goto, Return
<1>4. ASSUME NEW w \in Workers,
             Receive(w) \/ Acquire(w) \/ Query(w) \/ Check(w) \/ Reply(w)
      PROVE  LogInv'
  BY <1>3, <1>4 DEF LogInv, Receive, Acquire, Query, Check, Reply
<1>5. ASSUME NEW w \in Workers, ExecWrite(w) PROVE LogInv'
  <2>0. pc[w] = "exec" /\ req[w].op = "write" /\ changeLog' = changeLog
        /\ req' = req
    BY <1>5 DEF ExecWrite
  <2>1. CASE pc'[w] # "record"
    <3>1. db' = db /\ pc' = [pc EXCEPT ![w] = "failed"]
      BY <1>2, <1>5, <2>1 DEF ExecWrite
    <3>. QED
      BY <1>3, <2>0, <3>1 DEF LogInv
  <2>2. CASE pc'[w] = "record"
    <3>. DEFINE k0 == KeyOf(req[w])
    <3>1. pc' = [pc EXCEPT ![w] = "record"]
          /\ db' = Upsert(db, req[w], answer[w].ver)
      BY <1>2, <1>5, <2>2 DEF ExecWrite
    <3>2. /\ DOMAIN db' = DOMAIN db \union {k0}
          /\ \A x \in DOMAIN db : x # k0 => db'[x] = db[x]
      <4>1. req[w] \in Request /\ answer[w].ver \in Int
        BY <1>2, <2>0
      <4>2. /\ DOMAIN Upsert(db, req[w], answer[w].ver) = DOMAIN db \union {k0}
            /\ \A x \in DOMAIN db : x # k0
                 => Upsert(db, req[w], answer[w].ver)[x] = db[x]
        BY <1>1, <4>1, UpsertEffect
      <4>. QED
        BY <3>1, <4>2
    <3>3. /\ k0[1] \notin ChildTables \union {"session_turns"}
          /\ k0[3] = 0
          /\ k0[1] \in LoggedByRow =>
               /\ k0 = <<req[w].table, req[w].id, 0>>
               /\ req[w].table \notin {"packs", "kv_store"}
      BY <1>2, <2>0, TracedKey
    <3>4. \A k \in Explainable' : Explained(k)' \/ Underway(k)'
      <4>. SUFFICES ASSUME NEW k \in Explainable', k[1] \in LoggedByRow
                    PROVE  Explained(k)' \/ Underway(k)'
        BY DEF Explained
      <4>1. CASE k = k0
        <5>1. IsLogged(req[w]) /\ LogName(req[w]) = <<k[1], k[2]>>
          BY <2>0, <3>3, <4>1 DEF IsLogged, LogName
        <5>2. pc'[w] = "record" /\ req'[w] = req[w]
          BY <2>0, <3>1
        <5>. QED
          BY <5>1, <5>2 DEF Underway
      <4>2. CASE k # k0
        <5>1. k \in Explainable
          BY <2>0, <3>2, <4>2 DEF Explainable
        <5>2. CASE Explained(k)
          BY <2>0, <3>2, <4>2, <5>2 DEF Explained
        <5>3. CASE Underway(k)
          <6>1. PICK v \in Workers : pc[v] = "record" /\ IsLogged(req[v])
                                     /\ LogName(req[v]) = <<k[1], k[2]>>
            BY <5>3 DEF Underway
          <6>2. pc'[v] = "record" /\ req'[v] = req[v]
            BY <2>0, <3>1, <6>1
          <6>. QED
            BY <6>1, <6>2 DEF Underway
        <5>. QED
          BY <5>1, <5>2, <5>3 DEF LogInv
      <4>. QED
        BY <4>1, <4>2
    <3>. QED
      BY <2>0, <3>1, <3>2, <3>3, <3>4 DEF LogInv
  <2>. QED
    BY <2>1, <2>2
<1>6. ASSUME NEW w \in Workers, ExecDelete(w) PROVE LogInv'
  <2>0. pc[w] = "exec" /\ req[w].op = "delete" /\ changeLog' = changeLog
        /\ req' = req
    BY <1>6 DEF ExecDelete
  <2>1. CASE pc'[w] # "record"
    <3>1. db' = db /\ pc' = [pc EXCEPT ![w] = "failed"]
      BY <1>6, <2>1 DEF ExecDelete
    <3>. QED
      BY <1>3, <2>0, <3>1 DEF LogInv
  <2>2. CASE pc'[w] = "record"
    <3>. DEFINE T == DeleteTargets(db, req[w])
    <3>1. pc' = [pc EXCEPT ![w] = "record"] /\ db' = DeleteRows(db, T)
      BY <1>6, <2>2 DEF ExecDelete
    <3>2. Dependents(db, T) = {}
      BY DEF LogInv, Dependents, References
    <3>3. DOMAIN db' = DOMAIN db \ T /\ \A x \in DOMAIN db' : db'[x] = db[x]
      <4>1. /\ DOMAIN DeleteRows(db, T) = DOMAIN db \ (T \union Dependents(db, T))
            /\ \A x \in DOMAIN DeleteRows(db, T) : DeleteRows(db, T)[x] = db[x]
        BY <1>1, DeleteRowsType
      <4>. QED
        BY <3>1, <3>2, <4>1
    <3>4. \A k \in Explainable' : Explained(k)' \/ Underway(k)'
      <4>. SUFFICES ASSUME NEW k \in Explainable', k[1] \in LoggedByRow
                    PROVE  Explained(k)' \/ Underway(k)'
        BY DEF Explained
      <4>1. CASE k \in T
        <5>1. k = <<req[w].table, req[w].id, 0>>
              /\ req[w].table \notin {"packs", "stacks", "kv_store"}
          BY <1>2, <2>0, <4>1, TracedTargets
        <5>2. IsLogged(req[w]) /\ LogName(req[w]) = <<k[1], k[2]>>
          BY <5>1 DEF IsLogged, LogName
        <5>3. pc'[w] = "record" /\ req'[w] = req[w]
          BY <2>0, <3>1
        <5>. QED
          BY <5>2, <5>3 DEF Underway
      <4>2. CASE k \notin T
        <5>1. k \in Explainable
          BY <2>0, <3>3 DEF Explainable
        <5>2. CASE Explained(k)
          BY <2>0, <3>3, <4>2, <5>2 DEF Explained
        <5>3. CASE Underway(k)
          <6>1. PICK v \in Workers : pc[v] = "record" /\ IsLogged(req[v])
                                     /\ LogName(req[v]) = <<k[1], k[2]>>
            BY <5>3 DEF Underway
          <6>2. pc'[v] = "record" /\ req'[v] = req[v]
            BY <2>0, <3>1, <6>1
          <6>. QED
            BY <6>1, <6>2 DEF Underway
        <5>. QED
          BY <5>1, <5>2, <5>3 DEF LogInv
      <4>. QED
        BY <4>1, <4>2
    <3>. QED
      BY <2>0, <3>1, <3>3, <3>4 DEF LogInv
  <2>. QED
    BY <2>1, <2>2
<1>7. ASSUME NEW w \in Workers, Record(w) PROVE LogInv'
  <2>1. /\ pc[w] = "record" /\ pc' = [pc EXCEPT ![w] = "done"]
        /\ db' = db /\ req' = req
        /\ IsLogged(req[w]) => changeLog' = Logged(req[w], answer[w].ver)
        /\ ~IsLogged(req[w]) => changeLog' = changeLog
    BY <1>7 DEF Record, Traced
  <2>2. /\ req[w] \in Request /\ req[w].op \in {"write", "delete"}
        /\ Done(db, req[w], answer[w].ver)
        /\ req[w].table \notin ChildTables \union {"session_turns"}
    BY <1>2, <2>1 DEF LogInv, EffectStands
  <2>3. \A k \in Explainable' : Explained(k)' \/ Underway(k)'
    <3>. SUFFICES ASSUME NEW k \in Explainable', k[1] \in LoggedByRow
                  PROVE  Explained(k)' \/ Underway(k)'
      BY DEF Explained
    <3>1. CASE IsLogged(req[w]) /\ LogName(req[w]) = <<k[1], k[2]>>
      <4>1. req[w].table = k[1] /\ req[w].table \notin {"packs", "kv_store"}
        BY <3>1 DEF LogName, LoggedByRow, CasTables, ChildTables, OwnedTables,
                    SlugTables, DocTables, LibraryTables
      <4>2. req[w].id = k[2]
        BY <3>1, <4>1 DEF LogName
      <4>3. k = <<req[w].table, req[w].id, 0>>
        <5>1. CASE k \in DOMAIN db
          <6>1. k = <<k[1], k[2], k[3]>> /\ k[3] = 0
            BY <1>1, <5>1 DEF IsDatabase, Key, LogInv
          <6>. QED
            BY <4>1, <4>2, <6>1
        <5>2. CASE k \notin DOMAIN db
          <6>1. PICK n \in DOMAIN changeLog' : k = <<n[1], n[2], 0>>
            BY <2>1, <5>2 DEF Explainable
          <6>. QED
            BY <4>1, <4>2, <6>1
        <5>. QED
          BY <5>1, <5>2
      <4>4. /\ <<k[1], k[2]>> \in DOMAIN changeLog'
            /\ changeLog'[<<k[1], k[2]>>]
                 = [act |-> IF req[w].op = "write" THEN "upsert" ELSE "delete",
                    ver |-> answer[w].ver]
        BY <2>1, <3>1 DEF Logged, EntryOf
      <4>5. CASE req[w].op = "write"
        <5>1. KeyOf(req[w]) = k
          BY <2>2, <4>1, <4>3 DEF KeyOf
        <5>2. k \in DOMAIN db /\ (k[1] # "sessions" => db[k].ver = answer[w].ver)
          BY <2>2, <4>1, <4>5, <5>1
          DEF Done, UnversionedTables, SessionTables
        <5>. QED
          BY <2>1, <4>4, <4>5, <5>2 DEF Explained
      <4>6. CASE req[w].op = "delete"
        <5>1. DeleteTargets(db, req[w]) = {k}
          BY <2>2, <3>1, <4>1, <4>3, <4>6, TracedTargets DEF IsLogged
        <5>2. k \notin DOMAIN db
          BY <2>2, <4>6, <5>1 DEF Done
        <5>. QED
          BY <2>1, <4>4, <4>6, <5>2 DEF Explained
      <4>. QED
        BY <2>2, <4>5, <4>6
    <3>2. CASE ~(IsLogged(req[w]) /\ LogName(req[w]) = <<k[1], k[2]>>)
      <4>1. k \in DOMAIN db
              \/ \E n \in DOMAIN changeLog' : k = <<n[1], n[2], 0>>
        BY <2>1 DEF Explainable
      <4>2. ASSUME NEW n \in DOMAIN changeLog', k = <<n[1], n[2], 0>>
            PROVE  n \in DOMAIN changeLog
        <5>1. LogName(req[w]) = <<LogName(req[w])[1], LogName(req[w])[2]>>
          BY <2>2 DEF LogName
        <5>. QED
          BY <2>1, <3>2, <4>2, <5>1 DEF Logged
      <4>3. k \in Explainable
        BY <4>1, <4>2 DEF Explainable
      <4>4. /\ <<k[1], k[2]>> \in DOMAIN changeLog
                 => <<k[1], k[2]>> \in DOMAIN changeLog'
            /\ <<k[1], k[2]>> \in DOMAIN changeLog
                 => changeLog'[<<k[1], k[2]>>] = changeLog[<<k[1], k[2]>>]
        BY <2>1, <3>2 DEF Logged
      <4>5. CASE Explained(k)
        BY <2>1, <4>4, <4>5 DEF Explained
      <4>6. CASE Underway(k)
        <5>1. PICK v \in Workers : pc[v] = "record" /\ IsLogged(req[v])
                                   /\ LogName(req[v]) = <<k[1], k[2]>>
          BY <4>6 DEF Underway
        <5>2. v # w /\ pc'[v] = "record" /\ req'[v] = req[v]
          BY <2>1, <3>2, <5>1
        <5>. QED
          BY <5>1, <5>2 DEF Underway
      <4>. QED
        BY <4>3, <4>5, <4>6 DEF LogInv
    <3>. QED
      BY <3>1, <3>2
  <2>. QED
    BY <2>1, <2>3 DEF LogInv
<1>8. ASSUME NEW w \in Workers, EnsureProject(w) PROVE FALSE
  BY <1>8 DEF EnsureProject, LogInv
<1>9. ASSUME NEW i \in Instances, Crash(i) \/ Start(i) PROVE LogInv'
  BY <1>3, <1>9 DEF Crash, Start, Traced, LogInv
<1>10. CASE UNCHANGED vars
  BY <1>3, <1>10 DEF vars, LogInv
<1>. QED
  BY <1>4, <1>5, <1>6, <1>7, <1>8, <1>9, <1>10 DEF Next, Serve, Traced

\* Where no cascade and no failure can come between, the last word of the log on
\* every entity is what its table holds.
THEOREM LogExplains == Alone /\ Traced => (Spec => []LogExplainsStore)
<1>. SUFFICES ASSUME Alone, Traced PROVE Spec => []LogExplainsStore
  OBVIOUS
<1>0. Undisturbed
  BY DEF Undisturbed, Traced
<1>1. Init => LogInv
  BY DEF Init, LogInv, Explainable, Traced
<1>2. TypeOK /\ EffectStands /\ LogInv /\ [Next]_vars => LogInv'
  BY NextKeepsLog
<1>3. LogInv => LogExplainsStore
  BY DEF LogInv, LogExplainsStore, Explained, Underway, Explainable
<1>. QED
  BY <1>0, <1>1, <1>2, <1>3, TypeCorrect, EffectsStand, PTL DEF Spec

=============================================================================
