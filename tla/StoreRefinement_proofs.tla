----------------------- MODULE StoreRefinement_proofs -----------------------
(***************************************************************************)
(* A solitary instance implements the atomic versioned store: every step   *)
(* of a handler is one step of the store or none of it.                    *)
(***************************************************************************)
EXTENDS StoragePlugin_proofs

-----------------------------------------------------------------------------
(* The operators of the schema mean the same in both specifications.       *)

LEMMA SameKeyOf == ASSUME NEW q PROVE Store!KeyOf(q) = KeyOf(q)
BY DEF Store!KeyOf, KeyOf, Store!NoName, NoName, Store!PacksPath, PacksPath

LEMMA SameTables ==
    /\ Store!ChildTables = ChildTables
    /\ Store!OwnedTables = OwnedTables
    /\ Store!DocTables = DocTables
    /\ Store!CasTables = CasTables
    /\ Store!UnversionedTables = UnversionedTables
    /\ Store!NoName = NoName
BY DEF Store!ChildTables, ChildTables, Store!OwnedTables, OwnedTables,
       Store!DocTables, DocTables, Store!CasTables, CasTables,
       Store!SlugTables, SlugTables, Store!LibraryTables, LibraryTables,
       Store!UnversionedTables, UnversionedTables,
       Store!SessionTables, SessionTables, Store!NoName, NoName

LEMMA SameUpserted ==
    ASSUME NEW d, NEW q, NEW ver
    PROVE  Store!Upserted(d, q, ver) = Upserted(d, q, ver)
<1>1. Store!OwnerOf(q) = OwnerOf(q)
  BY SameTables DEF Store!OwnerOf, OwnerOf
<1>. QED
  BY <1>1, SameKeyOf, SameTables DEF Store!Upserted, Upserted

LEMMA SamePut == ASSUME NEW d, NEW k, NEW r PROVE Store!Put(d, k, r) = Put(d, k, r)
BY DEF Store!Put, Put

LEMMA SameUpsert ==
    ASSUME NEW d, NEW q, NEW ver
    PROVE  Store!Upsert(d, q, ver) = Upsert(d, q, ver)
BY SameKeyOf, SameUpserted, SamePut DEF Store!Upsert, Upsert

LEMMA SameReferences ==
    ASSUME NEW k, NEW r PROVE Store!References(k, r) = References(k, r)
BY SameTables DEF Store!References, References

LEMMA SameStorable ==
    ASSUME NEW d, NEW q, NEW ver
    PROVE  Store!Storable(d, q, ver) <=> Storable(d, q, ver)
BY SameKeyOf, SameUpserted, SameReferences DEF Store!Storable, Storable

LEMMA SameInsertProject ==
    ASSUME NEW d, NEW slug
    PROVE  Store!InsertProject(d, slug) = InsertProject(d, slug)
BY DEF Store!InsertProject, InsertProject, Store!Put, Put,
       Store!NoName, NoName

LEMMA SameDelete ==
    ASSUME NEW d, NEW q
    PROVE  /\ Store!DeleteTargets(d, q) = DeleteTargets(d, q)
           /\ Store!Deletable(d, q) <=> Deletable(d, q)
           /\ Store!DeleteRows(d, Store!DeleteTargets(d, q))
                = DeleteRows(d, DeleteTargets(d, q))
<1>1. Store!DeleteTargets(d, q) = DeleteTargets(d, q)
  BY DEF Store!DeleteTargets, DeleteTargets, Store!StacksPath, StacksPath
<1>2. Store!Deletable(d, q) <=> Deletable(d, q)
  BY <1>1 DEF Store!Deletable, Deletable
<1>3. ASSUME NEW keys PROVE Store!DeleteRows(d, keys) = DeleteRows(d, keys)
  <2>1. Store!Dependents(d, keys) = Dependents(d, keys)
    BY SameReferences DEF Store!Dependents, Dependents
  <2>. QED
    BY <2>1 DEF Store!DeleteRows, DeleteRows, Store!Restrict, Restrict
<1>. QED
  BY <1>1, <1>2, <1>3

LEMMA SameRead ==
    ASSUME NEW d, NEW q
    PROVE  /\ Store!Readable(d, q) <=> Readable(d, q)
           /\ Store!ReadAnswer(d, q) = ReadAnswer(d, q)
<1>1. Store!ReadKey(q) = ReadKey(q)
  BY DEF Store!ReadKey, ReadKey
<1>. QED
  BY <1>1 DEF Store!Readable, Readable, Store!ReadAnswer, ReadAnswer

LEMMA SameNewVersion ==
    ASSUME NEW d, NEW q
    PROVE  /\ Store!IsChecked(q) <=> IsChecked(q)
           /\ Store!VersionAt(d, KeyOf(q)) = VersionAt(d, KeyOf(q))
           /\ Store!NewVersion(d, q) = NewVersion(d, q)
<1>1. Store!IsChecked(q) <=> IsChecked(q)
  BY SameKeyOf, SameTables DEF Store!IsChecked, IsChecked
<1>2. Store!VersionAt(d, KeyOf(q)) = VersionAt(d, KeyOf(q))
  BY DEF Store!VersionAt, VersionAt
<1>. QED
  BY <1>1, <1>2, SameKeyOf DEF Store!NewVersion, NewVersion
-----------------------------------------------------------------------------
(* What the handlers decide is what the store would.                       *)

LEMMA StoreVersion ==
    ASSUME NEW q PROVE Store!NextVersion(q) = NewVersion(db, q)
<1>1. CASE IsChecked(q)
  <2>1. NewVersion(db, q) = VersionAt(db, KeyOf(q)) + 1
    BY <1>1 DEF NewVersion
  <2>. QED
    BY <1>1, <2>1, SameNewVersion, SameKeyOf DEF Store!NextVersion
<1>2. CASE ~IsChecked(q)
  BY <1>2, SameNewVersion DEF Store!NextVersion
<1>. QED
  BY <1>1, <1>2

\* An admitted write is permitted, and one that is not admitted is not permitted
\* or names a version no document speaks of.
LEMMA AdmittedIsPermitted ==
    ASSUME IsDatabase(db), KvVersionsPositive(db), NEW q \in Request
    PROVE  /\ Admits(db, q) => Store!Permitted(q)
           /\ ~Admits(db, q) => ~Store!Permitted(q) \/ q.exp < -1
<1>1. Store!Permitted(q) <=>
        (IsChecked(q) =>
           /\ q.exp = 0 => KeyOf(q) \notin DOMAIN db
           /\ q.exp > 0 => KeyOf(q) \in DOMAIN db /\ db[KeyOf(q)].ver = q.exp)
  BY SameKeyOf, SameNewVersion DEF Store!Permitted
<1>2. ASSUME Admits(db, q) PROVE Store!Permitted(q)
  BY <1>1, <1>2, AdmittedIsExact
<1>3. ASSUME ~Admits(db, q), q.exp >= -1 PROVE ~Store!Permitted(q)
  <2>1. q.exp \in Int /\ \A k \in DOMAIN db : db[k].ver \in Int
    BY DEF Request, IsDatabase, Row
  <2>2. CASE q.table \in CasTables /\ ~casCheck(db, KeyOf(q), q.exp)
    <3>1. KeyOf(q)[1] = q.table
      BY <2>2 DEF KeyOf, CasTables, ChildTables, OwnedTables, SlugTables,
                  DocTables, LibraryTables
    <3>2. IsChecked(q)
      BY <2>2, <3>1 DEF IsChecked
    <3>. QED
      BY <1>1, <1>3, <2>1, <2>2, <3>2 DEF casCheck
  <2>3. CASE KeyOf(q)[1] = "kv_store" /\ ~kvCheck(db, KeyOf(q), q.exp)
    <3>1. IsChecked(q)
      BY <2>3 DEF IsChecked
    <3>. QED
      BY <1>1, <1>3, <2>1, <2>3, <3>1 DEF kvCheck, VersionAt
  <2>. QED
    BY <1>3, <2>2, <2>3 DEF Admits
<1>4. q.exp \in Int
  BY DEF Request
<1>. QED
  BY <1>2, <1>3, <1>4

-----------------------------------------------------------------------------
(* What a worker's request and answer look like where it is.               *)

PlaceInv ==
    \A w \in Workers :
        /\ pc[w] = "query" => req[w].op = "read"
        /\ pc[w] \in {"wait", "exec"} => req[w].op # "read"
        /\ pc[w] = "check" => req[w].op = "write"
        /\ pc[w] \in {"idle", "wait", "query", "check"} => answer[w] = NoAnswer
        /\ pc[w] = "exec" => answer[w].body = Blank
        /\ pc[w] = "exec" /\ req[w].op = "delete" => answer[w] = NoAnswer

LEMMA NextKeepsPlaces == TypeOK /\ PlaceInv /\ [Next]_vars => PlaceInv'
<1>. SUFFICES ASSUME TypeOK, PlaceInv, [Next]_vars, NEW v \in Workers
              PROVE  /\ pc'[v] = "query" => req'[v].op = "read"
                     /\ pc'[v] \in {"wait", "exec"} => req'[v].op # "read"
                     /\ pc'[v] = "check" => req'[v].op = "write"
                     /\ pc'[v] \in {"idle", "wait", "query", "check"}
                          => answer'[v] = NoAnswer
                     /\ pc'[v] = "exec" => answer'[v].body = Blank
                     /\ pc'[v] = "exec" /\ req'[v].op = "delete"
                          => answer'[v] = NoAnswer
  BY DEF PlaceInv
<1>1. NoAnswer.body = Blank
  BY DEF NoAnswer
<1>2. CASE pc'[v] = pc[v] /\ req'[v] = req[v] /\ answer'[v] = answer[v]
  BY <1>2 DEF PlaceInv
<1>. USE DEF TypeOK, Goto, Return
<1>3. ASSUME NEW w \in Workers, v # w, Receive(w) \/ Acquire(w) \/ Serve(w)
      PROVE  pc'[v] = pc[v] /\ req'[v] = req[v] /\ answer'[v] = answer[v]
  BY <1>3 DEF Receive, Acquire, Serve, Query, Check, ExecWrite, ExecDelete,
              EnsureProject, Record, Reply
<1>4. CASE Receive(v)
  <2>1. PICK q \in Requests :
            /\ req' = [req EXCEPT ![v] = q]
            /\ pc' = [pc EXCEPT ![v] = IF q.op = "read" THEN "query" ELSE "wait"]
    BY <1>4 DEF Receive
  <2>2. answer'[v] = NoAnswer
    BY <1>4 DEF Receive, PlaceInv
  <2>. QED
    BY <2>1, <2>2
<1>5. CASE Acquire(v)
  <2>1. /\ req[v].op # "read" /\ answer[v] = NoAnswer
        /\ req' = req /\ answer' = answer
        /\ pc'[v] = IF req[v].op = "write" THEN "check" ELSE "exec"
    BY <1>5 DEF Acquire, PlaceInv
  <2>. QED
    BY <1>1, <2>1
<1>6. CASE Check(v)
  <2>1. /\ req[v].op = "write" /\ req' = req
        /\ pc'[v] \in {"exec", "failed"}
        /\ answer'[v].body = answer[v].body
        /\ answer[v] = NoAnswer
    BY <1>6 DEF Check, PlaceInv
  <2>. QED
    BY <1>1, <2>1
<1>7. ASSUME Query(v) \/ ExecWrite(v) \/ ExecDelete(v) \/ EnsureProject(v)
               \/ Record(v)
      PROVE  pc'[v] \in {"ensure", "record", "done", "failed"}
  BY <1>7 DEF Query, ExecWrite, ExecDelete, EnsureProject, Record
<1>8. CASE Reply(v)
  BY <1>8 DEF Reply
<1>9. ASSUME NEW i \in Instances, Crash(i)
      PROVE  \/ pc'[v] = pc[v] /\ req'[v] = req[v] /\ answer'[v] = answer[v]
             \/ pc'[v] = "idle" /\ answer'[v] = NoAnswer
  BY <1>9 DEF Crash
<1>10. ASSUME NEW i \in Instances, Start(i)
       PROVE  pc'[v] = pc[v] /\ req'[v] = req[v] /\ answer'[v] = answer[v]
  BY <1>10 DEF Start
<1>11. CASE UNCHANGED <<pc, req, answer>>
  BY <1>2, <1>11
<1>. QED
  BY <1>2, <1>3, <1>4, <1>5, <1>6, <1>7, <1>8, <1>9, <1>10, <1>11
  DEF Next, Serve, BootstrapProject, vars
-----------------------------------------------------------------------------
(* Every step maps to a step or a stutter.                                 *)

Status == [w \in Workers |-> StatusOf(pc[w])]
Answers == [w \in Workers |-> AnswerOf(pc[w], answer[w])]

\* A worker that moves changes what its own client has seen.
LEMMA WorkerMoves ==
    ASSUME TypeOK, NEW w \in Workers, NEW label,
           pc' = [pc EXCEPT ![w] = label],
           \A v \in Workers : v # w => answer'[v] = answer[v]
    PROVE  /\ Status' = [Status EXCEPT ![w] = StatusOf(label)]
           /\ Answers' = [Answers EXCEPT ![w] = AnswerOf(label, answer'[w])]
<1>1. pc'[w] = label /\ \A v \in Workers : v # w => pc'[v] = pc[v]
  BY DEF TypeOK
<1>2. \A v \in Workers :
        StatusOf(pc'[v]) = IF v = w THEN StatusOf(label) ELSE StatusOf(pc[v])
  BY <1>1
<1>3. \A v \in Workers :
        AnswerOf(pc'[v], answer'[v]) =
          IF v = w THEN AnswerOf(label, answer'[w]) ELSE AnswerOf(pc[v], answer[v])
  BY <1>1
<1>. QED
  BY <1>2, <1>3 DEF Status, Answers

\* Nor is a move seen that leaves the client where it was.
LEMMA WorkerStutters ==
    ASSUME NEW w \in Workers, NEW label, NEW ans,
           Status' = [Status EXCEPT ![w] = StatusOf(label)],
           Answers' = [Answers EXCEPT ![w] = AnswerOf(label, ans)],
           StatusOf(label) = StatusOf(pc[w]),
           AnswerOf(label, ans) = AnswerOf(pc[w], answer[w])
    PROVE  Status' = Status /\ Answers' = Answers
BY DEF Status, Answers

LEMMA StepImplements ==
    ASSUME Solitary
    PROVE  TypeOK /\ CheckedInv /\ KvInv /\ PlaceInv /\ [Next]_vars
             => [Store!Next]_(Store!vars)
<1>. SUFFICES ASSUME TypeOK, CheckedInv, KvInv, PlaceInv, [Next]_vars
              PROVE  [Store!Next]_(Store!vars)
  OBVIOUS
<1>1. /\ IsDatabase(db) /\ KvVersionsPositive(db)
      /\ answer \in [Workers -> [ver : Int, body : Bodies]]
  BY DEF TypeOK, KvInv
<1>2. ASSUME UNCHANGED <<db, req>>, Status' = Status, Answers' = Answers
      PROVE  UNCHANGED Store!vars
  BY <1>2 DEF Store!vars, Status, Answers
<1>3. ASSUME NEW w \in Workers, Receive(w) PROVE Store!Invoke(w)
  <2>1. PICK q \in Requests, label \in {"query", "wait"} :
            /\ req' = [req EXCEPT ![w] = q]
            /\ pc' = [pc EXCEPT ![w] = label]
    BY <1>3 DEF Receive, Goto
  <2>2. pc[w] = "idle" /\ db' = db /\ answer' = answer
    BY <1>3 DEF Receive
  <2>3. /\ Status' = [Status EXCEPT ![w] = StatusOf(label)]
        /\ Answers' = [Answers EXCEPT ![w] = AnswerOf(label, answer'[w])]
    BY <2>1, <2>2, WorkerMoves
  <2>4. Status[w] = "idle" /\ StatusOf(label) = "pending"
    BY <2>1, <2>2 DEF Status, StatusOf
  <2>5. Answers' = Answers
    BY <2>1, <2>2, <2>3 DEF Answers, AnswerOf
  <2>. QED
    BY <2>1, <2>2, <2>3, <2>4, <2>5 DEF Store!Invoke, Status, Answers
<1>4. ASSUME NEW w \in Workers, pc[w] \in {"query", "check", "exec"},
             UNCHANGED <<db, req>>, pc' = [pc EXCEPT ![w] = "failed"],
             answer' = answer,
             ~Store!CanDo(req[w]) \/ Store!Undocumented(req[w]) \/ Faults # {}
      PROVE  Store!Refuse(w)
  <2>1. /\ Status' = [Status EXCEPT ![w] = StatusOf("failed")]
        /\ Answers' = [Answers EXCEPT ![w] = AnswerOf("failed", answer'[w])]
    BY <1>4, WorkerMoves
  <2>2. Status[w] = "pending" /\ StatusOf("failed") = "failed"
    BY <1>4 DEF Status, StatusOf
  <2>3. Answers' = Answers
    BY <1>4, <2>1 DEF Answers, AnswerOf
  <2>. QED
    BY <1>4, <2>1, <2>2, <2>3 DEF Store!Refuse, Status, Answers
<1>5. ASSUME NEW w \in Workers, pc[w] \in {"query", "exec"}, req' = req,
             NEW label \in {"ensure", "record", "done"},
             pc' = [pc EXCEPT ![w] = label],
             \A v \in Workers : v # w => answer'[v] = answer[v],
             Store!CanDo(req[w]),
             \/ /\ req[w].op = "write"
                /\ db' = Upsert(db, req[w], NewVersion(db, req[w]))
                /\ answer'[w] = [ver |-> NewVersion(db, req[w]), body |-> Blank]
             \/ /\ req[w].op = "delete"
                /\ db' = DeleteRows(db, DeleteTargets(db, req[w]))
                /\ answer'[w] = NoAnswer
             \/ /\ req[w].op = "read"
                /\ db' = db
                /\ answer'[w] = ReadAnswer(db, req[w])
      PROVE  Store!Effect(w)
  <2>1. /\ Status' = [Status EXCEPT ![w] = StatusOf(label)]
        /\ Answers' = [Answers EXCEPT ![w] = AnswerOf(label, answer'[w])]
    BY <1>5, WorkerMoves
  <2>2. /\ Status[w] = "pending" /\ StatusOf(label) = "ok"
        /\ AnswerOf(label, answer'[w]) = answer'[w]
    BY <1>5 DEF Status, StatusOf, AnswerOf
  <2>3. Store!Accept(w, answer'[w])
    BY <1>5, <2>1, <2>2 DEF Store!Accept, Status, Answers
  <2>4. /\ Store!NextVersion(req[w]) = NewVersion(db, req[w])
        /\ Store!NoAnswer = NoAnswer
    BY StoreVersion DEF Store!NoAnswer, NoAnswer
  <2>5. /\ Store!Upsert(db, req[w], NewVersion(db, req[w]))
             = Upsert(db, req[w], NewVersion(db, req[w]))
        /\ Store!DeleteRows(db, Store!DeleteTargets(db, req[w]))
             = DeleteRows(db, DeleteTargets(db, req[w]))
        /\ Store!ReadAnswer(db, req[w]) = ReadAnswer(db, req[w])
    BY SameUpsert, SameDelete, SameRead
  <2>. QED
    BY <1>5, <2>2, <2>3, <2>4, <2>5 DEF Store!Effect, Status
<1>6. ASSUME NEW w \in Workers, Query(w)
      PROVE  Store!Effect(w) \/ Store!Refuse(w)
  <2>1. req[w].op = "read" /\ pc[w] = "query" /\ UNCHANGED <<db, req>>
    BY <1>6 DEF Query, PlaceInv
  <2>2. Store!CanDo(req[w]) <=> Readable(db, req[w])
    BY <2>1, SameRead DEF Store!CanDo
  <2>3. CASE /\ Readable(db, req[w])
             /\ answer' = [answer EXCEPT ![w] = ReadAnswer(db, req[w])]
             /\ Goto(w, "done")
    <3>1. /\ answer'[w] = ReadAnswer(db, req[w])
          /\ \A v \in Workers : v # w => answer'[v] = answer[v]
      BY <1>1, <2>3
    <3>. QED
      BY <1>5, <2>1, <2>2, <2>3, <3>1 DEF Goto
  <2>4. CASE /\ ~Readable(db, req[w]) \/ "query" \in Faults
             /\ Goto(w, "failed")
             /\ UNCHANGED answer
    BY <1>4, <2>1, <2>2, <2>4 DEF Goto
  <2>. QED
    BY <1>6, <2>3, <2>4 DEF Query
<1>7. ASSUME NEW w \in Workers, Acquire(w) PROVE UNCHANGED Store!vars
  <2>1. PICK label \in {"check", "exec"} : pc' = [pc EXCEPT ![w] = label]
    BY <1>7 DEF Acquire, Goto
  <2>2. pc[w] = "wait" /\ UNCHANGED <<db, req, answer>>
    BY <1>7 DEF Acquire
  <2>3. /\ Status' = [Status EXCEPT ![w] = StatusOf(label)]
        /\ Answers' = [Answers EXCEPT ![w] = AnswerOf(label, answer'[w])]
    BY <2>1, <2>2, WorkerMoves
  <2>4. /\ StatusOf(label) = StatusOf(pc[w])
        /\ AnswerOf(label, answer'[w]) = AnswerOf(pc[w], answer[w])
    BY <2>1, <2>2 DEF StatusOf, AnswerOf
  <2>. QED
    BY <1>2, <2>2, <2>3, <2>4, WorkerStutters
<1>8. ASSUME NEW w \in Workers, Check(w)
      PROVE  Store!Refuse(w) \/ UNCHANGED Store!vars
  <2>1. /\ pc[w] = "check" /\ req[w].op = "write" /\ UNCHANGED <<db, req>>
        /\ req[w] \in Request
    BY <1>8, ActiveRequest DEF Check, PlaceInv
  <2>2. CASE /\ Admits(db, req[w])
             /\ answer' = [answer EXCEPT ![w].ver = NewVersion(db, req[w])]
             /\ Goto(w, "exec")
    <3>1. \A v \in Workers : v # w => answer'[v] = answer[v]
      BY <1>1, <2>2
    <3>2. /\ Status' = [Status EXCEPT ![w] = StatusOf("exec")]
          /\ Answers' = [Answers EXCEPT ![w] = AnswerOf("exec", answer'[w])]
      BY <2>2, <3>1, WorkerMoves DEF Goto
    <3>3. /\ StatusOf("exec") = StatusOf(pc[w])
          /\ AnswerOf("exec", answer'[w]) = AnswerOf(pc[w], answer[w])
      BY <2>1 DEF StatusOf, AnswerOf
    <3>. QED
      BY <1>2, <2>1, <3>2, <3>3, WorkerStutters
  <2>3. CASE ~Admits(db, req[w]) /\ Return(w, "failed") /\ UNCHANGED answer
    <3>1. ~Store!Permitted(req[w]) \/ req[w].exp < -1
      BY <1>1, <2>1, <2>3, AdmittedIsPermitted
    <3>2. ~Store!CanDo(req[w]) \/ Store!Undocumented(req[w])
      BY <2>1, <3>1 DEF Store!CanDo, Store!Undocumented
    <3>. QED
      BY <1>4, <2>1, <2>3, <3>2 DEF Return, Goto
  <2>. QED
    BY <1>8, <2>2, <2>3 DEF Check, Seen, Solitary
<1>9. ASSUME NEW w \in Workers, ExecWrite(w)
      PROVE  Store!Effect(w) \/ Store!Refuse(w)
  <2>1. /\ pc[w] = "exec" /\ req[w].op = "write"
        /\ UNCHANGED <<req, answer>> /\ req[w] \in Request
    BY <1>9, ActiveRequest DEF ExecWrite
  <2>2. Admits(db, req[w]) /\ answer[w].ver = NewVersion(db, req[w])
    BY <2>1 DEF CheckedInv
  <2>3. answer[w] = [ver |-> NewVersion(db, req[w]), body |-> Blank]
    <3>1. answer[w] \in [ver : Int, body : Bodies] /\ answer[w].body = Blank
      BY <1>1, <2>1 DEF PlaceInv
    <3>. QED
      BY <2>2, <3>1
  <2>4. Store!CanDo(req[w]) <=> Storable(db, req[w], NewVersion(db, req[w]))
    <3>1. Store!Permitted(req[w])
      BY <1>1, <2>1, <2>2, AdmittedIsPermitted
    <3>. QED
      BY <2>1, <3>1, StoreVersion, SameStorable DEF Store!CanDo
  <2>5. CASE /\ Storable(db, req[w], answer[w].ver)
             /\ db' = Upsert(db, req[w], answer[w].ver)
             /\ Goto(w, IF EnsuresProject(req[w]) THEN "ensure" ELSE "record")
    BY <1>5, <2>1, <2>2, <2>3, <2>4, <2>5 DEF Goto
  <2>6. CASE /\ ~Storable(db, req[w], answer[w].ver) \/ "exec" \in Faults
             /\ Return(w, "failed")
             /\ UNCHANGED db
    BY <1>4, <2>1, <2>2, <2>4, <2>6 DEF Return, Goto
  <2>. QED
    BY <1>9, <2>5, <2>6 DEF ExecWrite
<1>10. ASSUME NEW w \in Workers, ExecDelete(w)
       PROVE  Store!Effect(w) \/ Store!Refuse(w)
  <2>1. /\ pc[w] = "exec" /\ req[w].op = "delete"
        /\ UNCHANGED <<req, answer>> /\ answer[w] = NoAnswer
    BY <1>10 DEF ExecDelete, PlaceInv
  <2>2. Store!CanDo(req[w]) <=> Deletable(db, req[w])
    BY <2>1, SameDelete DEF Store!CanDo
  <2>3. CASE /\ Deletable(db, req[w])
             /\ db' = DeleteRows(db, DeleteTargets(db, req[w]))
             /\ Goto(w, "record")
    BY <1>5, <2>1, <2>2, <2>3 DEF Goto
  <2>4. CASE /\ ~Deletable(db, req[w]) \/ "exec" \in Faults
             /\ Return(w, "failed")
             /\ UNCHANGED db
    BY <1>4, <2>1, <2>2, <2>4 DEF Return, Goto
  <2>. QED
    BY <1>10, <2>3, <2>4 DEF ExecDelete
<1>11. ASSUME NEW w \in Workers, EnsureProject(w)
       PROVE  \/ \E slug \in Names : Store!DefaultProject(slug)
              \/ UNCHANGED Store!vars
  <2>1. /\ pc[w] = "ensure" /\ UNCHANGED <<req, answer>>
        /\ pc' = [pc EXCEPT ![w] = "record"]
        /\ req[w].proj \in Names
    BY <1>11, ActiveRequest DEF EnsureProject, Goto, Request
  <2>2. /\ Status' = [Status EXCEPT ![w] = StatusOf("record")]
        /\ Answers' = [Answers EXCEPT ![w] = AnswerOf("record", answer'[w])]
    BY <2>1, WorkerMoves
  <2>3. /\ StatusOf("record") = StatusOf(pc[w])
        /\ AnswerOf("record", answer'[w]) = AnswerOf(pc[w], answer[w])
    BY <2>1 DEF StatusOf, AnswerOf
  <2>4. Status' = Status /\ Answers' = Answers
    BY <2>2, <2>3, WorkerStutters
  <2>5. CASE db' = InsertProject(db, req[w].proj)
    <3>1. Store!DefaultProject(req[w].proj)
      BY <2>1, <2>4, <2>5, SameInsertProject
      DEF Store!DefaultProject, Status, Answers
    <3>. QED
      BY <2>1, <3>1
  <2>6. CASE db' = db
    BY <1>2, <2>1, <2>4, <2>6
  <2>. QED
    BY <1>11, <2>5, <2>6 DEF EnsureProject
<1>12. ASSUME NEW w \in Workers, Record(w) PROVE UNCHANGED Store!vars
  <2>1. /\ pc[w] = "record" /\ UNCHANGED <<db, req, answer>>
        /\ pc' = [pc EXCEPT ![w] = "done"]
    BY <1>12 DEF Record, Return, Goto
  <2>2. /\ Status' = [Status EXCEPT ![w] = StatusOf("done")]
        /\ Answers' = [Answers EXCEPT ![w] = AnswerOf("done", answer'[w])]
    BY <2>1, WorkerMoves
  <2>3. /\ StatusOf("done") = StatusOf(pc[w])
        /\ AnswerOf("done", answer'[w]) = AnswerOf(pc[w], answer[w])
    BY <2>1 DEF StatusOf, AnswerOf
  <2>. QED
    BY <1>2, <2>1, <2>2, <2>3, WorkerStutters
<1>13. ASSUME NEW w \in Workers, Reply(w) PROVE Store!Respond(w)
  <2>1. /\ pc[w] \in {"done", "failed"} /\ db' = db
        /\ pc' = [pc EXCEPT ![w] = "idle"]
        /\ req' = [req EXCEPT ![w] = NoRequest]
        /\ answer' = [answer EXCEPT ![w] = NoAnswer]
    BY <1>13 DEF Reply, Goto
  <2>2. \A v \in Workers : v # w => answer'[v] = answer[v]
    BY <1>1, <2>1
  <2>3. /\ Status' = [Status EXCEPT ![w] = StatusOf("idle")]
        /\ Answers' = [Answers EXCEPT ![w] = AnswerOf("idle", answer'[w])]
    BY <2>1, <2>2, WorkerMoves
  <2>4. /\ Status[w] \in {"ok", "failed"} /\ StatusOf("idle") = "idle"
        /\ AnswerOf("idle", answer'[w]) = Store!NoAnswer
    BY <2>1 DEF Status, StatusOf, AnswerOf, Store!NoAnswer, NoAnswer
  <2>. QED
    BY <2>1, <2>3, <2>4 DEF Store!Respond, Status, Answers
<1>14. ASSUME NEW i \in Instances, Crash(i)
       PROVE  \E S \in SUBSET Workers : Store!Abandon(S)
  <2>. DEFINE S == {w \in Workers : InstanceOf[w] = i}
  <2>1. /\ db' = db
        /\ pc' = [w \in Workers |-> IF w \in S THEN "idle" ELSE pc[w]]
        /\ req' = [w \in Workers |-> IF w \in S THEN NoRequest ELSE req[w]]
        /\ answer' = [w \in Workers |-> IF w \in S THEN NoAnswer ELSE answer[w]]
    BY <1>14 DEF Crash
  <2>. HIDE DEF S
  <2>2. Status' = [w \in Workers |-> IF w \in S THEN "idle" ELSE Status[w]]
    BY <2>1 DEF Status, StatusOf
  <2>3. Answers' = [w \in Workers |->
                      IF w \in S THEN Store!NoAnswer ELSE Answers[w]]
    BY <2>1 DEF Answers, AnswerOf, Store!NoAnswer, NoAnswer
  <2>4. Store!Abandon(S)
    BY <2>1, <2>2, <2>3 DEF Store!Abandon, Status, Answers
  <2>5. S \in SUBSET Workers
    BY DEF S
  <2>. QED
    BY <2>4, <2>5
<1>15. ASSUME NEW i \in Instances, Start(i) PROVE UNCHANGED Store!vars
  BY <1>15 DEF Start, Store!vars
<1>16. CASE UNCHANGED vars
  BY <1>16 DEF vars, Store!vars
<1>. QED
  BY <1>3, <1>6, <1>7, <1>8, <1>9, <1>10, <1>11, <1>12, <1>13, <1>14, <1>15,
     <1>16
  DEF Next, Serve, Store!Next, Solitary

LEMMA InitImplements == Init => Store!Init
<1>. SUFFICES ASSUME Init PROVE Store!Init
  OBVIOUS
<1>1. db \in Seeds /\ req = [w \in Workers |-> NoRequest]
  BY DEF Init
<1>2. [w \in Workers |-> StatusOf(pc[w])] = [w \in Workers |-> "idle"]
  BY DEF Init, StatusOf
<1>3. [w \in Workers |-> AnswerOf(pc[w], answer[w])]
        = [w \in Workers |-> Store!NoAnswer]
  BY DEF Init, AnswerOf, Store!NoAnswer, NoAnswer
<1>. QED
  BY <1>1, <1>2, <1>3 DEF Store!Init

\* On a solitary instance Write, Delete and Read, several statements each and
\* under way together, are single steps of the versioned store.
THEOREM Implements == Solitary => (Spec => ImplementsStore)
<1>. SUFFICES ASSUME Solitary PROVE Spec => Store!Spec
  BY DEF ImplementsStore
<1>1. Init => PlaceInv
  BY DEF Init, PlaceInv
<1>2. TypeOK /\ PlaceInv /\ [Next]_vars => PlaceInv'
  BY NextKeepsPlaces
<1>3. Spec => []PlaceInv
  BY <1>1, <1>2, TypeCorrect, PTL DEF Spec
<1>4. TypeOK /\ CheckedInv /\ KvInv /\ PlaceInv /\ [Next]_vars
        => [Store!Next]_(Store!vars)
  BY StepImplements
<1>. QED
  BY <1>3, <1>4, InitImplements, TypeCorrect, ChecksStand, KvVersions, PTL
  DEF Spec, Store!Spec

=============================================================================
