--------------------------- MODULE SyncFeed_proofs ---------------------------
(***************************************************************************)
(* What holds of SyncFeed for any requests, any database to begin with,    *)
(* any limit and any number of faults.                                     *)
(***************************************************************************)
EXTENDS SyncFeed, Paths_proofs, FiniteSetTheorems

-----------------------------------------------------------------------------
(* The inductive invariant.                                                *)

\* The change of entity n is committed and about to be logged.
Pending(n) == \E i \in Instances : pending[i] # Nothing /\ pending[i].name = n

\* The engine has yet to apply entry i.
Unapplied(i) ==
    i \in Ids \ synced /\ ~(stage = "apply" /\ i <= maxID /\ i \notin batch)

Awaited(n) == \E i \in Ids : Unapplied(i) /\ log[i].name = n

\* What the engine holds of k is what the tables have.
HeldFresh(k) ==
    held.some /\ held.key = k /\ k \in DOMAIN db /\ held.row = Shape(db[k])

\* Discovery, not on record yet, will come to k.
Undiscovered(k) ==
    /\ ~cursor
    /\ k \in DOMAIN db
    /\ Discoverable(k, db[k])
    /\ \/ stage = "start"
       \/ stage = "list" /\ \E j \in next .. Len(EntityQueries) : EntityQueries[j] = k[1]
       \/ stage \in {"list", "visit"} /\ PathOf(k, db[k]) \in found
       \/ stage = "visit" /\ HeldFresh(k)

\* The engine holds k for a change that is not marked: if it dies now it will
\* fetch the change again.
BeingApplied(k) ==
    /\ stage = "apply"
    /\ HeldFresh(k)
    /\ \E i \in Ids \ synced : log[i].name = NameOf(k)

\* The marks are a prefix of the log, and a batch is taken from its low end.
InOrder ==
    /\ \A i \in synced : \A j \in Ids : j < i => j \in synced
    /\ stage = "apply" =>
         /\ batch \subseteq Ids \ synced
         /\ \A i \in batch :
              i <= maxID /\ \A j \in Ids : i < j /\ j <= maxID => j \in batch

\* A change about to be logged tells whether its row is there.
PendingWord ==
    \A i \in Instances : \A k \in Key :
        pending[i] # Nothing /\ pending[i].name = NameOf(k) /\ Followed(k) =>
            (pending[i].act = "delete" <=> k \notin DOMAIN db)

\* So does the last entry about it, when no change is about to be logged.
LastWord ==
    \A k \in Key : \A i \in Ids :
        /\ Followed(k) /\ NameOf(k) \notin missed /\ ~Pending(NameOf(k))
        /\ log[i].name = NameOf(k)
        /\ \A j \in Ids : log[j].name = NameOf(k) => j <= i
        => (log[i].act = "delete" <=> k \notin DOMAIN db)

\* Where the copy differs, something is on its way that will mend it.
MendedAt(k) ==
    \/ Agree(k)
    \/ Pending(NameOf(k))
    \/ Awaited(NameOf(k))
    \/ BeingApplied(k)
    \/ Undiscovered(k)

\* What is held may be stale, but then its next change will follow.
HeldMendedAt(k) ==
    held.some /\ held.key = k =>
        HeldFresh(k) \/ Pending(NameOf(k)) \/ Awaited(NameOf(k))

Mended ==
    \A k \in Key : Followed(k) /\ NameOf(k) \notin missed =>
        MendedAt(k) /\ HeldMendedAt(k)

Inv == InOrder /\ PendingWord /\ LastWord /\ Mended

-----------------------------------------------------------------------------
(* Types.                                                                  *)

Pushed == [ver : Int, body : Bodies]

LEMMA EmptyTypes ==
    /\ NoHold \in [key : Key, some : BOOLEAN, row : Pushed]
    /\ NoHold.some = FALSE
    /\ Nothing \notin Entry
    /\ Nothing.act = "none"
<1>1. <<"kv_store", NoName, 0>> \in Key
  BY NamesAssumption DEF Key, Tables
<1>2. [ver |-> 0, body |-> Blank] \in Pushed
  BY NamesAssumption DEF Pushed
<1>. QED
  BY <1>1, <1>2 DEF NoHold, Nothing, Entry, Pushed

LEMMA EntryOfType ==
    ASSUME NEW q \in Request
    PROVE  EntryOf(q) \in Entry
<1>1. q.table \in Tables /\ q.id \in Names /\ "registry" \in Names
  BY NamesAssumption DEF Request
<1>. QED
  BY <1>1 DEF EntryOf, Entry

LEMMA ShapeType ==
    ASSUME IsDatabase(db), NEW k \in DOMAIN db
    PROVE  Shape(db[k]) \in Pushed /\ k \in Key
BY DEF IsDatabase, Row, Shape, Pushed

LEMMA FetchType ==
    ASSUME IsDatabase(db), NEW k, Fetch(k)
    PROVE  held' \in [key : Key, some : BOOLEAN, row : Pushed]
<1>1. CASE k \in DOMAIN db
  <2>1. held' = [key |-> k, some |-> TRUE, row |-> Shape(db[k])]
    BY <1>1 DEF Fetch
  <2>. QED
    BY <1>1, <2>1, ShapeType
<1>2. CASE k \notin DOMAIN db
  BY <1>2, EmptyTypes DEF Fetch
<1>. QED
  BY <1>1, <1>2

LEMMA ChangedType ==
    ASSUME NEW d, IsDatabase(d), NEW e, IsDatabase(e)
    PROVE  Changed(d, e) \subseteq Tables \X Names
<1>. SUFFICES ASSUME NEW k \in DOMAIN d \union DOMAIN e
              PROVE  NameOf(k) \in Tables \X Names
  BY DEF Changed
<1>1. k \in Key
  BY DEF IsDatabase
<1>. QED
  BY <1>1 DEF Key, NameOf

LEMMA NamesType ==
    ASSUME IsDatabase(db), NEW S \in SUBSET DOMAIN db
    PROVE  {NameOf(k) : k \in S} \subseteq Tables \X Names
BY DEF IsDatabase, Key, NameOf

LEMMA InitTyped == Init => TypeOK
<1>. SUFFICES ASSUME Init PROVE TypeOK
  OBVIOUS
<1>1. IsDatabase(db)
  BY FeedAssumption DEF Init
<1>2. missed \subseteq Tables \X Names
  BY <1>1, NamesType DEF Init
<1>3. 1 \in 1 .. Len(EntityQueries) + 1
  BY DEF EntityQueries
<1>4. log \in Seq(Entry) /\ Len(log) = 0
  BY DEF Init
<1>5. pending \in [Instances -> Entry \union {Nothing}] /\ faults \in 0 .. MaxFaults
  BY FeedAssumption DEF Init
<1>6. held \in [key : Key, some : BOOLEAN, row : Pushed]
  BY EmptyTypes DEF Init
<1>7. DOMAIN remote \subseteq Key /\ remote \in [DOMAIN remote -> Pushed]
  BY DEF Init
<1>8. /\ cursor \in BOOLEAN /\ stage = "start" /\ next = 1
      /\ synced = {} /\ batch = {} /\ maxID = 0
  BY DEF Init
<1>. QED
  BY <1>1, <1>2, <1>3, <1>4, <1>5, <1>6, <1>7, <1>8 DEF TypeOK, Pushed

LEMMA NextTyped == TypeOK /\ [Next]_vars => TypeOK'
<1>. SUFFICES ASSUME TypeOK, [Next]_vars PROVE TypeOK'
  OBVIOUS
<1>. USE DEF tables, engine
<1>0. /\ IsDatabase(db) /\ log \in Seq(Entry) /\ missed \subseteq Tables \X Names
      /\ Len(EntityQueries) = 11 /\ faults \in 0 .. MaxFaults /\ MaxFaults \in Nat
  BY FeedAssumption DEF TypeOK, EntityQueries
<1>1. ASSUME NEW i \in Instances, Commit(i) PROVE TypeOK'
  <2>1. PICK q \in Requests :
           /\ db' = After(db, q)
           /\ \/ /\ pending' = [pending EXCEPT ![i] = EntryOf(q)]
                 /\ missed' = missed \union (Changed(db, After(db, q)) \ {EntryOf(q).name})
              \/ /\ missed' = missed \union Changed(db, After(db, q))
                 /\ pending' = pending
    BY <1>1 DEF Commit
  <2>2. q \in Request
    BY FeedAssumption
  <2>3. IsDatabase(db') /\ EntryOf(q) \in Entry
    BY <1>0, <2>1, <2>2, AfterType, EntryOfType
  <2>4. Changed(db, After(db, q)) \subseteq Tables \X Names
    BY <1>0, <2>1, <2>3, ChangedType
  <2>5. missed' \subseteq Tables \X Names
    BY <1>0, <2>1, <2>4
  <2>. QED
    BY <1>1, <2>1, <2>3, <2>5 DEF Commit, TypeOK, Ids
<1>2. ASSUME NEW i \in Instances, Record(i) PROVE TypeOK'
  <2>1. pending[i] \in Entry
    BY <1>2 DEF Record, TypeOK
  <2>2. log' \in Seq(Entry) /\ Len(log') = Len(log) + 1 /\ Len(log) \in Nat
    BY <1>0, <1>2, <2>1 DEF Record
  <2>3. Ids \subseteq Ids' /\ 0 .. Len(log) \subseteq 0 .. Len(log')
    BY <2>2 DEF Ids
  <2>4. missed' \subseteq Tables \X Names /\ pending' \in [Instances -> Entry \union {Nothing}]
    BY <1>0, <1>2 DEF Record, TypeOK
  <2>. QED
    BY <1>2, <2>2, <2>3, <2>4 DEF Record, TypeOK
<1>3. ASSUME NEW i \in Instances, LoseRecord(i) PROVE TypeOK'
  <2>1. pending[i] \in Entry
    BY <1>3 DEF LoseRecord, TypeOK
  <2>2. pending[i].name \in Tables \X Names
    BY <2>1 DEF Entry
  <2>3. missed' \subseteq Tables \X Names
    BY <1>0, <1>3, <2>2 DEF LoseRecord
  <2>4. faults' \in 0 .. MaxFaults
    BY <1>0, <1>3 DEF LoseRecord, Fault
  <2>. QED
    BY <1>3, <2>3, <2>4 DEF LoseRecord, TypeOK, Ids
<1>4. CASE GetSyncCursor
  <2>1. faults' \in 0 .. MaxFaults /\ next' \in 1 .. Len(EntityQueries) + 1
    BY <1>0, <1>4 DEF GetSyncCursor, Fault
  <2>2. stage' \in {"start", "list", "visit", "poll", "apply"}
    BY <1>4 DEF GetSyncCursor
  <2>. QED
    BY <1>4, <2>1, <2>2 DEF GetSyncCursor, TypeOK, Ids
<1>5. CASE ListNext
  <2>1. faults' \in 0 .. MaxFaults
    BY <1>0, <1>5 DEF ListNext, Fault
  <2>2. next' \in 1 .. Len(EntityQueries) + 1
    BY <1>0, <1>5 DEF ListNext, TypeOK
  <2>3. missed' \subseteq Tables \X Names
    <3>1. Shown(db, EntityQueries[next]) \subseteq DOMAIN db
      BY DEF Shown
    <3>2. {NameOf(k) : k \in Shown(db, EntityQueries[next])} \subseteq Tables \X Names
      BY <1>0, <3>1, NamesType
    <3>. QED
      BY <1>0, <1>5, <3>2 DEF ListNext
  <2>. QED
    BY <1>5, <2>1, <2>2, <2>3 DEF ListNext, TypeOK, Ids
<1>6. CASE Visit
  <2>1. held' \in [key : Key, some : BOOLEAN, row : Pushed]
    BY <1>0, <1>6, FetchType DEF Visit
  <2>. QED
    BY <1>6, <2>1 DEF Visit, TypeOK, Ids, Pushed
<1>7. CASE SetSyncCursor
  BY <1>7 DEF SetSyncCursor, TypeOK, Ids
<1>8. CASE Push
  <2>1. held.key \in Key /\ held.row \in Pushed
    BY DEF TypeOK, Pushed
  <2>2. DOMAIN remote' \subseteq Key /\ remote' \in [DOMAIN remote' -> Pushed]
    BY <1>8, <2>1 DEF Push, Put, TypeOK, Pushed
  <2>. QED
    BY <1>8, <2>2, EmptyTypes DEF Push, TypeOK, Ids, Pushed
<1>9. CASE GetUnsyncedChanges
  <2>1. batch' \subseteq Ids /\ maxID' \in Ids
    BY <1>9 DEF GetUnsyncedChanges, Unsynced
  <2>. QED
    BY <1>0, <1>9, <2>1 DEF GetUnsyncedChanges, TypeOK, Ids
<1>10. CASE ApplyChange
  <2>1. PICK i \in batch :
          /\ batch' = batch \ {i}
          /\ \/ /\ remote' = Restrict(remote, DOMAIN remote \ {KeyNamed(log[i].name)})
                /\ held' = held
             \/ Fetch(KeyNamed(log[i].name)) /\ remote' = remote
    BY <1>10 DEF ApplyChange
  <2>2. held' \in [key : Key, some : BOOLEAN, row : Pushed]
    BY <1>0, <2>1, FetchType DEF TypeOK, Pushed
  <2>3. DOMAIN remote' \subseteq Key /\ remote' \in [DOMAIN remote' -> Pushed]
    BY <2>1 DEF TypeOK, Restrict, Pushed
  <2>. QED
    BY <1>10, <2>1, <2>2, <2>3 DEF ApplyChange, TypeOK, Ids, Pushed
<1>11. CASE MarkChangesSynced
  <2>1. Marked \subseteq Ids
    BY DEF Marked, TypeOK
  <2>. QED
    BY <1>11, <2>1 DEF MarkChangesSynced, TypeOK, Ids
<1>12. CASE Crash
  <2>1. faults' \in 0 .. MaxFaults
    BY <1>0, <1>12 DEF Crash, Fault
  <2>. QED
    BY <1>12, <2>1, EmptyTypes DEF Crash, TypeOK, Ids, Pushed
<1>13. CASE UNCHANGED vars
  BY <1>13 DEF vars, TypeOK, Ids
<1>. QED
  BY <1>1, <1>2, <1>3, <1>4, <1>5, <1>6, <1>7, <1>8, <1>9, <1>10, <1>11,
     <1>12, <1>13 DEF Next, Engine

\* The tables, the log, its marks and what the engine holds stay well-typed.
THEOREM TypeCorrect == Spec => []TypeOK
BY InitTyped, NextTyped, PTL DEF Spec

-----------------------------------------------------------------------------
(* The order of the marks.                                                 *)

LEMMA LogType == ASSUME TypeOK PROVE Len(log) \in Nat /\ Ids = 1 .. Len(log)
BY DEF TypeOK, Ids

\* A batch takes the low end of what is not marked, up to maxID.
LEMMA BatchFromTheLowEnd ==
    ASSUME TypeOK, GetUnsyncedChanges
    PROVE  /\ batch' \subseteq Ids \ synced
           /\ maxID' \in Ids
           /\ \A i \in batch' : i <= maxID'
           /\ \A j \in Ids \ synced : j <= maxID' => j \in batch'
<1>. DEFINE unsynced == Ids \ synced
            most == IF Limit <= 0 THEN 1000 ELSE Limit
            upTo(i) == {j \in unsynced : j <= i}
<1>1. batch' = {i \in unsynced : Cardinality(upTo(i)) <= most}
  BY DEF GetUnsyncedChanges, Unsynced
<1>2. maxID' \in batch' /\ \A i \in batch' : i <= maxID'
  BY DEF GetUnsyncedChanges
<1>3. most \in Int /\ Ids \subseteq Int /\ IsFiniteSet(Ids)
  BY LogType, FeedAssumption, FS_Interval
<1>4. ASSUME NEW m \in unsynced, Cardinality(upTo(m)) <= most,
             NEW j \in unsynced, j <= m
      PROVE  Cardinality(upTo(j)) <= most
  <2>1. \A x \in unsynced : x <= j => x <= m
    BY <1>3, <1>4
  <2>2. upTo(j) \subseteq upTo(m) /\ upTo(m) \subseteq Ids
    BY <2>1
  <2>3. IsFiniteSet(upTo(m))
    BY <1>3, <2>2, FS_Subset
  <2>4. /\ IsFiniteSet(upTo(j))
        /\ Cardinality(upTo(j)) <= Cardinality(upTo(m))
    BY <2>2, <2>3, FS_Subset
  <2>5. Cardinality(upTo(j)) \in Nat /\ Cardinality(upTo(m)) \in Nat
    BY <2>3, <2>4, FS_CardinalityType
  <2>. HIDE DEF upTo, most
  <2>. QED
    BY <1>3, <1>4, <2>4, <2>5
<1>5. \A j \in unsynced : j <= maxID' => j \in batch'
  BY <1>1, <1>2, <1>4
<1>. QED
  BY <1>1, <1>2, <1>5

LEMMA NextInOrder == TypeOK /\ InOrder /\ [Next]_vars => InOrder'
<1>. SUFFICES ASSUME TypeOK, InOrder, [Next]_vars PROVE InOrder'
  OBVIOUS
<1>. USE DEF tables, engine
<1>0. /\ Len(log) \in Nat /\ Ids = 1 .. Len(log)
      /\ synced \subseteq Ids /\ batch \subseteq Ids /\ maxID \in 0 .. Len(log)
  BY LogType DEF TypeOK
<1>1. CASE UNCHANGED <<log, synced, stage, batch, maxID>>
  BY <1>1 DEF InOrder, Ids
<1>2. ASSUME NEW i \in Instances, Record(i) PROVE InOrder'
  <2>1. Ids' = 1 .. Len(log) + 1
    BY <1>2, LogType DEF Record, TypeOK, Ids
  <2>. QED
    BY <1>0, <1>2, <2>1 DEF Record, InOrder
<1>3. CASE UNCHANGED <<log, synced>> /\ stage' # "apply"
  BY <1>3 DEF InOrder, Ids
<1>4. CASE GetUnsyncedChanges
  <2>1. /\ batch' \subseteq Ids \ synced
        /\ maxID' \in Ids
        /\ \A i \in batch' : i <= maxID'
        /\ \A j \in Ids \ synced : j <= maxID' => j \in batch'
    BY <1>4, BatchFromTheLowEnd
  <2>2. Ids' = Ids /\ synced' = synced
    BY <1>4 DEF GetUnsyncedChanges, Ids
  <2>3. \A i \in batch' : \A j \in Ids : i < j => j \notin synced
    BY <1>0, <2>1 DEF InOrder
  <2>. QED
    BY <2>1, <2>2, <2>3 DEF InOrder
<1>5. CASE ApplyChange
  <2>1. PICK i \in batch : (\A j \in batch : i <= j) /\ batch' = batch \ {i}
    BY <1>5 DEF ApplyChange
  <2>2. UNCHANGED <<log, synced, stage, maxID>> /\ stage = "apply" /\ Ids' = Ids
    BY <1>5 DEF ApplyChange, Ids
  <2>3. \A x \in batch' : \A j \in Ids : x < j /\ j <= maxID => j \in batch'
    BY <1>0, <2>1, <2>2 DEF InOrder
  <2>. QED
    BY <2>1, <2>2, <2>3 DEF InOrder
<1>6. CASE MarkChangesSynced
  <2>1. synced' = synced \union {i \in Ids : i <= maxID}
    BY <1>6 DEF MarkChangesSynced, Marked
  <2>2. Ids' = Ids /\ stage' = "poll"
    BY <1>6 DEF MarkChangesSynced, Ids
  <2>3. \A i \in synced' : \A j \in Ids : j < i => j \in synced'
    BY <1>0, <2>1 DEF InOrder
  <2>. QED
    BY <2>2, <2>3 DEF InOrder
<1>. QED
  BY <1>1, <1>2, <1>3, <1>4, <1>5, <1>6
     DEF Next, Engine, Commit, LoseRecord, GetSyncCursor, ListNext, Visit,
         SetSyncCursor, Push, Crash, vars

\* What comes after an entry that is not applied is not applied either.
LEMMA UnappliedAbove ==
    ASSUME TypeOK, InOrder, NEW i \in Ids, NEW j \in Ids, i < j, Unapplied(i)
    PROVE  Unapplied(j)
<1>1. Ids \subseteq Int /\ maxID \in Int
  BY LogType DEF TypeOK
<1>. QED
  BY <1>1 DEF InOrder, Unapplied

-----------------------------------------------------------------------------
(* What a change does to the other entities, and what it is logged as.     *)

LEMMA FollowedKey ==
    ASSUME NEW k \in Key, Followed(k)
    PROVE  /\ k = <<k[1], k[2], 0>>
           /\ KeyNamed(NameOf(k)) = k
           /\ k[1] \notin {"session_turns", "packs", "stacks", "kv_store"}
<1>1. k = <<k[1], k[2], k[3]>> /\ k[3] = 0
  BY DEF Key, Followed
<1>2. \A i \in 1 .. 11 : EntityQueries[i] \notin {"session_turns", "packs", "stacks", "kv_store"}
  BY DEF EntityQueries
<1>3. Len(EntityQueries) = 11
  BY DEF EntityQueries
<1>. QED
  BY <1>1, <1>2, <1>3 DEF NameOf, KeyNamed, Followed, Listable

LEMMA SameName ==
    ASSUME NEW k \in Key, Followed(k), NEW x \in Key, Followed(x), NameOf(x) = NameOf(k)
    PROVE  x = k
BY FollowedKey

LEMMA UnchangedEntity ==
    ASSUME NEW d, NEW e, NEW k, NameOf(k) \notin Changed(d, e)
    PROVE  /\ k \in DOMAIN d <=> k \in DOMAIN e
           /\ k \in DOMAIN d => e[k] = d[k]
BY DEF Changed

\* The word of the entry is true of the tables the request leaves.
LEMMA EntryIsTrue ==
    ASSUME NEW d, IsDatabase(d), NEW q \in Request, q.op # "read",
           NEW k \in Key, Followed(k), EntryOf(q).name = NameOf(k)
    PROVE  EntryOf(q).act = "delete" <=> k \notin DOMAIN After(d, q)
<1>1. q.op \in {"write", "delete"}
  BY DEF Request
<1>2. /\ k = <<k[1], k[2], 0>>
      /\ k[1] \notin {"session_turns", "packs", "stacks", "kv_store"}
  BY FollowedKey
<1>3. /\ EntryOf(q).name[1] = q.table
      /\ EntryOf(q).act = IF q.op = "write" THEN "upsert" ELSE "delete"
      /\ q.table # "packs" => EntryOf(q).name[2] = q.id
  BY DEF EntryOf
<1>4. k[1] = q.table /\ k[2] = q.id
  BY <1>2, <1>3 DEF NameOf
<1>5. k = <<q.table, q.id, 0>> /\ q.table \notin {"session_turns", "packs", "stacks"}
  BY <1>2, <1>4
<1>6. CASE q.op = "write"
  <2>. DEFINE e == Upsert(d, q, NewVersion(d, q))
  <2>1. KeyOf(q) = k
    BY <1>5 DEF KeyOf
  <2>2. NewVersion(d, q) \in Int /\ q.proj \in Names
    BY VersionType DEF Request
  <2>3. IsDatabase(e)
    BY <2>2, UpsertType
  <2>4. DOMAIN e = DOMAIN d \union {KeyOf(q)}
    BY <2>2, UpsertEffect
  <2>5. After(d, q) \in {e, InsertProject(e, q.proj)}
    BY <1>6 DEF After
  <2>. HIDE DEF e
  <2>6. DOMAIN InsertProject(e, q.proj) = DOMAIN e \union {<<"projects", q.proj, 0>>}
    BY <2>2, <2>3, InsertProjectEffect
  <2>. QED
    BY <1>3, <1>6, <2>1, <2>4, <2>5, <2>6
<1>7. CASE q.op = "delete"
  <2>1. DeleteTargets(d, q) = {k}
    BY <1>5 DEF DeleteTargets
  <2>2. After(d, q) = DeleteRows(d, DeleteTargets(d, q))
    BY <1>7 DEF After
  <2>3. DOMAIN DeleteRows(d, {k}) = DOMAIN d \ ({k} \union Dependents(d, {k}))
    BY DeleteRowsType
  <2>4. k \notin DOMAIN After(d, q)
    BY <2>1, <2>2, <2>3
  <2>. QED
    BY <1>3, <1>7, <2>4
<1>. QED
  BY <1>1, <1>6, <1>7

\* Beside the entity it is about to log, a change leaves alone whatever is not
\* missed from then on.
LEMMA CommitEffect ==
    ASSUME TypeOK, Solitary, NEW i \in Instances, Commit(i)
    PROVE  /\ \A n : ~Pending(n)
           /\ PendingWord'
           /\ missed \subseteq missed'
           /\ \A k : NameOf(k) \notin missed' =>
                \/ Pending(NameOf(k))'
                \/ /\ k \in DOMAIN db <=> k \in DOMAIN db'
                   /\ k \in DOMAIN db => db'[k] = db[k]
<1>1. PICK q \in Requests :
         /\ db' = After(db, q)
         /\ \/ /\ pending' = [pending EXCEPT ![i] = EntryOf(q)]
               /\ missed' = missed \union (Changed(db, After(db, q)) \ {EntryOf(q).name})
            \/ /\ missed' = missed \union Changed(db, After(db, q))
               /\ pending' = pending
  BY DEF Commit
<1>2. pending[i] = Nothing /\ \A j \in Instances : j = i
  BY DEF Commit, Solitary
<1>3. q \in Request /\ q.op # "read" /\ IsDatabase(db)
  BY FeedAssumption DEF TypeOK
<1>4. EntryOf(q) # Nothing
  BY <1>3, EntryOfType, EmptyTypes
<1>5. CASE pending' = pending /\ missed' = missed \union Changed(db, After(db, q))
  <2>1. \A k : NameOf(k) \notin missed' =>
           /\ k \in DOMAIN db <=> k \in DOMAIN db'
           /\ k \in DOMAIN db => db'[k] = db[k]
    BY <1>1, <1>5, UnchangedEntity
  <2>. QED
    BY <1>2, <1>5, <2>1 DEF Pending, PendingWord
<1>6. CASE /\ pending' = [pending EXCEPT ![i] = EntryOf(q)]
           /\ missed' = missed \union (Changed(db, After(db, q)) \ {EntryOf(q).name})
  <2>1. pending'[i] = EntryOf(q)
    BY <1>6 DEF TypeOK
  <2>2. PendingWord'
    <3>1. \A k \in Key : Followed(k) /\ EntryOf(q).name = NameOf(k) =>
             (EntryOf(q).act = "delete" <=> k \notin DOMAIN db')
      BY <1>1, <1>3, EntryIsTrue
    <3>. QED
      BY <1>2, <2>1, <3>1 DEF PendingWord, Followed
  <2>3. ASSUME NEW k, NameOf(k) \notin missed' PROVE
           \/ Pending(NameOf(k))'
           \/ /\ k \in DOMAIN db <=> k \in DOMAIN db'
              /\ k \in DOMAIN db => db'[k] = db[k]
    <3>1. CASE NameOf(k) = EntryOf(q).name
      BY <1>4, <2>1, <3>1 DEF Pending
    <3>2. CASE NameOf(k) # EntryOf(q).name
      <4>1. NameOf(k) \notin Changed(db, After(db, q))
        BY <1>6, <2>3, <3>2
      <4>. QED
        BY <1>1, <4>1, UnchangedEntity
    <3>. QED
      BY <3>1, <3>2
  <2>. QED
    BY <1>2, <1>6, <2>2, <2>3 DEF Pending
<1>. QED
  BY <1>1, <1>5, <1>6

-----------------------------------------------------------------------------
(* The words of the log.                                                   *)

\* The entry recordChange appends is the last word about its entity.
LEMMA RecordEffect ==
    ASSUME TypeOK, NEW i \in Instances, Record(i)
    PROVE  /\ Len(log) \in Nat /\ Ids' = 1 .. Len(log) + 1
           /\ log'[Len(log) + 1] = pending[i]
           /\ \A j \in Ids : log'[j] = log[j]
           /\ missed' = missed \ {pending[i].name}
           /\ pending[i] # Nothing
           /\ pending'[i] = Nothing
           /\ \A j \in Instances : j # i => pending'[j] = pending[j]
<1>1. log \in Seq(Entry) /\ pending[i] \in Entry /\ log' = Append(log, pending[i])
  BY DEF TypeOK, Record
<1>. QED
  BY <1>1 DEF Record, TypeOK, Ids

LEMMA NextWords ==
    ASSUME TypeOK, Solitary, PendingWord, LastWord, [Next]_vars
    PROVE  PendingWord' /\ LastWord'
<1>. USE DEF tables, engine
<1>1. CASE UNCHANGED <<db, log, pending>> /\ missed \subseteq missed'
  BY <1>1 DEF PendingWord, LastWord, Pending, Ids, Followed
<1>2. ASSUME NEW i \in Instances, Commit(i) PROVE PendingWord' /\ LastWord'
  <2>1. /\ \A n : ~Pending(n)
        /\ PendingWord'
        /\ missed \subseteq missed'
        /\ \A k : NameOf(k) \notin missed' =>
                \/ Pending(NameOf(k))'
                \/ /\ k \in DOMAIN db <=> k \in DOMAIN db'
                   /\ k \in DOMAIN db => db'[k] = db[k]
    BY <1>2, CommitEffect
  <2>2. log' = log
    BY <1>2 DEF Commit
  <2>3. ASSUME NEW k \in Key, NEW j \in Ids, Followed(k), NameOf(k) \notin missed',
               ~Pending(NameOf(k))', log[j].name = NameOf(k),
               \A x \in Ids : log[x].name = NameOf(k) => x <= j
        PROVE  log[j].act = "delete" <=> k \notin DOMAIN db'
    <3>1. k \in DOMAIN db <=> k \in DOMAIN db'
      BY <2>1, <2>3
    <3>2. log[j].act = "delete" <=> k \notin DOMAIN db
      BY <2>1, <2>3 DEF LastWord
    <3>. QED
      BY <3>1, <3>2
  <2>4. LastWord'
    BY <2>2, <2>3 DEF LastWord, Ids, Followed
  <2>. QED
    BY <2>1, <2>4
<1>3. ASSUME NEW i \in Instances, Record(i) PROVE PendingWord' /\ LastWord'
  <2>1. /\ Len(log) \in Nat /\ Ids' = 1 .. Len(log) + 1 /\ Ids = 1 .. Len(log)
        /\ log'[Len(log) + 1] = pending[i]
        /\ \A j \in Ids : log'[j] = log[j]
        /\ missed' = missed \ {pending[i].name}
        /\ pending[i] # Nothing
        /\ pending'[i] = Nothing
        /\ \A j \in Instances : j # i => pending'[j] = pending[j]
    BY <1>3, RecordEffect, LogType
  <2>2. db' = db
    BY <1>3 DEF Record
  <2>3. PendingWord'
    BY <2>1, <2>2 DEF PendingWord, Followed
  <2>4. ASSUME NEW k \in Key, NEW j \in Ids', Followed(k), NameOf(k) \notin missed',
               ~Pending(NameOf(k))', log'[j].name = NameOf(k),
               \A x \in Ids' : log'[x].name = NameOf(k) => x <= j
        PROVE  log'[j].act = "delete" <=> k \notin DOMAIN db'
    <3>1. CASE pending[i].name = NameOf(k)
      <4>1. j = Len(log) + 1
        BY <2>1, <2>4, <3>1
      <4>. QED
        BY <2>1, <2>2, <2>4, <3>1, <4>1 DEF PendingWord
    <3>2. CASE pending[i].name # NameOf(k)
      <4>1. j \in Ids /\ log[j].name = NameOf(k)
        BY <2>1, <2>4, <3>2
      <4>2. \A x \in Ids : log[x].name = NameOf(k) => x <= j
        BY <2>1, <2>4
      <4>3. ~Pending(NameOf(k)) /\ NameOf(k) \notin missed
        BY <2>1, <2>4, <3>2 DEF Pending
      <4>4. log[j].act = "delete" <=> k \notin DOMAIN db
        BY <2>4, <4>1, <4>2, <4>3 DEF LastWord
      <4>. QED
        BY <2>1, <2>2, <4>1, <4>4
    <3>. QED
      BY <3>1, <3>2
  <2>5. LastWord'
    BY <2>4 DEF LastWord, Followed
  <2>. QED
    BY <2>3, <2>5
<1>4. ASSUME NEW i \in Instances, LoseRecord(i) PROVE PendingWord' /\ LastWord'
  <2>1. /\ pending'[i] = Nothing /\ pending[i] # Nothing
        /\ \A j \in Instances : j # i => pending'[j] = pending[j]
        /\ missed' = missed \union {pending[i].name}
        /\ UNCHANGED <<db, log>>
    BY <1>4 DEF LoseRecord, TypeOK
  <2>2. \A n : n \notin missed' => n \notin missed /\ (Pending(n)' <=> Pending(n))
    BY <2>1 DEF Pending
  <2>3. PendingWord'
    BY <2>1 DEF PendingWord, Followed
  <2>4. LastWord'
    BY <2>1, <2>2 DEF LastWord, Ids, Followed
  <2>. QED
    BY <2>3, <2>4
<1>5. CASE ListNext
  <2>1. missed \subseteq missed' /\ UNCHANGED <<db, log, pending>>
    BY <1>5 DEF ListNext
  <2>. QED
    BY <1>1, <2>1
<1>. QED
  BY <1>1, <1>2, <1>3, <1>4, <1>5
     DEF Next, Engine, GetSyncCursor, Visit, SetSyncCursor, Push,
         GetUnsyncedChanges, ApplyChange, MarkChangesSynced, Crash, vars

-----------------------------------------------------------------------------
(* Whatever the copy lacks is on its way: one lemma for each kind of step. *)

LEMMA AwaitedSame ==
    ASSUME UNCHANGED <<log, synced>>,
           \/ UNCHANGED <<stage, batch, maxID>>
           \/ stage # "apply" /\ stage' # "apply",
           NEW n
    PROVE  Awaited(n)' <=> Awaited(n)
BY DEF Awaited, Unapplied, Ids

LEMMA CommitMends ==
    ASSUME TypeOK, Solitary, Mended, NEW i \in Instances, Commit(i)
    PROVE  Mended'
<1>1. /\ \A n : ~Pending(n)
      /\ missed \subseteq missed'
      /\ \A k : NameOf(k) \notin missed' =>
              \/ Pending(NameOf(k))'
              \/ /\ k \in DOMAIN db <=> k \in DOMAIN db'
                 /\ k \in DOMAIN db => db'[k] = db[k]
  BY CommitEffect
<1>2. UNCHANGED <<log, synced, cursor, stage, next, found, batch, maxID, held, remote>>
  BY DEF Commit, engine
<1>. SUFFICES ASSUME NEW k \in Key, Followed(k), NameOf(k) \notin missed'
              PROVE  MendedAt(k)' /\ HeldMendedAt(k)'
  BY DEF Mended, Followed
<1>3. CASE Pending(NameOf(k))'
  BY <1>3 DEF MendedAt, HeldMendedAt
<1>4. CASE /\ k \in DOMAIN db <=> k \in DOMAIN db'
           /\ k \in DOMAIN db => db'[k] = db[k]
  <2>1. MendedAt(k) /\ HeldMendedAt(k) /\ ~Pending(NameOf(k))
    BY <1>1 DEF Mended
  <2>2. Awaited(NameOf(k))' <=> Awaited(NameOf(k))
    BY <1>2, AwaitedSame
  <2>3. HeldFresh(k)' <=> HeldFresh(k)
    BY <1>2, <1>4 DEF HeldFresh
  <2>4. Agree(k)' <=> Agree(k)
    BY <1>2, <1>4 DEF Agree
  <2>5. BeingApplied(k)' <=> BeingApplied(k)
    BY <1>2, <2>3 DEF BeingApplied, Ids
  <2>6. Undiscovered(k)' <=> Undiscovered(k)
    BY <1>2, <1>4, <2>3 DEF Undiscovered
  <2>. QED
    BY <1>2, <2>1, <2>2, <2>3, <2>4, <2>5, <2>6 DEF MendedAt, HeldMendedAt
<1>. QED
  BY <1>1, <1>3, <1>4

LEMMA RecordMends ==
    ASSUME TypeOK, Mended, NEW i \in Instances, Record(i)
    PROVE  Mended'
<1>1. /\ Len(log) \in Nat /\ Ids' = 1 .. Len(log) + 1 /\ Ids = 1 .. Len(log)
      /\ log'[Len(log) + 1] = pending[i]
      /\ \A j \in Ids : log'[j] = log[j]
      /\ missed' = missed \ {pending[i].name}
      /\ pending[i] # Nothing
      /\ pending'[i] = Nothing
      /\ \A j \in Instances : j # i => pending'[j] = pending[j]
  BY RecordEffect, LogType
<1>2. UNCHANGED <<db, synced, cursor, stage, next, found, batch, maxID, held, remote>>
  BY DEF Record, engine
<1>3. synced \subseteq Ids /\ maxID \in 0 .. Len(log)
  BY DEF TypeOK
<1>. SUFFICES ASSUME NEW k \in Key, Followed(k), NameOf(k) \notin missed'
              PROVE  MendedAt(k)' /\ HeldMendedAt(k)'
  BY DEF Mended, Followed
<1>4. CASE NameOf(k) = pending[i].name
  <2>1. Len(log) + 1 \in Ids' /\ Len(log) + 1 \notin Ids /\ ~(Len(log) + 1 <= maxID)
    BY <1>1, <1>3
  <2>2. Awaited(NameOf(k))'
    BY <1>1, <1>2, <1>3, <1>4, <2>1 DEF Awaited, Unapplied
  <2>. QED
    BY <2>2 DEF MendedAt, HeldMendedAt
<1>5. CASE NameOf(k) # pending[i].name
  <2>1. MendedAt(k) /\ HeldMendedAt(k)
    BY <1>1, <1>5 DEF Mended
  <2>2. Ids \subseteq Ids'
    BY <1>1
  <2>3. Awaited(NameOf(k)) => Awaited(NameOf(k))'
    BY <1>1, <1>2, <2>2 DEF Awaited, Unapplied
  <2>4. HeldFresh(k)' <=> HeldFresh(k)
    BY <1>2 DEF HeldFresh
  <2>5. Agree(k)' <=> Agree(k)
    BY <1>2 DEF Agree
  <2>6. BeingApplied(k) => BeingApplied(k)'
    BY <1>1, <1>2, <2>2, <2>4 DEF BeingApplied
  <2>7. Undiscovered(k)' <=> Undiscovered(k)
    BY <1>2, <2>4 DEF Undiscovered
  <2>8. Pending(NameOf(k)) => Pending(NameOf(k))'
    BY <1>1, <1>5 DEF Pending
  <2>. QED
    BY <1>2, <2>1, <2>3, <2>4, <2>5, <2>6, <2>7, <2>8 DEF MendedAt, HeldMendedAt
<1>. QED
  BY <1>4, <1>5

LEMMA LoseRecordMends ==
    ASSUME TypeOK, Mended, NEW i \in Instances, LoseRecord(i)
    PROVE  Mended'
<1>1. /\ \A j \in Instances : j # i => pending'[j] = pending[j]
      /\ missed' = missed \union {pending[i].name}
  BY DEF LoseRecord, TypeOK
<1>2. UNCHANGED <<db, log, synced, cursor, stage, next, found, batch, maxID, held, remote>>
  BY DEF LoseRecord, engine
<1>. SUFFICES ASSUME NEW k \in Key, Followed(k), NameOf(k) \notin missed'
              PROVE  MendedAt(k)' /\ HeldMendedAt(k)'
  BY DEF Mended, Followed
<1>3. MendedAt(k) /\ HeldMendedAt(k) /\ NameOf(k) # pending[i].name
  BY <1>1 DEF Mended
<1>4. Awaited(NameOf(k))' <=> Awaited(NameOf(k))
  BY <1>2, AwaitedSame
<1>5. HeldFresh(k)' <=> HeldFresh(k)
  BY <1>2 DEF HeldFresh
<1>6. Agree(k)' <=> Agree(k)
  BY <1>2 DEF Agree
<1>7. BeingApplied(k)' <=> BeingApplied(k)
  BY <1>2, <1>5 DEF BeingApplied, Ids
<1>8. Undiscovered(k)' <=> Undiscovered(k)
  BY <1>2, <1>5 DEF Undiscovered
<1>9. Pending(NameOf(k)) => Pending(NameOf(k))'
  BY <1>1, <1>3 DEF Pending
<1>. QED
  BY <1>2, <1>3, <1>4, <1>5, <1>6, <1>7, <1>8, <1>9 DEF MendedAt, HeldMendedAt

\* What Fetch holds is what the tables have at that moment.
LEMMA FetchFresh ==
    ASSUME NEW x, Fetch(x), db' = db
    PROVE  /\ \A k : held'.some /\ held'.key = k => HeldFresh(k)'
           /\ x \in DOMAIN db => HeldFresh(x)'
<1>1. CASE x \in DOMAIN db
  <2>1. held' = [key |-> x, some |-> TRUE, row |-> Shape(db[x])]
    BY <1>1 DEF Fetch
  <2>2. held'.some /\ held'.key = x /\ held'.row = Shape(db[x])
    BY <2>1
  <2>. QED
    BY <1>1, <2>2 DEF HeldFresh
<1>2. CASE x \notin DOMAIN db
  <2>1. held'.some = FALSE
    BY <1>2, EmptyTypes DEF Fetch
  <2>. QED
    BY <1>2, <2>1
<1>. QED
  BY <1>1, <1>2

\* A step of the discovery that leaves the tables and the feed alone.
LEMMA DiscoveryMends ==
    ASSUME UNCHANGED <<db, log, pending, synced, remote>>,
           stage # "apply", stage' # "apply",
           NEW k, MendedAt(k), Undiscovered(k) => MendedAt(k)'
    PROVE  MendedAt(k)'
<1>1. Awaited(NameOf(k))' <=> Awaited(NameOf(k))
  BY AwaitedSame
<1>2. Agree(k)' <=> Agree(k)
  BY DEF Agree
<1>3. Pending(NameOf(k))' <=> Pending(NameOf(k))
  BY DEF Pending
<1>4. ~BeingApplied(k)
  BY DEF BeingApplied
<1>. QED
  BY <1>1, <1>2, <1>3, <1>4 DEF MendedAt

LEMMA SameHeldMends ==
    ASSUME UNCHANGED <<db, log, pending, synced, held>>,
           stage # "apply", stage' # "apply", NEW k, HeldMendedAt(k)
    PROVE  HeldMendedAt(k)'
<1>1. Awaited(NameOf(k))' <=> Awaited(NameOf(k))
  BY AwaitedSame
<1>2. HeldFresh(k)' <=> HeldFresh(k)
  BY DEF HeldFresh
<1>3. Pending(NameOf(k))' <=> Pending(NameOf(k))
  BY DEF Pending
<1>. QED
  BY <1>1, <1>2, <1>3 DEF HeldMendedAt

LEMMA GetSyncCursorMends ==
    ASSUME TypeOK, Mended, GetSyncCursor
    PROVE  Mended'
<1>1. UNCHANGED <<db, log, pending, missed, synced, remote, held, cursor>>
      /\ stage = "start" /\ stage' \in {"list", "poll"} /\ next' = 1
  BY DEF GetSyncCursor, tables
<1>. SUFFICES ASSUME NEW k \in Key, Followed(k), NameOf(k) \notin missed
              PROVE  MendedAt(k)' /\ HeldMendedAt(k)'
  BY <1>1 DEF Mended, Followed
<1>2. MendedAt(k) /\ HeldMendedAt(k)
  BY DEF Mended
<1>3. ASSUME Undiscovered(k) PROVE Undiscovered(k)'
  <2>1. ~cursor /\ stage' = "list"
    BY <1>3 DEF Undiscovered, GetSyncCursor
  <2>2. \E j \in 1 .. Len(EntityQueries) : EntityQueries[j] = k[1]
    BY <1>3 DEF Undiscovered, Discoverable, Listable
  <2>. QED
    BY <1>1, <1>3, <2>1, <2>2 DEF Undiscovered
<1>4. MendedAt(k)'
  BY <1>1, <1>2, <1>3, DiscoveryMends DEF MendedAt
<1>5. HeldMendedAt(k)'
  BY <1>1, <1>2, SameHeldMends
<1>. QED
  BY <1>4, <1>5

LEMMA ListNextMends ==
    ASSUME TypeOK, Mended, ListNext
    PROVE  Mended'
<1>1. UNCHANGED <<db, log, pending, synced, remote, held, cursor>>
      /\ missed \subseteq missed'
      /\ stage = "list" /\ stage' \in {"list", "visit"}
  BY DEF ListNext
<1>. SUFFICES ASSUME NEW k \in Key, Followed(k), NameOf(k) \notin missed'
              PROVE  MendedAt(k)' /\ HeldMendedAt(k)'
  BY <1>1 DEF Mended, Followed
<1>2. MendedAt(k) /\ HeldMendedAt(k)
  BY <1>1 DEF Mended
<1>3. ASSUME Undiscovered(k) PROVE Undiscovered(k)'
  <2>1. /\ ~cursor /\ k \in DOMAIN db /\ Discoverable(k, db[k])
        /\ \/ \E j \in next .. Len(EntityQueries) : EntityQueries[j] = k[1]
           \/ PathOf(k, db[k]) \in found
    BY <1>1, <1>3 DEF Undiscovered
  <2>2. next \in Int /\ Len(EntityQueries) \in Int
    BY DEF TypeOK, EntityQueries
  <2>3. CASE next > Len(EntityQueries)
    <3>1. stage' = "visit" /\ found' = found
      BY <2>3 DEF ListNext
    <3>. QED
      BY <1>1, <2>1, <2>2, <2>3, <3>1 DEF Undiscovered
  <2>4. CASE ~(next > Len(EntityQueries))
    <3>. DEFINE S == Shown(db, EntityQueries[next])
    <3>1. /\ stage' = "list" /\ next' = next + 1 /\ found \subseteq found'
          /\ \/ found' = found \union {PathOf(x, db[x]) : x \in S}
             \/ missed' = missed \union {NameOf(x) : x \in S}
      BY <1>1, <2>4 DEF ListNext
    <3>2. EntityQueries[next] = k[1] => k \in S
      BY <2>1 DEF Shown, Discoverable
    <3>. HIDE DEF S
    <3>3. EntityQueries[next] = k[1] => PathOf(k, db[k]) \in found'
      BY <3>1, <3>2
    <3>4. \A j \in next .. Len(EntityQueries) :
             j = next \/ j \in next' .. Len(EntityQueries)
      BY <2>2, <3>1
    <3>. QED
      BY <1>1, <2>1, <3>1, <3>3, <3>4 DEF Undiscovered
  <2>. QED
    BY <2>3, <2>4
<1>4. MendedAt(k)'
  BY <1>1, <1>2, <1>3, DiscoveryMends DEF MendedAt
<1>5. HeldMendedAt(k)'
  BY <1>1, <1>2, SameHeldMends
<1>. QED
  BY <1>4, <1>5

LEMMA VisitMends ==
    ASSUME TypeOK, Mended, Visit
    PROVE  Mended'
<1>1. UNCHANGED <<db, log, pending, missed, synced, remote, cursor, stage>>
      /\ stage = "visit" /\ ~held.some
  BY DEF Visit, tables
<1>2. PICK p \in found : Fetch(ReadKey(routePath(p))) /\ found' = found \ {p}
  BY DEF Visit
<1>. SUFFICES ASSUME NEW k \in Key, Followed(k), NameOf(k) \notin missed
              PROVE  MendedAt(k)' /\ HeldMendedAt(k)'
  BY <1>1 DEF Mended, Followed
<1>3. MendedAt(k)
  BY DEF Mended
<1>4. ASSUME Undiscovered(k) PROVE Undiscovered(k)'
  <2>1. /\ ~cursor /\ k \in DOMAIN db /\ Discoverable(k, db[k])
        /\ PathOf(k, db[k]) \in found
    BY <1>1, <1>4 DEF Undiscovered, HeldFresh
  <2>2. CASE PathOf(k, db[k]) = p
    <3>1. ReadKey(routePath(p)) = k
      BY <2>1, <2>2 DEF Discoverable, ReadsBack
    <3>2. HeldFresh(k)'
      BY <1>1, <1>2, <2>1, <3>1, FetchFresh
    <3>. QED
      BY <1>1, <2>1, <3>2 DEF Undiscovered
  <2>3. CASE PathOf(k, db[k]) # p
    BY <1>1, <1>2, <2>1, <2>3 DEF Undiscovered
  <2>. QED
    BY <2>2, <2>3
<1>5. MendedAt(k)'
  BY <1>1, <1>3, <1>4, DiscoveryMends DEF MendedAt
<1>6. HeldMendedAt(k)'
  BY <1>1, <1>2, FetchFresh DEF HeldMendedAt
<1>. QED
  BY <1>5, <1>6

LEMMA SetSyncCursorMends ==
    ASSUME TypeOK, Mended, SetSyncCursor
    PROVE  Mended'
<1>1. UNCHANGED <<db, log, pending, missed, synced, remote, held>>
      /\ stage = "visit" /\ stage' = "poll" /\ ~held.some /\ found = {}
  BY DEF SetSyncCursor, tables
<1>. SUFFICES ASSUME NEW k \in Key, Followed(k), NameOf(k) \notin missed
              PROVE  MendedAt(k)' /\ HeldMendedAt(k)'
  BY <1>1 DEF Mended, Followed
<1>2. MendedAt(k) /\ HeldMendedAt(k)
  BY DEF Mended
<1>3. ~Undiscovered(k)
  BY <1>1 DEF Undiscovered, HeldFresh
<1>4. MendedAt(k)'
  BY <1>1, <1>2, <1>3, DiscoveryMends
<1>5. HeldMendedAt(k)'
  BY <1>1, <1>2, SameHeldMends
<1>. QED
  BY <1>4, <1>5

LEMMA PushMends ==
    ASSUME TypeOK, Mended, Push
    PROVE  Mended'
<1>1. /\ UNCHANGED <<db, log, pending, missed, synced, cursor, stage, next, found, batch, maxID>>
      /\ held.some /\ remote' = Put(remote, held.key, held.row) /\ held' = NoHold
  BY DEF Push, tables
<1>. SUFFICES ASSUME NEW k \in Key, Followed(k), NameOf(k) \notin missed
              PROVE  MendedAt(k)' /\ HeldMendedAt(k)'
  BY <1>1 DEF Mended, Followed
<1>2. MendedAt(k) /\ HeldMendedAt(k)
  BY DEF Mended
<1>3. HeldMendedAt(k)'
  BY <1>1, EmptyTypes DEF HeldMendedAt
<1>4. Awaited(NameOf(k))' <=> Awaited(NameOf(k))
  BY <1>1, AwaitedSame
<1>5. Pending(NameOf(k))' <=> Pending(NameOf(k))
  BY <1>1 DEF Pending
<1>6. CASE held.key = k
  <2>1. HeldFresh(k) => Agree(k)'
    BY <1>1, <1>6 DEF HeldFresh, Agree, Put
  <2>. QED
    BY <1>1, <1>2, <1>3, <1>4, <1>5, <1>6, <2>1 DEF HeldMendedAt, MendedAt
<1>7. CASE held.key # k
  <2>1. Agree(k) => Agree(k)'
    BY <1>1, <1>7 DEF Agree, Put
  <2>2. ~HeldFresh(k) /\ ~BeingApplied(k)
    BY <1>7 DEF HeldFresh, BeingApplied
  <2>3. Undiscovered(k) => Undiscovered(k)'
    BY <1>1, <2>2 DEF Undiscovered
  <2>. QED
    BY <1>2, <1>3, <1>4, <1>5, <2>1, <2>2, <2>3 DEF MendedAt
<1>. QED
  BY <1>6, <1>7

LEMMA GetUnsyncedChangesMends ==
    ASSUME TypeOK, Mended, GetUnsyncedChanges
    PROVE  Mended'
<1>1. /\ UNCHANGED <<db, log, pending, missed, synced, remote, cursor, held>>
      /\ stage = "poll" /\ stage' = "apply"
  BY DEF GetUnsyncedChanges, tables
<1>2. \A j \in Ids \ synced : j <= maxID' => j \in batch'
  BY BatchFromTheLowEnd
<1>. SUFFICES ASSUME NEW k \in Key, Followed(k), NameOf(k) \notin missed
              PROVE  MendedAt(k)' /\ HeldMendedAt(k)'
  BY <1>1 DEF Mended, Followed
<1>3. MendedAt(k) /\ HeldMendedAt(k)
  BY DEF Mended
<1>4. Awaited(NameOf(k)) => Awaited(NameOf(k))'
  BY <1>1, <1>2 DEF Awaited, Unapplied, Ids
<1>5. HeldFresh(k)' <=> HeldFresh(k)
  BY <1>1 DEF HeldFresh
<1>6. Agree(k)' <=> Agree(k)
  BY <1>1 DEF Agree
<1>7. Pending(NameOf(k))' <=> Pending(NameOf(k))
  BY <1>1 DEF Pending
<1>8. ~BeingApplied(k) /\ ~Undiscovered(k)
  BY <1>1 DEF BeingApplied, Undiscovered
<1>. QED
  BY <1>1, <1>3, <1>4, <1>5, <1>6, <1>7, <1>8 DEF MendedAt, HeldMendedAt

LEMMA ApplyChangeMends ==
    ASSUME TypeOK, InOrder, LastWord, Mended, ApplyChange
    PROVE  Mended'
<1>1. /\ UNCHANGED <<db, log, pending, missed, synced, cursor, stage, next, found, maxID>>
      /\ stage = "apply" /\ ~held.some
  BY DEF ApplyChange, tables
<1>2. PICK i \in batch :
         /\ \A j \in batch : i <= j
         /\ batch' = batch \ {i}
         /\ \/ /\ log[i].act = "delete"
               /\ remote' = Restrict(remote, DOMAIN remote \ {KeyNamed(log[i].name)})
               /\ held' = held
            \/ /\ log[i].act # "delete"
               /\ Fetch(KeyNamed(log[i].name))
               /\ remote' = remote
  BY DEF ApplyChange
<1>3. i \in Ids \ synced /\ Unapplied(i) /\ log[i].name \in Tables \X Names
  <2>1. i \in Ids \ synced /\ Unapplied(i)
    BY <1>1, <1>2 DEF InOrder, Unapplied
  <2>2. log[i] \in Entry
    BY <2>1 DEF TypeOK, Ids
  <2>. QED
    BY <2>1, <2>2 DEF Entry
<1>. SUFFICES ASSUME NEW k \in Key, Followed(k), NameOf(k) \notin missed
              PROVE  MendedAt(k)' /\ HeldMendedAt(k)'
  BY <1>1 DEF Mended, Followed
<1>4. MendedAt(k)
  BY DEF Mended
<1>5. HeldMendedAt(k)'
  BY <1>1, <1>2, FetchFresh DEF HeldMendedAt
<1>6. ASSUME NEW j \in Ids, j # i, Unapplied(j), log[j].name = NameOf(k)
      PROVE  Awaited(NameOf(k))'
  BY <1>1, <1>2, <1>6 DEF Awaited, Unapplied, Ids
<1>7. Pending(NameOf(k))' <=> Pending(NameOf(k))
  BY <1>1 DEF Pending
<1>8. CASE log[i].name # NameOf(k)
  <2>1. KeyNamed(log[i].name) # k
    BY <1>3, <1>8 DEF KeyNamed, NameOf
  <2>2. Agree(k) => Agree(k)'
    BY <1>1, <1>2, <2>1 DEF Agree, Restrict
  <2>3. Awaited(NameOf(k)) => Awaited(NameOf(k))'
    BY <1>6, <1>8 DEF Awaited
  <2>4. ~BeingApplied(k) /\ ~Undiscovered(k)
    BY <1>1 DEF BeingApplied, HeldFresh, Undiscovered
  <2>. QED
    BY <1>4, <1>5, <1>7, <2>2, <2>3, <2>4 DEF MendedAt
<1>9. CASE /\ log[i].name = NameOf(k)
           /\ ~Pending(NameOf(k))
           /\ \A j \in Ids : j # i /\ Unapplied(j) => log[j].name # NameOf(k)
  <2>1. \A j \in Ids : log[j].name = NameOf(k) => j <= i
    <3>1. \A j \in Ids : i < j => Unapplied(j)
      BY <1>3, UnappliedAbove
    <3>2. \A j \in Ids : i < j \/ j <= i
      BY <1>3, LogType
    <3>3. \A j \in Ids : i < j => j # i
      BY <1>3, LogType
    <3>. QED
      BY <1>9, <3>1, <3>2, <3>3
  <2>2. log[i].act = "delete" <=> k \notin DOMAIN db
    BY <1>3, <1>9, <2>1 DEF LastWord
  <2>3. KeyNamed(log[i].name) = k
    BY <1>9, FollowedKey
  <2>4. CASE log[i].act = "delete"
    <3>1. remote' = Restrict(remote, DOMAIN remote \ {k})
      BY <1>2, <2>3, <2>4
    <3>2. Agree(k)'
      BY <1>1, <2>2, <2>4, <3>1 DEF Agree, Restrict
    <3>. QED
      BY <1>5, <3>2 DEF MendedAt
  <2>5. CASE log[i].act # "delete"
    <3>1. HeldFresh(k)'
      BY <1>1, <1>2, <2>2, <2>3, <2>5, FetchFresh
    <3>2. BeingApplied(k)'
      BY <1>1, <1>3, <1>9, <3>1 DEF BeingApplied, Ids
    <3>. QED
      BY <1>5, <3>2 DEF MendedAt
  <2>. QED
    BY <2>4, <2>5
<1>. QED
  BY <1>5, <1>6, <1>7, <1>8, <1>9 DEF MendedAt

LEMMA MarkChangesSyncedMends ==
    ASSUME TypeOK, Mended, MarkChangesSynced
    PROVE  Mended'
<1>1. /\ UNCHANGED <<db, log, pending, missed, remote, cursor, held>>
      /\ stage = "apply" /\ stage' = "poll" /\ ~held.some /\ batch = {}
      /\ synced' = synced \union {i \in Ids : i <= maxID}
  BY DEF MarkChangesSynced, Marked, tables
<1>. SUFFICES ASSUME NEW k \in Key, Followed(k), NameOf(k) \notin missed
              PROVE  MendedAt(k)' /\ HeldMendedAt(k)'
  BY <1>1 DEF Mended, Followed
<1>2. MendedAt(k)
  BY DEF Mended
<1>3. Awaited(NameOf(k)) => Awaited(NameOf(k))'
  BY <1>1 DEF Awaited, Unapplied, Ids
<1>4. Agree(k)' <=> Agree(k)
  BY <1>1 DEF Agree
<1>5. Pending(NameOf(k))' <=> Pending(NameOf(k))
  BY <1>1 DEF Pending
<1>6. ~BeingApplied(k) /\ ~Undiscovered(k)
  BY <1>1 DEF BeingApplied, HeldFresh, Undiscovered
<1>. QED
  BY <1>1, <1>2, <1>3, <1>4, <1>5, <1>6 DEF MendedAt, HeldMendedAt

LEMMA CrashMends ==
    ASSUME TypeOK, Mended, Crash
    PROVE  Mended'
<1>1. /\ UNCHANGED <<db, log, pending, missed, synced, remote, cursor>>
      /\ stage' = "start" /\ held' = NoHold
  BY DEF Crash, tables
<1>. SUFFICES ASSUME NEW k \in Key, Followed(k), NameOf(k) \notin missed
              PROVE  MendedAt(k)' /\ HeldMendedAt(k)'
  BY <1>1 DEF Mended, Followed
<1>2. MendedAt(k)
  BY DEF Mended
<1>3. Awaited(NameOf(k)) \/ BeingApplied(k) => Awaited(NameOf(k))'
  BY <1>1 DEF Awaited, Unapplied, BeingApplied, Ids
<1>4. Agree(k)' <=> Agree(k)
  BY <1>1 DEF Agree
<1>5. Pending(NameOf(k))' <=> Pending(NameOf(k))
  BY <1>1 DEF Pending
<1>6. Undiscovered(k) => Undiscovered(k)'
  BY <1>1 DEF Undiscovered
<1>7. HeldMendedAt(k)'
  BY <1>1, EmptyTypes DEF HeldMendedAt
<1>. QED
  BY <1>2, <1>3, <1>4, <1>5, <1>6, <1>7 DEF MendedAt

LEMMA StutterMends ==
    ASSUME Mended, UNCHANGED vars
    PROVE  Mended'
<1>. USE DEF vars
<1>1. \A k : /\ Agree(k)' <=> Agree(k)
             /\ Pending(NameOf(k))' <=> Pending(NameOf(k))
             /\ HeldFresh(k)' <=> HeldFresh(k)
  BY DEF Agree, Pending, HeldFresh
<1>2. \A k : /\ Awaited(NameOf(k))' <=> Awaited(NameOf(k))
             /\ BeingApplied(k)' <=> BeingApplied(k)
             /\ Undiscovered(k)' <=> Undiscovered(k)
  BY <1>1 DEF Awaited, Unapplied, BeingApplied, Undiscovered, Ids
<1>. QED
  BY <1>1, <1>2 DEF Mended, MendedAt, HeldMendedAt, Followed

-----------------------------------------------------------------------------

LEMMA InitInv == Init => Inv
<1>. SUFFICES ASSUME Init PROVE Inv
  OBVIOUS
<1>1. Ids = {} /\ synced = {} /\ stage = "start" /\ ~cursor /\ held = NoHold
  BY DEF Init, Ids
<1>2. \A i \in Instances : pending[i] = Nothing
  BY DEF Init
<1>3. missed = {NameOf(k) : k \in {x \in DOMAIN db : ~Discoverable(x, db[x])}}
      /\ DOMAIN remote = {}
  BY DEF Init
<1>4. ASSUME NEW k \in Key, NameOf(k) \notin missed
      PROVE  MendedAt(k) /\ HeldMendedAt(k)
  <2>1. CASE k \in DOMAIN db
    <3>1. Discoverable(k, db[k])
      BY <1>3, <1>4, <2>1
    <3>. QED
      BY <1>1, <2>1, <3>1, EmptyTypes DEF Undiscovered, MendedAt, HeldMendedAt
  <2>2. CASE k \notin DOMAIN db
    BY <1>1, <1>3, <2>2, EmptyTypes DEF Agree, MendedAt, HeldMendedAt
  <2>. QED
    BY <2>1, <2>2
<1>. QED
  BY <1>1, <1>2, <1>4 DEF Inv, InOrder, PendingWord, LastWord, Mended

LEMMA NextInv == Solitary => (TypeOK /\ Inv /\ [Next]_vars => Inv')
<1>. SUFFICES ASSUME Solitary, TypeOK, Inv, [Next]_vars PROVE Inv'
  OBVIOUS
<1>1. InOrder /\ PendingWord /\ LastWord /\ Mended
  BY DEF Inv
<1>2. InOrder'
  BY <1>1, NextInOrder
<1>3. PendingWord' /\ LastWord'
  BY <1>1, NextWords
<1>4. Mended'
  <2>1. ASSUME NEW i \in Instances, Commit(i) \/ Record(i) \/ LoseRecord(i) PROVE Mended'
    BY <1>1, <2>1, CommitMends, RecordMends, LoseRecordMends
  <2>2. CASE Engine
    BY <1>1, <2>2, GetSyncCursorMends, ListNextMends, VisitMends, SetSyncCursorMends,
       PushMends, GetUnsyncedChangesMends, ApplyChangeMends, MarkChangesSyncedMends
       DEF Engine
  <2>3. CASE Crash
    BY <1>1, <2>3, CrashMends
  <2>4. CASE UNCHANGED vars
    BY <1>1, <2>4, StutterMends
  <2>. QED
    BY <2>1, <2>2, <2>3, <2>4 DEF Next
<1>. QED
  BY <1>2, <1>3, <1>4 DEF Inv

LEMMA InvConverges == TypeOK /\ Inv => RemoteConverges
<1>. SUFFICES ASSUME TypeOK, Inv, Quiet, NEW k \in DOMAIN db \union DOMAIN remote,
                     Followed(k), NameOf(k) \notin missed
              PROVE  Agree(k)
  BY DEF RemoteConverges
<1>1. k \in Key
  BY DEF TypeOK, IsDatabase
<1>2. MendedAt(k)
  BY <1>1 DEF Inv, Mended
<1>3. ~Pending(NameOf(k)) /\ ~Awaited(NameOf(k))
  BY DEF Quiet, Pending, Awaited, Unapplied
<1>4. ~BeingApplied(k) /\ ~Undiscovered(k)
  BY DEF Quiet, BeingApplied, Undiscovered
<1>. QED
  BY <1>2, <1>3, <1>4 DEF MendedAt

\* Of a solitary instance the feed is enough to keep a copy: whatever requests
\* come, whenever the engine dies, however small its batches are, the copy is
\* what the tables are when nothing is on its way, but for what was never
\* logged (storage.go:22 to :105, list.go:79).
THEOREM FeedConverges == Solitary => (Spec => []RemoteConverges)
<1>. SUFFICES ASSUME Solitary PROVE Spec => []RemoteConverges
  OBVIOUS
<1>1. TypeOK /\ Inv /\ [Next]_vars => Inv'
  BY NextInv
<1>. QED
  BY <1>1, InitInv, InvConverges, TypeCorrect, PTL DEF Spec

-----------------------------------------------------------------------------
(* When nothing is missed.                                                 *)

\* Requests that leave no gap in the log: all but the delete of a project, which
\* takes features and persons along; and no row to be discovered that cannot.
Gapless ==
    /\ \A q \in Requests : q.op = "delete" => q.table # "projects"
    /\ \A d \in Seeds : \A k \in DOMAIN d : k[1] \in Listable => Discoverable(k, d[k])

\* No recordChange is lost and no SELECT of a discovery fails.
Lossless ==
    /\ \A i \in Instances : ~LoseRecord(i)
    /\ ListNext => faults' = faults

NothingMissed == \A n \in missed : n[1] \notin Listable

LEMMA ListableTables ==
    Listable \intersect {"projects", "session_turns", "packs", "stacks", "kv_store"} = {}
<1>1. \A i \in 1 .. 11 : EntityQueries[i] \notin
           {"projects", "session_turns", "packs", "stacks", "kv_store"}
  BY DEF EntityQueries
<1>2. Len(EntityQueries) = 11
  BY DEF EntityQueries
<1>. QED
  BY <1>1, <1>2 DEF Listable

\* An upsert and the project it may bring with it change no other followed row.
LEMMA WriteChanges ==
    ASSUME NEW d, IsDatabase(d), NEW q \in Request, q.op = "write",
           NEW n \in Changed(d, After(d, q)), n[1] \in Listable
    PROVE  IsLogged(q) /\ n = EntryOf(q).name
<1>. DEFINE u == Upsert(d, q, NewVersion(d, q))
            e == After(d, q)
<1>1. PICK k \in DOMAIN d \union DOMAIN e :
          /\ n = NameOf(k)
          /\ ~(k \in DOMAIN d /\ k \in DOMAIN e /\ d[k] = e[k])
  BY DEF Changed
<1>2. k[1] # "projects"
  BY <1>1, ListableTables DEF NameOf
<1>3. /\ DOMAIN u = DOMAIN d \union {KeyOf(q)}
      /\ \A x \in DOMAIN d : x # KeyOf(q) => u[x] = d[x]
      /\ IsDatabase(u)
  BY VersionType, UpsertEffect, UpsertType
<1>4. e = u \/ (e = InsertProject(u, q.proj) /\ q.proj \in Names)
  BY DEF After, Request
<1>. HIDE DEF u, e
<1>5. /\ k \in DOMAIN e => k \in DOMAIN u
      /\ \A x \in DOMAIN u : x \in DOMAIN e /\ e[x] = u[x]
  <2>1. CASE e = u
    BY <2>1
  <2>2. CASE e = InsertProject(u, q.proj) /\ q.proj \in Names
    <3>1. /\ DOMAIN InsertProject(u, q.proj) = DOMAIN u \union {<<"projects", q.proj, 0>>}
          /\ \A x \in DOMAIN u : InsertProject(u, q.proj)[x] = u[x]
      BY <1>3, <2>2, InsertProjectEffect
    <3>2. k # <<"projects", q.proj, 0>>
      BY <1>2
    <3>. QED
      BY <2>2, <3>1, <3>2
  <2>. QED
    BY <1>4, <2>1, <2>2
<1>6. k = KeyOf(q)
  BY <1>1, <1>3, <1>5
<1>7. KeyOf(q)[1] \notin {"session_turns", "packs", "kv_store", "stacks"}
  BY <1>1, <1>6, ListableTables DEF NameOf
<1>8. KeyOf(q) = <<q.table, q.id, 0>> /\ q.table \notin {"packs", "kv_store", "stacks"}
  <2>1. CASE q.table = "session_turns"
    BY <1>7, <2>1 DEF KeyOf
  <2>2. CASE q.table = "packs"
    BY <1>7, <2>2 DEF KeyOf
  <2>3. CASE q.table \notin {"session_turns", "packs"}
    <3>1. KeyOf(q) = <<q.table, q.id, 0>>
      BY <2>3 DEF KeyOf
    <3>. QED
      BY <1>7, <2>3, <3>1
  <2>. QED
    BY <2>1, <2>2, <2>3
<1>. QED
  BY <1>1, <1>6, <1>8 DEF NameOf, IsLogged, EntryOf

\* A delete of anything but a project takes no followed row along.
LEMMA DeleteChanges ==
    ASSUME NEW d, IsDatabase(d), NEW q \in Request, q.op = "delete",
           q.table # "projects",
           NEW n \in Changed(d, After(d, q)), n[1] \in Listable
    PROVE  IsLogged(q) /\ n = EntryOf(q).name
<1>. DEFINE gone == DeleteTargets(d, q)
            e == After(d, q)
<1>1. PICK k \in DOMAIN d \union DOMAIN e :
          /\ n = NameOf(k)
          /\ ~(k \in DOMAIN d /\ k \in DOMAIN e /\ d[k] = e[k])
  BY DEF Changed
<1>2. k[1] \notin {"projects", "session_turns", "packs", "stacks", "kv_store"}
  BY <1>1, ListableTables DEF NameOf
<1>3. /\ e = DeleteRows(d, gone)
      /\ DOMAIN DeleteRows(d, gone) = DOMAIN d \ (gone \union Dependents(d, gone))
      /\ \A x \in DOMAIN DeleteRows(d, gone) : DeleteRows(d, gone)[x] = d[x]
  BY DeleteRowsType DEF After
<1>. HIDE DEF e
<1>4. k \in gone \union Dependents(d, gone)
  BY <1>1, <1>3
<1>5. \/ gone = {<<q.table, q.id, q.turn>>} /\ q.table = "session_turns"
      \/ gone = {<<q.table, q.id, 0>>} /\ q.table \notin {"session_turns", "packs", "stacks"}
      \/ \A x \in gone : x[1] \in {"packs", "kv_store"}
  <2>1. CASE q.table = "session_turns"
    BY <2>1 DEF DeleteTargets
  <2>2. CASE q.table = "packs"
    BY <2>2 DEF DeleteTargets
  <2>3. CASE q.table = "stacks"
    BY <2>3 DEF DeleteTargets
  <2>4. CASE q.table \notin {"session_turns", "packs", "stacks"}
    BY <2>4 DEF DeleteTargets
  <2>. QED
    BY <2>1, <2>2, <2>3, <2>4
<1>. HIDE DEF gone
<1>6. k \notin Dependents(d, gone)
  <2>1. ASSUME k \in Dependents(d, gone) PROVE FALSE
    <3>1. References(k, d[k]) \subseteq {<<"projects", d[k].owner, 0>>}
      BY <1>2 DEF References
    <3>2. <<"projects", d[k].owner, 0>> \in gone
      BY <2>1, <3>1 DEF Dependents
    <3>. QED
      BY <1>5, <3>2
  <2>. QED
    BY <2>1
<1>7. k = <<q.table, q.id, 0>> /\ q.table \notin {"packs", "stacks"}
  BY <1>2, <1>4, <1>5, <1>6
<1>. QED
  BY <1>1, <1>2, <1>7 DEF NameOf, IsLogged, EntryOf

LEMMA NextMissesNothing ==
    ASSUME Gapless, TypeOK, NothingMissed, [Next]_vars, [Lossless]_vars
    PROVE  NothingMissed'
<1>. USE DEF tables, engine
<1>1. ASSUME NEW i \in Instances, Commit(i) PROVE NothingMissed'
  <2>1. PICK q \in Requests :
           \/ /\ IsLogged(q)
              /\ missed' = missed \union (Changed(db, After(db, q)) \ {EntryOf(q).name})
           \/ /\ ~IsLogged(q)
              /\ missed' = missed \union Changed(db, After(db, q))
    BY <1>1 DEF Commit
  <2>2. q \in Request /\ q.op \in {"write", "delete"} /\ IsDatabase(db)
    BY FeedAssumption DEF TypeOK, Request
  <2>3. ASSUME NEW n \in Changed(db, After(db, q)), n[1] \in Listable
        PROVE  IsLogged(q) /\ n = EntryOf(q).name
    BY <2>2, <2>3, WriteChanges, DeleteChanges DEF Gapless
  <2>. QED
    BY <2>1, <2>3 DEF NothingMissed
<1>2. ASSUME NEW i \in Instances, Record(i) PROVE NothingMissed'
  BY <1>2 DEF Record, NothingMissed
<1>3. ASSUME NEW i \in Instances, LoseRecord(i) PROVE NothingMissed'
  <2>1. faults \in Int /\ faults' = faults + 1
    BY <1>3 DEF LoseRecord, Fault, TypeOK
  <2>. QED
    BY <1>3, <2>1 DEF Lossless, vars
<1>4. CASE ListNext
  <2>1. faults' = faults
    BY <1>4 DEF Lossless, vars
  <2>2. faults \in Int
    BY DEF TypeOK
  <2>. QED
    BY <1>4, <2>1, <2>2 DEF ListNext, Fault, NothingMissed
<1>5. CASE \/ GetSyncCursor \/ Visit \/ SetSyncCursor \/ Push
           \/ GetUnsyncedChanges \/ ApplyChange \/ MarkChangesSynced \/ Crash
           \/ UNCHANGED vars
  BY <1>5 DEF GetSyncCursor, Visit, SetSyncCursor, Push, GetUnsyncedChanges,
              ApplyChange, MarkChangesSynced, Crash, vars, NothingMissed
<1>. QED
  BY <1>1, <1>2, <1>3, <1>4, <1>5 DEF Next, Engine

\* Of one instance whose clients delete no project, and with no entry lost and no
\* discovery cut short, the copy is all of the followed tables whenever the feed
\* is dry, however often the engine dies or loses its cursor (storage.go:22 to
\* :105, list.go:79).  A cascade is the only gap the handlers themselves leave.
THEOREM FeedIsComplete ==
    Solitary /\ Gapless =>
        (Spec /\ [][Lossless]_vars =>
            [](Quiet => \A k \in DOMAIN db \union DOMAIN remote :
                            Followed(k) => Agree(k)))
<1>. SUFFICES ASSUME Solitary, Gapless
              PROVE  Spec /\ [][Lossless]_vars =>
                       [](Quiet => \A k \in DOMAIN db \union DOMAIN remote :
                                       Followed(k) => Agree(k))
  OBVIOUS
<1>1. Init => NothingMissed
  BY DEF Init, NothingMissed, Gapless, NameOf
<1>2. TypeOK /\ NothingMissed /\ [Next]_vars /\ [Lossless]_vars => NothingMissed'
  BY NextMissesNothing
<1>3. RemoteConverges /\ NothingMissed =>
        (Quiet => \A k \in DOMAIN db \union DOMAIN remote : Followed(k) => Agree(k))
  BY DEF RemoteConverges, NothingMissed, Followed, NameOf
<1>4. Spec => []RemoteConverges
  BY FeedConverges
<1>. QED
  BY <1>1, <1>2, <1>3, <1>4, TypeCorrect, PTL DEF Spec

-----------------------------------------------------------------------------
(* Listed paths.                                                           *)

LEMMA NextAddressable ==
    PlainNames /\ TypeOK /\ AllAddressable(db) /\ [Next]_vars => AllAddressable(db)'
<1>. SUFFICES ASSUME PlainNames, TypeOK, AllAddressable(db), [Next]_vars
              PROVE  AllAddressable(db)'
  OBVIOUS
<1>1. CASE db' = db
  BY <1>1
<1>2. ASSUME NEW q \in Requests, db' = After(db, q)
      PROVE  AllAddressable(db)'
  <2>1. q \in Request /\ q.op # "read" /\ PlainRequest(q)
    BY FeedAssumption DEF PlainNames
  <2>2. IsDatabase(db)
    BY DEF TypeOK
  <2>3. AllAddressable(After(db, q))
    BY <2>1, <2>2, AfterKeepsAddressable
  <2>. QED
    BY <1>2, <2>3
<1>3. db' = db \/ \E q \in Requests : db' = After(db, q)
  BY DEF Next, Commit, Record, LoseRecord, Engine, GetSyncCursor, ListNext, Visit,
     SetSyncCursor, Push, GetUnsyncedChanges, ApplyChange, MarkChangesSynced, Crash,
     tables, vars
<1>. QED
  BY <1>1, <1>2, <1>3

\* Every list shows rows of the listed tables, or packs.
LEMMA ListedRows ==
    ASSUME NEW d, NEW p, NEW k \in listAllProjects(d) \union ListKeys(d, p)
    PROVE  k \in DOMAIN d /\ (k[1] \in ListedTables \/ k[1] = "packs")
<1>1. CASE k \in listAllProjects(d)
  BY <1>1 DEF listAllProjects, Shown, ListedTables
<1>2. CASE k \in ListKeys(d, p)
  <2>1. /\ isListPrefix(p)[1] \notin {"kv_store", "stacks"}
        /\ k \in DOMAIN d /\ k[1] = isListPrefix(p)[1]
    BY <1>2 DEF ListKeys, Shown
  <2>2. isListPrefix(p)[1] \in FolderTables
            \union {"packs", "stacks", "skills", "agents", "sessions",
                   "session_turns", "kv_store"}
    <3>1. \A t \in FolderTables : p[2] = Dir(FolderOf(t)) =>
              (CHOOSE u \in FolderTables : p[2] = Dir(FolderOf(u))) \in FolderTables
      OBVIOUS
    <3>. QED
      BY <3>1 DEF isListPrefix
  <2>. QED
    BY <2>1, <2>2 DEF ListedTables, LibraryTables, SessionTables
<1>. QED
  BY <1>1, <1>2

LEMMA AddressableListed ==
    TypeOK /\ AllAddressable(db) => ListedReadsBack
<1>. SUFFICES ASSUME TypeOK, AllAddressable(db), NEW p,
                     NEW k \in listAllProjects(db) \union ListKeys(db, p)
              PROVE  \/ k[1] \in FolderTables \ {"notes"} /\ db[k].owner = NoName
                     \/ k[1] = "packs" /\ Readable(db, routePath(PathOf(k, db[k])))
                     \/ ReadsBack(k, PathOf(k, db[k]))
  BY DEF ListedReadsBack
<1>1. /\ k \in DOMAIN db /\ k \in Key /\ db[k] \in Row
      /\ k[1] \in ListedTables \/ k[1] = "packs"
      /\ Addressable(k, db[k].owner)
  BY ListedRows DEF TypeOK, IsDatabase, AllAddressable
<1>2. CASE k[1] = "packs"
  <2>1. routePath(PathOf(k, db[k])) = Routed("packs", NoName, NoName, 0)
    BY <1>1, <1>2, PathBranches, PackRoutes DEF Addressable
  <2>. QED
    BY <1>2, <2>1 DEF Readable, Routed
<1>3. CASE k[1] \in ListedTables
  BY <1>1, <1>3, AddressableReadsBack
<1>. QED
  BY <1>1, <1>2, <1>3

\* A path that List answers with finds its row again by Read (list.go:66 to :318
\* against pathrouter.go:60), for any requests and imported rows whose names keep
\* to PlainNames: a project with a slash in its name, or a session with a dot,
\* does not read back.
THEOREM ListedPathsReadBack == PlainNames => (Spec => []ListedReadsBack)
<1>. SUFFICES ASSUME PlainNames PROVE Spec => []ListedReadsBack
  OBVIOUS
<1>1. Init => AllAddressable(db)
  BY DEF Init, PlainNames
<1>2. TypeOK /\ AllAddressable(db) /\ [Next]_vars => AllAddressable(db)'
  BY NextAddressable
<1>. QED
  BY <1>1, <1>2, AddressableListed, TypeCorrect, PTL DEF Spec

=============================================================================
