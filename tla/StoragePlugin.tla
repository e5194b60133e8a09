--------------------------- MODULE StoragePlugin ----------------------------
(***************************************************************************)
(* The request handlers of the storage plugin, one SQL statement a step.   *)
(*                                                                         *)
(* A worker is a goroutine that serves one request at a time for a plugin  *)
(* instance.  Write and Delete hold the instance's mutex from their first  *)
(* statement to their return; Read takes no lock.  Instances share one     *)
(* database file: nothing keeps two of them from being opened on a         *)
(* workspace, and each has a mutex of its own.                             *)
(*                                                                         *)
(*   idle -> wait -> check -> exec [-> ensure] -> record -> done -> idle   *)
(*   idle -> query -> done -> idle           (failed wherever done may be) *)
(***************************************************************************)
EXTENDS Schema

CONSTANTS
    Instances,  \* StoragePlugin objects on the workspace, in any process
    Workers,
    InstanceOf, \* the instance a worker serves
    Requests,   \* the requests clients make
    NoRequest,
    Seeds,      \* the databases the plugin may find at its first start
    Slugs,      \* the projects BootstrapProject is called for
    Faults,     \* the statements that may fail
    Crashes,    \* whether a process may die
    MaxVersion  \* bound: no new write to a row that has reached this version

Statements == {"query", "check", "exec", "ensure", "record"}

ASSUME PluginAssumption ==
    /\ InstanceOf \in [Workers -> Instances]
    /\ Requests \subseteq Request
    /\ NoRequest \notin Requests
    /\ \A d \in Seeds : IsDatabase(d) /\ ForeignKeys(d) /\ KvVersionsPositive(d)
    /\ Slugs \subseteq Names
    /\ Faults \subseteq Statements
    /\ Crashes \in BOOLEAN
    /\ MaxVersion \in Nat

VARIABLES
    db,        \* the rows
    changeLog, \* the latest change_log entry of each entity, by type and id
    up,        \* whether an instance is serving
    locked,    \* the mutex of an instance
    pc,        \* where a worker is
    req,       \* the request a worker serves
    answer     \* the version (and, for a read, the payload) to answer with

vars == <<db, changeLog, up, locked, pc, req, answer>>

NoAnswer == [ver |-> 0, body |-> Blank]

Labels ==
    {"idle", "wait", "check", "exec", "ensure", "record",
     "query", "done", "failed"}

\* Where a worker holds the mutex of its instance.
Critical == {"check", "exec", "ensure", "record"}

LogEntry == [act : {"upsert", "delete"}, ver : Int]

TypeOK ==
    /\ IsDatabase(db)
    /\ DOMAIN changeLog \subseteq Tables \X Names
    /\ changeLog \in [DOMAIN changeLog -> LogEntry]
    /\ up \in [Instances -> BOOLEAN]
    /\ locked \in [Instances -> BOOLEAN]
    /\ pc \in [Workers -> Labels]
    /\ req \in [Workers -> Requests \union {NoRequest}]
    /\ answer \in [Workers -> [ver : Int, body : Bodies]]
    /\ \A w \in Workers : pc[w] = "idle" <=> req[w] = NoRequest

-----------------------------------------------------------------------------

Goto(w, label) == pc' = [pc EXCEPT ![w] = label]

\* A bug to be caught: a return without Unlock.
ReturnLocked(w, label) == Goto(w, label) /\ UNCHANGED locked

\* The deferred Unlock, on every return of Write and Delete.
Return(w, label) ==
    /\ Goto(w, label)
    /\ locked' = [locked EXCEPT ![InstanceOf[w]] = FALSE]

\* A bug to be caught: deletes are not recorded.
IsLoggedUpsert(q) == q.table # "kv_store" /\ q.op = "write"

\* recordChange skips kv_store, and the handler of its deletes never calls it.
IsLogged(q) ==
    /\ q.table # "kv_store"
    /\ ~(q.table = "stacks" /\ q.op = "delete")

\* The type and id of the log entry: deletes of the registry get a name.
LogName(q) ==
    <<q.table, IF q.table = "packs" /\ q.op = "delete"
               THEN "registry" ELSE q.id>>

InBounds(q) == q.op = "write" => VersionAt(db, KeyOf(q)) < MaxVersion

-----------------------------------------------------------------------------

Init ==
    /\ db \in Seeds
    /\ changeLog = [n \in {} |-> NoAnswer]
    /\ up = [i \in Instances |-> TRUE]
    /\ locked = [i \in Instances |-> FALSE]
    /\ pc = [w \in Workers |-> "idle"]
    /\ req = [w \in Workers |-> NoRequest]
    /\ answer = [w \in Workers |-> NoAnswer]

Receive(w) ==
    /\ pc[w] = "idle"
    /\ up[InstanceOf[w]]
    /\ \E q \in Requests :
         /\ InBounds(q)
         /\ req' = [req EXCEPT ![w] = q]
         /\ Goto(w, IF q.op = "read" THEN "query" ELSE "wait")
    /\ UNCHANGED <<db, changeLog, up, locked, answer>>

\* Read: one SELECT, beside whatever the writers are doing.
Query(w) ==
    /\ pc[w] = "query"
    /\ \/ /\ Readable(db, req[w])
          /\ answer' = [answer EXCEPT ![w] = ReadAnswer(db, req[w])]
          /\ Goto(w, "done")
       \/ /\ ~Readable(db, req[w]) \/ "query" \in Faults
          /\ Goto(w, "failed")
          /\ UNCHANGED answer
    /\ UNCHANGED <<db, changeLog, up, locked, req>>

\* A bug to be caught: no Lock.
AcquireAtOnce(w) ==
    /\ pc[w] = "wait"
    /\ locked' = [locked EXCEPT ![InstanceOf[w]] = TRUE]
    /\ Goto(w, IF req[w].op = "write" THEN "check" ELSE "exec")
    /\ UNCHANGED <<db, changeLog, up, req, answer>>

\* s.mu.Lock()
Acquire(w) ==
    /\ pc[w] = "wait"
    /\ ~locked[InstanceOf[w]]
    /\ locked' = [locked EXCEPT ![InstanceOf[w]] = TRUE]
    /\ Goto(w, IF req[w].op = "write" THEN "check" ELSE "exec")
    /\ UNCHANGED <<db, changeLog, up, req, answer>>

\* What the version SELECT shows: a SELECT that fails is taken for no row.
Seen ==
    {db} \union IF "check" \in Faults THEN {[k \in {} |-> NoAnswer]} ELSE {}

\* A bug to be caught: the mutex guards the compare, not the swap.
CheckAndUnlock(w) ==
    /\ pc[w] = "check"
    /\ IF Admits(db, req[w])
       THEN /\ answer' = [answer EXCEPT ![w].ver = NewVersion(db, req[w])]
            /\ Return(w, "exec")
       ELSE Return(w, "failed") /\ UNCHANGED answer
    /\ UNCHANGED <<db, changeLog, up, req>>

\* The compare half of compare-and-swap.
Check(w) ==
    /\ pc[w] = "check"
    /\ \E seen \in Seen :
         \/ /\ Admits(seen, req[w])
            /\ answer' = [answer EXCEPT ![w].ver = NewVersion(seen, req[w])]
            /\ Goto(w, "exec")
            /\ UNCHANGED locked
         \/ /\ ~Admits(seen, req[w])
            /\ Return(w, "failed")
            /\ UNCHANGED answer
    /\ UNCHANGED <<db, changeLog, up, req>>

\* The swap half: INSERT ... ON CONFLICT DO UPDATE, with no look at the version.
ExecWrite(w) ==
    /\ pc[w] = "exec"
    /\ req[w].op = "write"
    /\ \/ /\ Storable(db, req[w], answer[w].ver)
          /\ db' = Upsert(db, req[w], answer[w].ver)
          /\ Goto(w, IF EnsuresProject(req[w]) THEN "ensure" ELSE "record")
          /\ UNCHANGED locked
       \/ /\ ~Storable(db, req[w], answer[w].ver) \/ "exec" \in Faults
          /\ Return(w, "failed")
          /\ UNCHANGED db
    /\ UNCHANGED <<changeLog, up, req, answer>>

ExecDelete(w) ==
    /\ pc[w] = "exec"
    /\ req[w].op = "delete"
    /\ \/ /\ Deletable(db, req[w])
          /\ db' = DeleteRows(db, DeleteTargets(db, req[w]))
          /\ Goto(w, "record")
          /\ UNCHANGED locked
       \/ /\ ~Deletable(db, req[w]) \/ "exec" \in Faults
          /\ Return(w, "failed")
          /\ UNCHANGED db
    /\ UNCHANGED <<changeLog, up, req, answer>>

\* ensureProject, after the row is written; its error is dropped.
EnsureProject(w) ==
    /\ pc[w] = "ensure"
    /\ \/ db' = InsertProject(db, req[w].proj)
       \/ "ensure" \in Faults /\ UNCHANGED db
    /\ Goto(w, "record")
    /\ UNCHANGED <<changeLog, up, locked, req, answer>>

EntryOf(q, ver) ==
    [act |-> IF q.op = "write" THEN "upsert" ELSE "delete", ver |-> ver]

Logged(q, ver) ==
    [n \in DOMAIN changeLog \union {LogName(q)} |->
        IF n = LogName(q) THEN EntryOf(q, ver) ELSE changeLog[n]]

\* recordChange; its error is only printed.
Record(w) ==
    /\ pc[w] = "record"
    /\ \/ /\ IsLogged(req[w])
          /\ changeLog' = Logged(req[w], answer[w].ver)
       \/ /\ ~IsLogged(req[w]) \/ "record" \in Faults
          /\ UNCHANGED changeLog
    /\ Return(w, "done")
    /\ UNCHANGED <<db, up, req, answer>>

Reply(w) ==
    /\ pc[w] \in {"done", "failed"}
    /\ Goto(w, "idle")
    /\ req' = [req EXCEPT ![w] = NoRequest]
    /\ answer' = [answer EXCEPT ![w] = NoAnswer]
    /\ UNCHANGED <<db, changeLog, up, locked>>

-----------------------------------------------------------------------------

\* The process dies: what its workers held is gone, what they committed stays.
Crash(i) ==
    /\ Crashes
    /\ up[i]
    /\ up' = [up EXCEPT ![i] = FALSE]
    /\ locked' = [locked EXCEPT ![i] = FALSE]
    /\ pc' = [w \in Workers |-> IF InstanceOf[w] = i THEN "idle" ELSE pc[w]]
    /\ req' = [w \in Workers |->
                 IF InstanceOf[w] = i THEN NoRequest ELSE req[w]]
    /\ answer' = [w \in Workers |->
                    IF InstanceOf[w] = i THEN NoAnswer ELSE answer[w]]
    /\ UNCHANGED <<db, changeLog>>

\* NewStoragePlugin on a workspace that has no markdown to import.
Start(i) ==
    /\ ~up[i]
    /\ up' = [up EXCEPT ![i] = TRUE]
    /\ UNCHANGED <<db, changeLog, locked, pc, req, answer>>

\* `orchestra init`, in a process of its own, under no mutex.
BootstrapProject(slug) ==
    /\ db' = InsertProject(db, slug)
    /\ UNCHANGED <<changeLog, up, locked, pc, req, answer>>

Serve(w) ==
    \/ Query(w)
    \/ Check(w)
    \/ ExecWrite(w)
    \/ ExecDelete(w)
    \/ EnsureProject(w)
    \/ Record(w)
    \/ Reply(w)

Next ==
    \/ \E w \in Workers : Receive(w) \/ Acquire(w) \/ Serve(w)
    \/ \E i \in Instances : Crash(i) \/ Start(i)
    \/ \E slug \in Slugs : BootstrapProject(slug)

Spec == Init /\ [][Next]_vars

\* A statement returns, if only with an error (busy_timeout), and the runtime
\* hands the mutex to a goroutine that has waited for it long enough.
Fairness ==
    \A w \in Workers : WF_vars(Serve(w)) /\ SF_vars(Acquire(w))

FairSpec == Spec /\ Fairness

-----------------------------------------------------------------------------
(* Properties.                                                             *)

\* The step in which w's upsert commits.
Commits(w) ==
    /\ pc[w] = "exec"
    /\ req[w].op = "write"
    /\ pc'[w] \in {"ensure", "record"}

\* Every row's parent exists, whichever instances write and delete, wherever
\* one of them dies: a delete takes the dependent rows along (schema.go) and an
\* upsert without a parent is refused.
ForeignKeysHold == ForeignKeys(db)

\* At most one worker of an instance is between Lock and Unlock, and the mutex
\* is held exactly then: no return of Write or Delete leaves it locked.
MutexInv ==
    /\ \A i \in Instances :
        locked[i] <=> \E w \in Workers : InstanceOf[w] = i /\ pc[w] \in Critical
    /\ \A v, w \in Workers :
        InstanceOf[v] = InstanceOf[w] /\ {pc[v], pc[w]} \subseteq Critical => v = w

\* One instance on the workspace.
Alone == \A i, j \in Instances : i = j

\* The deployment the CAS promise needs: one instance, no `orchestra init`
\* meanwhile, and no version SELECT that fails.
Solitary == Alone /\ Slugs = {} /\ "check" \notin Faults

\* What recordChange needs of a deployment: one instance, and no `orchestra init` of
\* a project that a client is deleting.
Undisturbed ==
    /\ Alone
    /\ \A q \in Requests : q.op = "delete" /\ q.table = "projects" => q.id \notin Slugs

\* What casCheck and writeKV concluded still holds when the upsert runs.
CheckedInv ==
    \A w \in Workers : pc[w] = "exec" /\ req[w].op = "write" =>
        /\ Admits(db, req[w])
        /\ answer[w].ver = NewVersion(db, req[w])

\* A kv entry has a positive version, and so has the next one to be written.
KvInv ==
    /\ KvVersionsPositive(db)
    /\ \A w \in Workers :
        /\ pc[w] = "exec"
        /\ req[w].op = "write"
        /\ KeyOf(req[w])[1] = "kv_store"
        => answer[w].ver > 0

\* The rows of q are as its statement left them.
Done(d, q, ver) ==
    IF q.op = "write"
    THEN /\ KeyOf(q) \in DOMAIN d
         /\ d[KeyOf(q)].body = q.body
         /\ KeyOf(q)[1] \in UnversionedTables \/ d[KeyOf(q)].ver = ver
    ELSE DeleteTargets(d, q) \intersect DOMAIN d = {}

\* The effect of a statement stands until its handler returns: what recordChange
\* is about to log is what the tables hold.
EffectStands ==
    \A w \in Workers :
        pc[w] \in {"ensure", "record"} => Done(db, req[w], answer[w].ver)

\* README, "Optimistic Concurrency (CAS)", at the instant of the upsert: a
\* create commits over no row, an update over the version it names.
CasExact ==
    \A w \in Workers : Commits(w) /\ IsChecked(req[w]) =>
        /\ req[w].exp = 0 => KeyOf(req[w]) \notin DOMAIN db
        /\ req[w].exp > 0 => /\ KeyOf(req[w]) \in DOMAIN db
                            /\ db[KeyOf(req[w])].ver = req[w].exp

CasCommitsAreExact == [][CasExact]_vars

\* A row that is overwritten gets the next version: no version is given to two
\* contents, so a client that holds one can tell that the row has changed.
NextVersions ==
    \A k \in DOMAIN db \intersect DOMAIN db' :
        k[1] \in CasTables \union {"kv_store"} /\ db'[k] # db[k]
            => db'[k].ver = db[k].ver + 1

VersionsStepByOne == [][NextVersions]_vars

\* What a client has seen of a request, by where its worker is: a request has
\* taken effect once its statement has.
StatusOf(label) ==
    IF label \in {"query", "wait", "check", "exec"} THEN "pending"
    ELSE IF label \in {"ensure", "record", "done"} THEN "ok"
    ELSE label

AnswerOf(label, ans) ==
    IF label \in {"ensure", "record", "done"} THEN ans ELSE NoAnswer

\* Write and Delete, each several statements, are single steps to the clients:
\* the instance implements the versioned store.
Store ==
    INSTANCE VersionedStore WITH
        Clients <- Workers,
        Calls <- Requests,
        NoCall <- NoRequest,
        Unreliable <- Faults # {},
        store <- db,
        call <- req,
        status <- [w \in Workers |-> StatusOf(pc[w])],
        answer <- [w \in Workers |-> AnswerOf(pc[w], answer[w])]

ImplementsStore == Store!Spec

\* The tables whose log entries name the row they are about.  A turn is logged
\* under its session, a pack under "" or "registry", and kv_store not at all.
LoggedByRow == CasTables \union {"sessions", "stacks"}

\* With no handler between its statement and recordChange, the log's last word
\* on an entity is what its table says: who replays the log has the tables.
LogExplainsStore ==
    (\A w \in Workers : pc[w] \notin {"ensure", "record"}) =>
        \A k \in DOMAIN db \union {<<n[1], n[2], 0>> : n \in DOMAIN changeLog} :
            LET n == <<k[1], k[2]>> IN
            k[1] \in LoggedByRow =>
              /\ n \in DOMAIN changeLog
              /\ changeLog[n].act = "upsert" <=> k \in DOMAIN db
              /\ k \in DOMAIN db /\ k[1] # "sessions"
                    => changeLog[n].ver = db[k].ver

\* What LogExplainsStore needs beyond one instance: an empty start, requests whose
\* statement changes no row but the one logged, no `orchestra init`, and no
\* recordChange that fails or is cut off.
Traced ==
    /\ Slugs = {}
    /\ \A d \in Seeds : DOMAIN d = {}
    /\ \A q \in Requests :
         /\ q.table \notin ChildTables \union {"session_turns"}
         /\ ~EnsuresProject(q)
    /\ "record" \notin Faults
    /\ ~Crashes

\* A request that waits for the mutex is answered, or its process dies.
EveryRequestAnswered ==
    \A w \in Workers :
        pc[w] = "wait" ~> pc[w] \in {"done", "failed"} \/ ~up[InstanceOf[w]]

\* What was written to a path is there to be read from it: the handler of
\* Read finds the row the handler of Write left (README:66-75 names the table
\* of each path).
WrittenIsReadable ==
    [][\A w \in Workers : Commits(w) =>
        IF req[w].table = "packs"
        THEN \E k \in DOMAIN db' : k[1] = "packs" /\ db'[k].body = req[w].body
        ELSE Readable(db', req[w]) /\ ReadAnswer(db', req[w]).body = req[w].body
      ]_vars

\* README:81: expected_version -1 writes unconditionally.
UpsertIsUnconditional ==
    \A w \in Workers : pc[w] = "failed"
        => ~(req[w].op = "write" /\ req[w].exp = -1)

=============================================================================
