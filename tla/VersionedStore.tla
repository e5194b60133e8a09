--------------------------- MODULE VersionedStore ---------------------------
(***************************************************************************)
(* What the storage plugin promises of its tables: a request takes effect  *)
(* at one instant between its call and its answer, or not at all, and      *)
(* expected_version decides which as the README's table says.              *)
(* There are no processes, locks or statements here: only the store, the   *)
(* calls under way and their answers.                                      *)
(***************************************************************************)
EXTENDS Schema

CONSTANTS
    Clients,
    Calls,      \* the requests a client may make
    NoCall,
    Seeds,      \* the databases the store may start from
    Unreliable  \* whether a call may be refused for no reason the client sees

VARIABLES
    store,  \* the database
    call,   \* the request each client waits for
    status, \* "idle", "pending", "ok" or "failed", by client
    answer  \* the version and payload of an "ok"

vars == <<store, call, status, answer>>

NoAnswer == [ver |-> 0, body |-> Blank]

\* README, "Optimistic Concurrency (CAS)": create, upsert, update.  Sessions,
\* turns, packs and stacks promise nothing about expected_version.
Permitted(q) ==
    IsChecked(q) =>
        /\ q.exp = 0 => KeyOf(q) \notin DOMAIN store
        /\ q.exp > 0 => KeyOf(q) \in DOMAIN store /\ store[KeyOf(q)].ver = q.exp

\* No document says what an expected_version below -1 means.
Undocumented(q) == q.op = "write" /\ q.exp < -1

NextVersion(q) ==
    IF IsChecked(q) THEN VersionAt(store, KeyOf(q)) + 1 ELSE NewVersion(store, q)

\* What may be done with q at this instant.
CanDo(q) ==
    CASE q.op = "write" -> Permitted(q) /\ Storable(store, q, NextVersion(q))
      [] q.op = "delete" -> Deletable(store, q)
      [] q.op = "read" -> Readable(store, q)

-----------------------------------------------------------------------------

Init ==
    /\ store \in Seeds
    /\ call = [c \in Clients |-> NoCall]
    /\ status = [c \in Clients |-> "idle"]
    /\ answer = [c \in Clients |-> NoAnswer]

Invoke(c) ==
    /\ status[c] = "idle"
    /\ \E q \in Calls : call' = [call EXCEPT ![c] = q]
    /\ status' = [status EXCEPT ![c] = "pending"]
    /\ UNCHANGED <<store, answer>>

Accept(c, ans) ==
    /\ status' = [status EXCEPT ![c] = "ok"]
    /\ answer' = [answer EXCEPT ![c] = ans]
    /\ UNCHANGED call

Effect(c) ==
    /\ status[c] = "pending"
    /\ CanDo(call[c])
    /\ LET q == call[c] IN
         \/ /\ q.op = "write"
            /\ store' = Upsert(store, q, NextVersion(q))
            /\ Accept(c, [ver |-> NextVersion(q), body |-> Blank])
         \/ /\ q.op = "delete"
            /\ store' = DeleteRows(store, DeleteTargets(store, q))
            /\ Accept(c, NoAnswer)
         \/ /\ q.op = "read"
            /\ UNCHANGED store
            /\ Accept(c, ReadAnswer(store, q))

\* A refusal changes nothing.
Refuse(c) ==
    /\ status[c] = "pending"
    /\ ~CanDo(call[c]) \/ Undocumented(call[c]) \/ Unreliable
    /\ status' = [status EXCEPT ![c] = "failed"]
    /\ UNCHANGED <<store, call, answer>>

Respond(c) ==
    /\ status[c] \in {"ok", "failed"}
    /\ status' = [status EXCEPT ![c] = "idle"]
    /\ call' = [call EXCEPT ![c] = NoCall]
    /\ answer' = [answer EXCEPT ![c] = NoAnswer]
    /\ UNCHANGED store

\* The server went away: its clients get no answer, whatever became of the call.
Abandon(S) ==
    /\ status' = [c \in Clients |-> IF c \in S THEN "idle" ELSE status[c]]
    /\ call' = [c \in Clients |-> IF c \in S THEN NoCall ELSE call[c]]
    /\ answer' = [c \in Clients |-> IF c \in S THEN NoAnswer ELSE answer[c]]
    /\ UNCHANGED store

\* A project with default columns appears where there was none.
DefaultProject(slug) ==
    /\ store' = InsertProject(store, slug)
    /\ UNCHANGED <<call, status, answer>>

Next ==
    \/ \E c \in Clients : Invoke(c) \/ Effect(c) \/ Refuse(c) \/ Respond(c)
    \/ \E S \in SUBSET Clients : Abandon(S)
    \/ \E slug \in Names : DefaultProject(slug)

Spec == Init /\ [][Next]_vars

=============================================================================
