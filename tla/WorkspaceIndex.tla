---------------------------- MODULE WorkspaceIndex ---------------------------
(***************************************************************************)
(* The global index of workspaces, index.json (dbpath.go), that every      *)
(* plugin process of a user reads, extends and writes back.  indexMu is a  *)
(* mutex of one process; nothing locks the file.                           *)
(*                                                                         *)
(*   idle -> load -> truncate -> write -> idle                             *)
(***************************************************************************)
EXTENDS Sequences

CONSTANTS
    Callers,      \* goroutines that call RegisterWorkspace
    ProcessOf(_), \* the process a caller is part of
    Calls(_),     \* the workspaces a caller registers, one after the other
    Failures      \* whether a save may fail, or its process die

Free == "free"

VARIABLES
    file,      \* the workspaces loadIndex finds: none in a missing, empty or
               \* broken file
    broken,    \* whether index.json holds text that is no JSON
    indexMu,   \* process -> the caller that holds its mutex
    pc,
    left,      \* what a caller has yet to register
    index,     \* the index a caller has read and extended
    registered \* history: what RegisterWorkspace has returned nil for

vars == <<file, broken, indexMu, pc, left, index, registered>>

Init ==
    /\ file = {}
    /\ broken = FALSE
    /\ indexMu = [p \in {ProcessOf(c) : c \in Callers} |-> Free]
    /\ pc = [c \in Callers |-> "idle"]
    /\ left = [c \in Callers |-> Calls(c)]
    /\ index = [c \in Callers |-> {}]
    /\ registered = {}

Goto(c, label) == pc' = [pc EXCEPT ![c] = label]

Lock(c) ==
    /\ pc[c] = "idle"
    /\ left[c] # << >>
    /\ indexMu[ProcessOf(c)] = Free
    /\ indexMu' = [indexMu EXCEPT ![ProcessOf(c)] = c]
    /\ Goto(c, "load")
    /\ UNCHANGED <<file, broken, left, index, registered>>

Load(c) ==
    /\ pc[c] = "load"
    /\ index' = [index EXCEPT ![c] = file \union {Head(left[c])}]
    /\ Goto(c, "truncate")
    /\ UNCHANGED <<file, broken, indexMu, left, registered>>

\* os.WriteFile opens the file with O_TRUNC.
Truncate(c) ==
    /\ pc[c] = "truncate"
    /\ file' = {}
    /\ broken' = FALSE
    /\ Goto(c, "write")
    /\ UNCHANGED <<indexMu, left, index, registered>>

Return(c) ==
    /\ Goto(c, "idle")
    /\ left' = [left EXCEPT ![c] = Tail(@)]
    /\ indexMu' = [indexMu EXCEPT ![ProcessOf(c)] = Free]
    /\ UNCHANGED index

\* It writes from offset 0, over what another has written since: of a longer
\* text the end is left, and the whole is no JSON.
Write(c) ==
    /\ pc[c] = "write"
    /\ \/ file' = index[c] /\ broken' = FALSE
       \/ /\ broken \/ file \notin {{}, index[c]}
          /\ file' = {}
          /\ broken' = TRUE
    /\ registered' = registered \union {Head(left[c])}
    /\ Return(c)

\* The directory, the file or the disk refuses, which no caller looks at, or
\* the process dies; the file stays as it is by then.
Fail(c) ==
    /\ Failures
    /\ pc[c] # "idle"
    /\ Return(c)
    /\ UNCHANGED <<file, broken, registered>>

Next == \E c \in Callers :
    Lock(c) \/ Load(c) \/ Truncate(c) \/ Write(c) \/ Fail(c)

Spec == Init /\ [][Next]_vars

-----------------------------------------------------------------------------

\* dbpath.go:42, "adds a workspace to the global index so it can be discovered
\* for cross-workspace queries": once RegisterWorkspace has returned, and no
\* save is under way, ListWorkspaces answers with the workspace.
RegistrationsKept ==
    (\A c \in Callers : pc[c] # "write") => registered \subseteq file

\* All callers share the mutex.
OneProcess == \A c, d \in Callers : ProcessOf(c) = ProcessOf(d)

=============================================================================
