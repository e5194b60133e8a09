------------------------ MODULE WorkspaceIndex_proofs ------------------------
(***************************************************************************)
(* Where one process does all the registering and no save fails, its mutex *)
(* keeps every registration, for any callers and any workspaces.           *)
(***************************************************************************)
EXTENDS WorkspaceIndex, TLAPS

\* A caller between Lock and Return holds the mutex of its process.
Excluded ==
    /\ DOMAIN pc = Callers
    /\ DOMAIN index = Callers
    /\ DOMAIN indexMu = {ProcessOf(c) : c \in Callers}
    /\ \A c \in Callers : pc[c] # "idle" => indexMu[ProcessOf(c)] = c

\* From Load on a caller has every registration in hand, its own included, and
\* the file has, but while it is cut.
Kept ==
    /\ \A c \in Callers :
         /\ pc[c] \in {"truncate", "write"} =>
              registered \union {Head(left[c])} \subseteq index[c]
         /\ pc[c] = "write" => file = {} /\ ~broken
    /\ RegistrationsKept

Inv == Excluded /\ Kept

LEMMA InitInv == ASSUME Free \notin Callers, Init PROVE Inv
BY DEF Init, Inv, Excluded, Kept, RegistrationsKept

LEMMA NextExcluded ==
    ASSUME Free \notin Callers, Excluded, [Next]_vars
    PROVE  Excluded'
<1>1. ASSUME NEW c \in Callers, Lock(c) PROVE Excluded'
  BY <1>1 DEF Lock, Goto, Excluded
<1>2. ASSUME NEW c \in Callers, Load(c) PROVE Excluded'
  BY <1>2 DEF Load, Goto, Excluded
<1>3. ASSUME NEW c \in Callers, Truncate(c) PROVE Excluded'
  BY <1>3 DEF Truncate, Goto, Excluded
<1>4. ASSUME NEW c \in Callers, pc[c] # "idle", Return(c) PROVE Excluded'
  <2>1. \A d \in Callers \ {c} : pc[d] # "idle" => ProcessOf(d) # ProcessOf(c)
    BY <1>4 DEF Excluded
  <2>. QED
    BY <1>4, <2>1 DEF Return, Goto, Excluded
<1>5. CASE UNCHANGED vars
  BY <1>5 DEF vars, Excluded
<1>. QED
  BY <1>1, <1>2, <1>3, <1>4, <1>5 DEF Next, Write, Fail

LEMMA NextKept ==
    ASSUME OneProcess, ~Failures, Inv, [Next]_vars
    PROVE  Kept'
<1>1. \A c, d \in Callers : pc[c] # "idle" /\ pc[d] # "idle" => c = d
  BY DEF OneProcess, Inv, Excluded
<1>2. ASSUME NEW c \in Callers, Lock(c) PROVE Kept'
  BY <1>2, <1>1 DEF Lock, Goto, Inv, Excluded, Kept, RegistrationsKept
<1>3. ASSUME NEW c \in Callers, Load(c) PROVE Kept'
  <2>1. registered \subseteq file
    BY <1>1, <1>3 DEF Load, Inv, Kept, RegistrationsKept
  <2>. QED
    BY <1>1, <1>3, <2>1 DEF Load, Goto, Inv, Excluded, Kept, RegistrationsKept
<1>4. ASSUME NEW c \in Callers, Truncate(c) PROVE Kept'
  BY <1>1, <1>4 DEF Truncate, Goto, Inv, Excluded, Kept, RegistrationsKept
<1>5. ASSUME NEW c \in Callers, Write(c) PROVE Kept'
  <2>1. file = {} /\ ~broken /\ registered \union {Head(left[c])} \subseteq index[c]
    BY <1>5 DEF Write, Inv, Kept
  <2>2. file' = index[c] /\ registered' \subseteq file'
    BY <1>5, <2>1 DEF Write
  <2>3. \A d \in Callers : pc'[d] = "idle"
    BY <1>1, <1>5 DEF Write, Return, Goto, Inv, Excluded
  <2>. QED
    BY <2>2, <2>3 DEF Kept, RegistrationsKept
<1>6. CASE UNCHANGED vars
  BY <1>6 DEF vars, Inv, Kept, RegistrationsKept
<1>. QED
  BY <1>2, <1>3, <1>4, <1>5, <1>6 DEF Next, Fail

\* Of one process none of whose saves fails, no registration is lost
\* (dbpath.go:44, under indexMu); the run "index" shows what two processes do.
THEOREM OneProcessKeepsRegistrations ==
    ASSUME Free \notin Callers, OneProcess, ~Failures
    PROVE  Spec => []RegistrationsKept
<1>1. Init => Inv
  BY InitInv
<1>2. Inv /\ [Next]_vars => Inv'
  BY NextExcluded, NextKept DEF Inv
<1>3. Inv => RegistrationsKept
  BY DEF Inv, Kept
<1>. QED
  BY <1>1, <1>2, <1>3, PTL DEF Spec

=============================================================================
