-------------------------- MODULE RoundTrip_proofs ---------------------------
(***************************************************************************)
(* Whole imports: what one keeps and adds, what a second and a third do,   *)
(* and that what an export writes of features and persons is restored, for *)
(* every database, every tree of files and every order of the walk.        *)
(***************************************************************************)
EXTENDS Import_proofs, Paths_proofs, FiniteSetTheorems

-----------------------------------------------------------------------------
(* Induction on the place of a walk, by a least counterexample: the        *)
(* intervals 0 .. n of a finite set are well-founded under inclusion.      *)

LEMMA LeastNat ==
    ASSUME NEW T \in SUBSET Nat, T # {}
    PROVE  \E n \in T : \A m \in T : n <= m
<1>1. PICK N \in T : TRUE
  OBVIOUS
<1>. DEFINE S == 0 .. N
            R == StrictSubsetOrdering(S)
            U == {0 .. n : n \in T \intersect S}
<1>2. IsWellFoundedOn(R, SUBSET S)
  <2>1. IsFiniteSet(S)
    BY <1>1, FS_Interval
  <2>. HIDE DEF S
  <2>. QED
    BY <2>1, FS_FiniteSubsetsOfFinite, FS_StrictSubsetOrderingWellFounded
<1>3. U \subseteq SUBSET S /\ U # {}
  BY <1>1
<1>4. PICK u \in U : \A v \in U : <<v, u>> \notin R
  <2>. HIDE DEF R, U, S
  <2>. QED
    BY <1>2, <1>3, WFMin
<1>5. PICK n \in T \intersect S : u = 0 .. n
  OBVIOUS
<1>6. ASSUME NEW m \in T, m < n
      PROVE  FALSE
  <2>1. m \in S /\ 0 .. m \in U
    BY <1>6
  <2>2. 0 .. m \subseteq 0 .. n /\ n \notin 0 .. m /\ n \in 0 .. n
    BY <1>6
  <2>3. <<0 .. m, 0 .. n>> \in R
    BY <1>3, <1>5, <2>1, <2>2 DEF StrictSubsetOrdering
  <2>. QED
    BY <1>4, <1>5, <2>1, <2>3
<1>. QED
  BY <1>6

\* A set of places that has the first and every next one has the last.
LEMMA UpTo ==
    ASSUME NEW N \in Nat, NEW T, 0 \in T,
           \A n \in 1 .. N : n - 1 \in T => n \in T
    PROVE  N \in T
<1>. DEFINE U == {n \in Nat : n <= N /\ n \notin T}
<1>1. ASSUME U # {} PROVE FALSE
  <2>1. PICK n \in U : \A m \in U : n <= m
    BY <1>1, LeastNat
  <2>2. n \in 1 .. N /\ n - 1 \in Nat /\ n - 1 <= N /\ n - 1 \notin U
    BY <2>1
  <2>. QED
    BY <2>1, <2>2
<1>. QED
  BY <1>1

\* Function g is the walk of a tree as far as n.
IsWalk(g, d, tree, n) ==
    /\ DOMAIN g = 0 .. n
    /\ g[0] = d
    /\ \A m \in 1 .. n : g[m] = WalkStep(g[m - 1], tree, m)

LEMMA WalkExists ==
    ASSUME NEW d, NEW tree, NEW N \in Nat
    PROVE  \E g : IsWalk(g, d, tree, N)
<1>. DEFINE T == {n \in Nat : ~\E g : IsWalk(g, d, tree, n)}
<1>1. SUFFICES ASSUME T # {} PROVE FALSE
  OBVIOUS
<1>2. PICK n \in T : \A m \in T : n <= m
  BY <1>1, LeastNat
<1>3. n # 0
  <2>1. IsWalk([m \in 0 .. 0 |-> d], d, tree, 0)
    BY DEF IsWalk
  <2>. QED
    BY <2>1
<1>4. n - 1 \in Nat /\ n - 1 \notin T
  BY <1>2, <1>3
<1>5. PICK g : IsWalk(g, d, tree, n - 1)
  BY <1>4
<1>. DEFINE h == [m \in 0 .. n |-> IF m = n THEN WalkStep(g[n - 1], tree, n) ELSE g[m]]
<1>6. IsWalk(h, d, tree, n)
  <2>1. DOMAIN h = 0 .. n /\ h[0] = d
    BY <1>3, <1>5 DEF IsWalk
  <2>2. ASSUME NEW m \in 1 .. n PROVE h[m] = WalkStep(h[m - 1], tree, m)
    <3>1. CASE m = n
      BY <3>1
    <3>2. CASE m # n
      <4>1. g[m] = WalkStep(g[m - 1], tree, m)
        BY <1>5, <3>2 DEF IsWalk
      <4>. QED
        BY <3>2, <4>1
    <3>. QED
      BY <3>1, <3>2
  <2>. HIDE DEF h
  <2>. QED
    BY <2>1, <2>2 DEF IsWalk
<1>. QED
  BY <1>6

\* The walk of the model is one.
LEMMA WalksUnfold ==
    ASSUME NEW d, NEW tree
    PROVE  IsWalk(Walks(d, tree), d, tree, Len(WalkOrder))
<1>. DEFINE N == Len(WalkOrder)
            Body(g) == [n \in 0 .. N |->
                          IF n = 0 THEN d ELSE WalkStep(g[n - 1], tree, n)]
<1>1. N \in Nat
  BY ImportAssumption
<1>2. Walks(d, tree) = CHOOSE g : g = Body(g)
  BY Zenon DEF Walks
<1>. HIDE DEF N
<1>3. PICK g : IsWalk(g, d, tree, N)
  BY <1>1, WalkExists
<1>. DEFINE f == [n \in 0 .. N |-> g[n]]
<1>4. f = Body(f)
  <2>1. \A n \in 0 .. N : f[n] = IF n = 0 THEN d ELSE WalkStep(f[n - 1], tree, n)
    BY <1>1, <1>3 DEF IsWalk
  <2>2. f = [n \in 0 .. N |-> f[n]]
    OBVIOUS
  <2>. HIDE DEF f
  <2>. QED
    BY <2>1, <2>2
<1>. HIDE DEF f
<1>5. Walks(d, tree) = Body(Walks(d, tree))
  <2>. HIDE DEF Body
  <2>. QED
    BY <1>2, <1>4
<1>6. \A w : w = Body(w) => IsWalk(w, d, tree, N)
  BY <1>1 DEF IsWalk
<1>. QED
  BY <1>5, <1>6 DEF N

-----------------------------------------------------------------------------
(* The row of a file.                                                      *)

\* A file of key k adds the row that is meant, and nothing else adds that key.
LEMMA WalkStepRestores ==
    ASSUME NEW d, IsDatabase(d), NEW tree, tree \in [DOMAIN tree -> Markdown],
           NEW n \in 1 .. Len(WalkOrder), NEW k, NEW goal,
           k[1] \in ChildTables,
           \A w \in DOMAIN tree :
               tree[w].good /\ ImportKey(w, tree[w]) = k
                   => ImportRow(w, tree[w]) = goal,
           k \in DOMAIN d => d[k] = goal
    PROVE  /\ k \in DOMAIN WalkStep(d, tree, n) => WalkStep(d, tree, n)[k] = goal
           /\ /\ WalkOrder[n] \in DOMAIN tree
              /\ tree[WalkOrder[n]].good
              /\ ImportKey(WalkOrder[n], tree[WalkOrder[n]]) = k
              => k \in DOMAIN WalkStep(d, tree, n)
<1>. DEFINE w == WalkOrder[n]
            f == tree[w]
            key == ImportKey(w, f)
            row == ImportRow(w, f)
            g == WithProject(d, w, f)
            e == WalkStep(d, tree, n)
<1>1. Extends(e, d)
  BY WalkStepEffect
<1>2. CASE w \notin DOMAIN tree \/ ~f.good
  BY <1>2 DEF WalkStep, ImportFile
<1>3. CASE w \in DOMAIN tree /\ f.good
  <2>1. IsWalked(w) /\ f \in Markdown
    BY <1>3 DEF IsWalked
  <2>2. key \in Key /\ row \in Row /\ IsDatabase(g)
    BY <2>1, ImportKeyType, ImportRowType, WithProjectEffect
  <2>3. e = InsertOrIgnore(g, key, row)
    BY <1>3 DEF WalkStep, ImportFile
  <2>4. k \in DOMAIN g => k \in DOMAIN d
    <3>. DEFINE o == ImportOwner(routePath(w), f)
    <3>1. g = d \/ g = InsertProject(d, o)
      BY DEF WithProject, NeedsProject
    <3>2. DOMAIN InsertProject(d, o) = DOMAIN d \union {<<"projects", o, 0>>}
      BY <2>1, ImportOwnerType, InsertProjectEffect
    <3>3. k # <<"projects", o, 0>>
      BY DEF ChildTables
    <3>. HIDE DEF g, o
    <3>. QED
      BY <3>1, <3>2, <3>3
  <2>5. key = k => k \in DOMAIN e
    <3>1. e = ImportFile(d, w, f)
      BY <1>3 DEF WalkStep
    <3>2. f.good
      BY <1>3
    <3>. HIDE DEF w, f, e
    <3>3. \/ key \in DOMAIN ImportFile(d, w, f)
          \/ key[1] = "session_turns"
      BY <2>1, <3>2, FileFindsRow
    <3>. QED
      BY <3>1, <3>3 DEF ChildTables
  <2>6. ASSUME k \in DOMAIN e, k \notin DOMAIN d
        PROVE  e[k] = goal
    <3>. HIDE DEF g, key, row, e
    <3>1. e = Put(g, key, row)
      BY <2>3, <2>4, <2>6 DEF InsertOrIgnore
    <3>2. DOMAIN Put(g, key, row) = DOMAIN g \union {key} /\ Put(g, key, row)[key] = row
      BY DEF Put
    <3>3. k = key /\ e[k] = row
      BY <2>4, <2>6, <3>1, <3>2
    <3>. QED
      BY <1>3, <3>3 DEF key, row
  <2>. QED
    BY <1>1, <2>5, <2>6 DEF Extends
<1>. QED
  BY <1>2, <1>3

\* An import into any database that lacks the row, or has it already.
LEMMA WalkRestores ==
    ASSUME NEW d, IsDatabase(d), NEW tree, tree \in [DOMAIN tree -> Markdown],
           NEW k, NEW goal,
           k[1] \in ChildTables,
           \A w \in DOMAIN tree :
               tree[w].good /\ ImportKey(w, tree[w]) = k
                   => ImportRow(w, tree[w]) = goal,
           k \in DOMAIN d => d[k] = goal,
           NEW j \in 1 .. Len(WalkOrder),
           WalkOrder[j] \in DOMAIN tree,
           tree[WalkOrder[j]].good,
           ImportKey(WalkOrder[j], tree[WalkOrder[j]]) = k
    PROVE  k \in DOMAIN ImportAll(d, tree) /\ ImportAll(d, tree)[k] = goal
<1>. DEFINE N == Len(WalkOrder)
            g == Walks(d, tree)
            Done(n) == /\ IsDatabase(g[n])
                       /\ k \in DOMAIN g[n] => g[n][k] = goal
                       /\ j <= n => k \in DOMAIN g[n]
            T == {n \in 0 .. N : Done(n)}
<1>1. N \in Nat
  BY ImportAssumption
<1>2. g[0] = d /\ \A n \in 1 .. N : g[n] = WalkStep(g[n - 1], tree, n)
  BY WalksUnfold DEF IsWalk
<1>. HIDE DEF g
<1>3. Done(0)
  BY <1>2
<1>4. ASSUME NEW n \in 1 .. N, Done(n - 1)
      PROVE  Done(n)
  <2>. DEFINE e == g[n - 1]
  <2>1. /\ IsDatabase(e) /\ (k \in DOMAIN e => e[k] = goal)
        /\ g[n] = WalkStep(e, tree, n)
    BY <1>2, <1>4
  <2>2. j <= n - 1 => k \in DOMAIN e
    BY <1>4
  <2>. HIDE DEF e, Done
  <2>3. IsDatabase(WalkStep(e, tree, n)) /\ Extends(WalkStep(e, tree, n), e)
    BY <2>1, WalkStepEffect
  <2>4. /\ k \in DOMAIN WalkStep(e, tree, n) => WalkStep(e, tree, n)[k] = goal
        /\ n = j => k \in DOMAIN WalkStep(e, tree, n)
    BY <2>1, WalkStepRestores
  <2>5. j <= n => k \in DOMAIN WalkStep(e, tree, n)
    <3>1. CASE n = j
      BY <2>4, <3>1
    <3>2. CASE n # j
      BY <2>2, <2>3, <3>2 DEF Extends
    <3>. QED
      BY <3>1, <3>2
  <2>. QED
    BY <2>1, <2>3, <2>4, <2>5 DEF Done
<1>5. N \in T
  <2>. HIDE DEF Done
  <2>1. 0 \in T
    BY <1>1, <1>3
  <2>2. \A n \in 1 .. N : n - 1 \in T => n \in T
    BY <1>1, <1>4
  <2>. HIDE DEF T
  <2>. QED
    BY <1>1, <2>1, <2>2, UpTo
<1>6. Done(N)
  BY <1>5
<1>. QED
  BY <1>1, <1>6 DEF ImportAll, g

-----------------------------------------------------------------------------
(* What a whole import promises, for any database and any tree.            *)

\* The i-th file, if it parses, has its row and its project in e; a turn may
\* have to wait for its session.
Found(e, tree, i) ==
    LET p == WalkOrder[i]
        k == ImportKey(p, tree[p])
    IN p \in DOMAIN tree /\ tree[p].good =>
         /\ k \in DOMAIN e \/ k[1] = "session_turns"
         /\ routePath(p).table \in ChildTables =>
               <<"projects", ImportOwner(routePath(p), tree[p]), 0>> \in DOMAIN e

LEMMA FoundStays ==
    ASSUME NEW d, NEW e, Extends(e, d), NEW tree, NEW i, Found(d, tree, i)
    PROVE  Found(e, tree, i)
BY DEF Found, Extends

LEMMA StepFinds ==
    ASSUME NEW d, IsDatabase(d), NEW tree, tree \in [DOMAIN tree -> Markdown],
           NEW n \in 1 .. Len(WalkOrder)
    PROVE  Found(WalkStep(d, tree, n), tree, n)
<1>. DEFINE p == WalkOrder[n]
            f == tree[p]
<1>. SUFFICES ASSUME p \in DOMAIN tree, f.good
              PROVE  Found(WalkStep(d, tree, n), tree, n)
  BY DEF Found
<1>1. IsWalked(p) /\ f \in Markdown
  BY DEF IsWalked
<1>2. WalkStep(d, tree, n) = ImportFile(d, p, f)
  BY DEF WalkStep
<1>3. /\ ImportFile(d, p, f) =
             InsertOrIgnore(WithProject(d, p, f), ImportKey(p, f), ImportRow(p, f))
      /\ IsDatabase(WithProject(d, p, f))
      /\ ImportKey(p, f) \in Key /\ ImportRow(p, f) \in Row
  BY <1>1, ImportKeyType, ImportRowType, WithProjectEffect DEF ImportFile
<1>4. Extends(ImportFile(d, p, f), WithProject(d, p, f))
  BY <1>3, InsertOrIgnoreEffect
<1>. HIDE DEF p, f
<1>5. ImportKey(p, f) \in DOMAIN ImportFile(d, p, f) \/ ImportKey(p, f)[1] = "session_turns"
  BY <1>1, FileFindsRow
<1>6. routePath(p).table \in ChildTables
        => <<"projects", ImportOwner(routePath(p), f), 0>> \in DOMAIN ImportFile(d, p, f)
  BY <1>1, <1>4, ProjectFirst DEF Extends
<1>. QED
  BY <1>2, <1>5, <1>6 DEF Found, p, f

LEMMA ExtendsTwice ==
    ASSUME NEW c, NEW d, NEW e, Extends(d, c), Extends(e, d)
    PROVE  Extends(e, c)
BY DEF Extends

LEMMA ImportFinds ==
    ASSUME NEW d, IsDatabase(d), NEW tree, tree \in [DOMAIN tree -> Markdown]
    PROVE  /\ IsDatabase(ImportAll(d, tree))
           /\ Extends(ImportAll(d, tree), d)
           /\ ForeignKeys(d) => ForeignKeys(ImportAll(d, tree))
           /\ \A i \in 1 .. Len(WalkOrder) : Found(ImportAll(d, tree), tree, i)
<1>. DEFINE N == Len(WalkOrder)
            g == Walks(d, tree)
            Sofar(n) == /\ IsDatabase(g[n])
                        /\ Extends(g[n], d)
                        /\ ForeignKeys(d) => ForeignKeys(g[n])
                        /\ \A i \in 1 .. n : Found(g[n], tree, i)
            T == {n \in 0 .. N : Sofar(n)}
<1>1. N \in Nat
  BY ImportAssumption
<1>2. g[0] = d /\ \A n \in 1 .. N : g[n] = WalkStep(g[n - 1], tree, n)
  BY WalksUnfold DEF IsWalk
<1>. HIDE DEF g
<1>3. Sofar(0)
  BY <1>2 DEF Extends
<1>4. ASSUME NEW n \in 1 .. N, Sofar(n - 1)
      PROVE  Sofar(n)
  <2>. DEFINE e == g[n - 1]
  <2>1. /\ IsDatabase(e) /\ Extends(e, d)
        /\ ForeignKeys(d) => ForeignKeys(e)
        /\ \A i \in 1 .. n - 1 : Found(e, tree, i)
        /\ g[n] = WalkStep(e, tree, n)
    BY <1>2, <1>4
  <2>. HIDE DEF e
  <2>2. /\ IsDatabase(WalkStep(e, tree, n)) /\ Extends(WalkStep(e, tree, n), e)
        /\ ForeignKeys(e) => ForeignKeys(WalkStep(e, tree, n))
        /\ Found(WalkStep(e, tree, n), tree, n)
    BY <2>1, WalkStepEffect, StepFinds
  <2>3. Extends(WalkStep(e, tree, n), d)
    BY <2>1, <2>2, ExtendsTwice
  <2>4. \A i \in 1 .. n : Found(WalkStep(e, tree, n), tree, i)
    <3>. TAKE i \in 1 .. n
    <3>1. CASE i = n
      BY <2>2, <3>1
    <3>2. CASE i # n
      <4>1. Found(e, tree, i)
        BY <2>1, <3>2
      <4>. QED
        BY <2>2, <4>1, FoundStays
    <3>. QED
      BY <3>1, <3>2
  <2>. QED
    BY <2>1, <2>2, <2>3, <2>4
<1>5. N \in T
  <2>. HIDE DEF Sofar
  <2>1. 0 \in T
    BY <1>1, <1>3
  <2>2. \A n \in 1 .. N : n - 1 \in T => n \in T
    BY <1>1, <1>4
  <2>. HIDE DEF T
  <2>. QED
    BY <1>1, <2>1, <2>2, UpTo
<1>. QED
  BY <1>5 DEF ImportAll, g

\* A file whose row and project are there adds nothing, but for a turn.
LEMMA StepAddsTurns ==
    ASSUME NEW d, IsDatabase(d), NEW tree, tree \in [DOMAIN tree -> Markdown],
           NEW n \in 1 .. Len(WalkOrder), Found(d, tree, n)
    PROVE  \A k \in DOMAIN WalkStep(d, tree, n) \ DOMAIN d : k[1] = "session_turns"
<1>. DEFINE p == WalkOrder[n]
            f == tree[p]
            o == ImportOwner(routePath(p), f)
<1>1. CASE p \notin DOMAIN tree \/ ~f.good
  BY <1>1 DEF WalkStep, ImportFile
<1>2. CASE p \in DOMAIN tree /\ f.good
  <2>1. IsWalked(p) /\ f \in Markdown
    BY <1>2 DEF IsWalked
  <2>2. WalkStep(d, tree, n) =
          InsertOrIgnore(WithProject(d, p, f), ImportKey(p, f), ImportRow(p, f))
    BY <1>2 DEF WalkStep, ImportFile
  <2>3. /\ ImportKey(p, f) \in DOMAIN d \/ ImportKey(p, f)[1] = "session_turns"
        /\ routePath(p).table \in ChildTables => <<"projects", o, 0>> \in DOMAIN d
    BY <1>2 DEF Found
  <2>. HIDE DEF p, f, o
  <2>4. DOMAIN WithProject(d, p, f) = DOMAIN d
    <3>1. CASE routePath(p).table \in ChildTables /\ o # NoName
      <4>1. DOMAIN InsertProject(d, o) = DOMAIN d \union {<<"projects", o, 0>>}
        BY <2>1, ImportOwnerType, InsertProjectEffect DEF o
      <4>2. WithProject(d, p, f) = InsertProject(d, o)
        BY <3>1 DEF WithProject, NeedsProject, o
      <4>. QED
        BY <2>3, <3>1, <4>1, <4>2
    <3>2. CASE ~(routePath(p).table \in ChildTables /\ o # NoName)
      BY <3>2 DEF WithProject, NeedsProject, o
    <3>. QED
      BY <3>1, <3>2
  <2>5. DOMAIN InsertOrIgnore(WithProject(d, p, f), ImportKey(p, f), ImportRow(p, f))
          \subseteq DOMAIN WithProject(d, p, f) \union {ImportKey(p, f)}
    BY DEF InsertOrIgnore, Put
  <2>. QED
    BY <2>2, <2>3, <2>4, <2>5
<1>. QED
  BY <1>1, <1>2

\* What MigrateFromMarkdown (migrate_data.go:44-114) promises of any tree, put on
\* any database in any order: no row of before is changed or lost, every child
\* has its parent, and every file that parses has its row, but for turns.
THEOREM ImportPromise ==
    ASSUME NEW d, IsDatabase(d), ForeignKeys(d),
           NEW tree, tree \in [DOMAIN tree -> Markdown]
    PROVE  LET e == ImportAll(d, tree) IN
           /\ ForeignKeys(e)
           /\ \A k \in DOMAIN d : k \in DOMAIN e /\ e[k] = d[k]
           /\ \A i \in 1 .. Len(WalkOrder) :
                LET p == WalkOrder[i]
                    k == ImportKey(p, tree[p])
                IN p \in DOMAIN tree /\ tree[p].good
                     => k \in DOMAIN e \/ k[1] = "session_turns"
BY ImportFinds DEF Extends, Found

\* The import of a tree that is in the database already adds turns at most, those
\* that came before their session the last time: this is as far as
\* migrate_data.go:18, "Idempotent", goes.
THEOREM ReimportAddsTurns ==
    ASSUME NEW d, IsDatabase(d), NEW tree, tree \in [DOMAIN tree -> Markdown]
    PROVE  LET e == ImportAll(d, tree) IN
           \A k \in DOMAIN ImportAll(e, tree) \ DOMAIN e : k[1] = "session_turns"
<1>. DEFINE e == ImportAll(d, tree)
            N == Len(WalkOrder)
            g == Walks(e, tree)
            Same(n) == /\ IsDatabase(g[n])
                       /\ Extends(g[n], e)
                       /\ \A k \in DOMAIN g[n] \ DOMAIN e : k[1] = "session_turns"
            T == {n \in 0 .. N : Same(n)}
<1>1. N \in Nat
  BY ImportAssumption
<1>2. g[0] = e /\ \A n \in 1 .. N : g[n] = WalkStep(g[n - 1], tree, n)
  BY WalksUnfold DEF IsWalk
<1>3. IsDatabase(e) /\ \A n \in 1 .. N : Found(e, tree, n)
  BY ImportFinds
<1>. HIDE DEF g, e
<1>4. Same(0)
  BY <1>2, <1>3 DEF Extends
<1>5. ASSUME NEW n \in 1 .. N, Same(n - 1)
      PROVE  Same(n)
  <2>. DEFINE c == g[n - 1]
  <2>1. /\ IsDatabase(c) /\ Extends(c, e)
        /\ \A k \in DOMAIN c \ DOMAIN e : k[1] = "session_turns"
        /\ g[n] = WalkStep(c, tree, n)
    BY <1>2, <1>5
  <2>. HIDE DEF c
  <2>2. Found(c, tree, n)
    BY <1>3, <2>1, FoundStays
  <2>3. /\ IsDatabase(WalkStep(c, tree, n)) /\ Extends(WalkStep(c, tree, n), c)
        /\ \A k \in DOMAIN WalkStep(c, tree, n) \ DOMAIN c : k[1] = "session_turns"
    BY <2>1, <2>2, WalkStepEffect, StepAddsTurns
  <2>4. Extends(WalkStep(c, tree, n), e)
    BY <2>1, <2>3, ExtendsTwice
  <2>. QED
    BY <2>1, <2>3, <2>4
<1>6. N \in T
  <2>. HIDE DEF Same
  <2>1. 0 \in T
    BY <1>1, <1>4
  <2>2. \A n \in 1 .. N : n - 1 \in T => n \in T
    BY <1>1, <1>5
  <2>. HIDE DEF T
  <2>. QED
    BY <1>1, <2>1, <2>2, UpTo
<1>. QED
  BY <1>6 DEF ImportAll, g, e

\* A turn whose session the database s has finds its row in e.
Joined(s, e, tree, i) ==
    LET p == WalkOrder[i]
        k == ImportKey(p, tree[p])
    IN /\ p \in DOMAIN tree /\ tree[p].good
       /\ k[1] = "session_turns" /\ <<"sessions", k[2], 0>> \in DOMAIN s
       => k \in DOMAIN e

LEMMA StepJoins ==
    ASSUME NEW s, NEW d, IsDatabase(d), Extends(d, s),
           NEW tree, tree \in [DOMAIN tree -> Markdown],
           NEW n \in 1 .. Len(WalkOrder)
    PROVE  Joined(s, WalkStep(d, tree, n), tree, n)
<1>. DEFINE p == WalkOrder[n]
            f == tree[p]
<1>. SUFFICES ASSUME p \in DOMAIN tree, f.good,
                     <<"sessions", ImportKey(p, f)[2], 0>> \in DOMAIN s
              PROVE  ImportKey(p, f) \in DOMAIN WalkStep(d, tree, n)
  BY DEF Joined
<1>1. IsWalked(p) /\ f \in Markdown
  BY DEF IsWalked
<1>2. WalkStep(d, tree, n) = ImportFile(d, p, f)
  BY DEF WalkStep
<1>. HIDE DEF p, f
<1>3. <<"sessions", ImportKey(p, f)[2], 0>> \in DOMAIN d
  BY DEF Extends
<1>. QED
  BY <1>1, <1>2, <1>3, FileFindsRow

LEMMA JoinedStays ==
    ASSUME NEW s, NEW d, NEW e, Extends(e, d), NEW tree, NEW i,
           Joined(s, d, tree, i)
    PROVE  Joined(s, e, tree, i)
BY DEF Joined, Extends

\* A file with its row and its project there, or a turn with no session, changes
\* nothing.
LEMMA SettledStep ==
    ASSUME NEW d, IsDatabase(d), NEW tree, tree \in [DOMAIN tree -> Markdown],
           NEW n \in 1 .. Len(WalkOrder),
           Found(d, tree, n), Joined(d, d, tree, n)
    PROVE  WalkStep(d, tree, n) = d
<1>. DEFINE p == WalkOrder[n]
            f == tree[p]
            o == ImportOwner(routePath(p), f)
            k == ImportKey(p, f)
            r == ImportRow(p, f)
<1>1. CASE p \notin DOMAIN tree \/ ~f.good
  BY <1>1 DEF WalkStep, ImportFile
<1>2. CASE p \in DOMAIN tree /\ f.good
  <2>1. WalkStep(d, tree, n) = InsertOrIgnore(WithProject(d, p, f), k, r)
    BY <1>2 DEF WalkStep, ImportFile
  <2>2. /\ routePath(p).table \in ChildTables => <<"projects", o, 0>> \in DOMAIN d
        /\ \/ k \in DOMAIN d
           \/ k[1] = "session_turns" /\ <<"sessions", k[2], 0>> \notin DOMAIN d
    BY <1>2 DEF Found, Joined
  <2>. HIDE DEF p, f, k, r
  <2>3. WithProject(d, p, f) = d
    BY <2>2 DEF WithProject, NeedsProject, InsertProject
  <2>4. k[1] = "session_turns" => References(k, r) = {<<"sessions", k[2], 0>>}
    BY DEF References, ChildTables
  <2>5. InsertOrIgnore(d, k, r) = d
    BY <2>2, <2>4 DEF InsertOrIgnore
  <2>. QED
    BY <2>1, <2>3, <2>5
<1>. QED
  BY <1>1, <1>2

\* Where every file is settled, so is the walk.
LEMMA SettledImport ==
    ASSUME NEW d, IsDatabase(d), NEW tree, tree \in [DOMAIN tree -> Markdown],
           \A i \in 1 .. Len(WalkOrder) : Found(d, tree, i) /\ Joined(d, d, tree, i)
    PROVE  ImportAll(d, tree) = d
<1>. DEFINE N == Len(WalkOrder)
            g == Walks(d, tree)
            T == {n \in 0 .. N : g[n] = d}
<1>1. N \in Nat
  BY ImportAssumption
<1>2. g[0] = d /\ \A n \in 1 .. N : g[n] = WalkStep(g[n - 1], tree, n)
  BY WalksUnfold DEF IsWalk
<1>. HIDE DEF g
<1>3. ASSUME NEW n \in 1 .. N, g[n - 1] = d PROVE g[n] = d
  BY <1>2, <1>3, SettledStep
<1>4. N \in T
  <2>1. 0 \in T
    BY <1>1, <1>2
  <2>2. \A n \in 1 .. N : n - 1 \in T => n \in T
    BY <1>1, <1>3
  <2>. HIDE DEF T
  <2>. QED
    BY <1>1, <2>1, <2>2, UpTo
<1>. QED
  BY <1>4 DEF ImportAll, g

\* Two imports of a tree are enough: a third changes nothing, whatever the files,
\* their order and the database they were first put on.  Every start of the
\* plugin is an import as long as there are no features (migrate_data.go:25-31).
THEOREM ThirdImportIsIdle ==
    ASSUME NEW d, IsDatabase(d), NEW tree, tree \in [DOMAIN tree -> Markdown]
    PROVE  LET e == ImportAll(ImportAll(d, tree), tree) IN
           ImportAll(e, tree) = e
<1>. DEFINE s == ImportAll(d, tree)
            e == ImportAll(s, tree)
            N == Len(WalkOrder)
            g == Walks(s, tree)
            Sofar(n) == /\ IsDatabase(g[n])
                        /\ Extends(g[n], s)
                        /\ \A i \in 1 .. n : Joined(s, g[n], tree, i)
            T == {n \in 0 .. N : Sofar(n)}
<1>1. N \in Nat
  BY ImportAssumption
<1>2. g[0] = s /\ \A n \in 1 .. N : g[n] = WalkStep(g[n - 1], tree, n)
  BY WalksUnfold DEF IsWalk
<1>3. IsDatabase(s)
  BY ImportFinds
<1>4. /\ IsDatabase(e)
      /\ \A i \in 1 .. N : Found(e, tree, i)
      /\ \A k \in DOMAIN e \ DOMAIN s : k[1] = "session_turns"
  <2>1. \A k \in DOMAIN e \ DOMAIN s : k[1] = "session_turns"
    BY ReimportAddsTurns
  <2>. HIDE DEF s
  <2>. QED
    BY <1>3, <2>1, ImportFinds
<1>. HIDE DEF g, s
<1>5. Sofar(0)
  BY <1>2, <1>3 DEF Extends
<1>6. ASSUME NEW n \in 1 .. N, Sofar(n - 1)
      PROVE  Sofar(n)
  <2>. DEFINE c == g[n - 1]
  <2>1. /\ IsDatabase(c) /\ Extends(c, s)
        /\ \A i \in 1 .. n - 1 : Joined(s, c, tree, i)
        /\ g[n] = WalkStep(c, tree, n)
    BY <1>2, <1>6
  <2>. HIDE DEF c
  <2>2. /\ IsDatabase(WalkStep(c, tree, n)) /\ Extends(WalkStep(c, tree, n), c)
        /\ Joined(s, WalkStep(c, tree, n), tree, n)
    BY <2>1, WalkStepEffect, StepJoins
  <2>3. Extends(WalkStep(c, tree, n), s)
    BY <2>1, <2>2, ExtendsTwice
  <2>4. \A i \in 1 .. n : Joined(s, WalkStep(c, tree, n), tree, i)
    <3>. TAKE i \in 1 .. n
    <3>1. CASE i = n
      BY <2>2, <3>1
    <3>2. CASE i # n
      <4>1. Joined(s, c, tree, i)
        BY <2>1, <3>2
      <4>. QED
        BY <2>2, <4>1, JoinedStays
    <3>. QED
      BY <3>1, <3>2
  <2>. QED
    BY <2>1, <2>2, <2>3, <2>4
<1>7. N \in T
  <2>. HIDE DEF Sofar
  <2>1. 0 \in T
    BY <1>1, <1>5
  <2>2. \A n \in 1 .. N : n - 1 \in T => n \in T
    BY <1>1, <1>6
  <2>. HIDE DEF T
  <2>. QED
    BY <1>1, <2>1, <2>2, UpTo
<1>8. \A i \in 1 .. N : Joined(s, e, tree, i)
  BY <1>7 DEF ImportAll, g
<1>. HIDE DEF e
<1>9. \A i \in 1 .. N : Joined(e, e, tree, i)
  BY <1>4, <1>8 DEF Joined
<1>10. ImportAll(e, tree) = e
  BY <1>4, <1>9, SettledImport
<1>. QED
  BY <1>10 DEF e, s

-----------------------------------------------------------------------------
(* The file of a row.                                                      *)

\* A key an export can write and an import read back.
ChildKey(k) == k \in Key /\ k[1] \in ChildTables /\ k[3] = 0

LEMMA PlainNotEmpty ==
    ASSUME NEW n, PlainProject(n)
    PROVE  n # NoName /\ PlainPart(n) /\ n \notin Reserved
BY PathsAssumption DEF PlainProject, PlainPart

LEMMA ChildFolders ==
    ASSUME NEW t \in ChildTables
    PROVE  t \in FolderTables \ {"notes"} /\ FolderOf(t) = t
BY DEF ChildTables, FolderTables, FolderOf

LEMMA ChildPath ==
    ASSUME NEW k, k[1] \in ChildTables, NEW r, PlainPart(r.owner)
    PROVE  ExportPath(k, r) = <<Dir(r.owner), Dir(k[1]), File(k[2])>>
<1>1. k[1] \notin {"notes", "skills", "agents"}
  BY DEF ChildTables
<1>2. ExportPath(k, r) = PathOf(k, r)
  BY <1>1, Zenon DEF ExportPath
<1>3. PathOf(k, r) = Parts(r.owner) \o <<Dir(k[1]), File(k[2])>>
  BY ChildFolders, PathBranches
<1>. QED
  BY <1>2, <1>3, PlainJoin

\* Notes, skills, agents and plain projects lie elsewhere.
LEMMA OtherPaths ==
    ASSUME PlainProjects, NEW k, NEW r, r.body \in Bodies,
           k[1] \in {"notes", "skills", "agents", "projects"},
           k[1] = "projects" => PlainProject(k[2])
    PROVE  \/ Len(ExportPath(k, r)) = 2
           \/ ExportPath(k, r)[1] \in {Dir(".skills"), Dir(".agents")}
<1>1. CASE k[1] = "notes"
  <2>1. ExportPath(k, r) = <<Dir(".notes"), File(k[2])>>
    BY <1>1, Zenon DEF ExportPath
  <2>. QED
    BY <2>1
<1>2. CASE k[1] \in {"skills", "agents"}
  <2>1. k[1] # "notes" /\ k[1] \in LibraryTables
    BY <1>2 DEF LibraryTables
  <2>2. ExportPath(k, r) = SlugPath(k[1], r.body)
    BY <1>2, <2>1, Zenon DEF ExportPath
  <2>. QED
    BY <2>1, <2>2 DEF PlainProjects
<1>3. CASE k[1] = "projects"
  <2>1. ExportPath(k, r) = PathOf(k, r)
    BY <1>3, Zenon DEF ExportPath
  <2>2. PathOf(k, r) = Parts(k[2]) \o <<Json("project")>>
    BY <1>3, PathBranches
  <2>3. PathOf(k, r) = <<Dir(k[2]), Json("project")>>
    BY <1>3, <2>2, PlainNotEmpty, PlainJoin
  <2>. QED
    BY <2>1, <2>3
<1>. QED
  BY <1>1, <1>2, <1>3

\* The last two parts of a path of three.
LEMMA LastParts ==
    ASSUME NEW S, NEW s \in Seq(S), NEW a, NEW b, NEW u, NEW v, NEW w,
           s \o <<a, b>> = <<u, v, w>>
    PROVE  a = v /\ b = w
<1>. DEFINE T == S \union {a, b}
            t == s \o <<a, b>>
<1>1. s \in Seq(T) /\ <<a, b>> \in Seq(T)
  OBVIOUS
<1>2. /\ Len(t) = Len(s) + 2
      /\ \A i \in 1 .. Len(s) + 2 :
           t[i] = IF i <= Len(s) THEN s[i] ELSE <<a, b>>[i - Len(s)]
  BY <1>1, ConcatProperties
<1>3. t = <<u, v, w>>
  OBVIOUS
<1>. HIDE DEF t
<1>4. Len(t) = 3 /\ t[2] = v /\ t[3] = w
  BY <1>3
<1>5. Len(s) \in Nat
  OBVIOUS
<1>6. Len(s) = 1
  <2>1. Len(t) = Len(s) + 2
    BY <1>2
  <2>2. \A n \in Nat : n + 2 = 3 => n = 1
    OBVIOUS
  <2>. QED
    BY ONLY <1>4, <1>5, <2>1, <2>2
<1>7. t[2] = <<a, b>>[1] /\ t[3] = <<a, b>>[2]
  BY <1>2, <1>6
<1>. QED
  BY <1>4, <1>7

\* No other row is exported to the path of a child.
LEMMA OwnPath ==
    ASSUME PlainProjects, NEW k, ChildKey(k), NEW r, PlainProject(r.owner),
           NEW l \in Key, l[1] \in ChildTables => l[3] = 0,
           l[1] = "projects" => PlainProject(l[2]), NEW s \in Row,
           NEW i \in 1 .. Len(ExportTables), l[1] = ExportTables[i],
           ExportPath(l, s) = ExportPath(k, r)
    PROVE  l = k
<1>1. ExportPath(k, r) = <<Dir(r.owner), Dir(k[1]), File(k[2])>>
  BY ChildPath, PlainNotEmpty DEF ChildKey
<1>2. Len(ExportPath(k, r)) = 3 /\ ExportPath(k, r)[1] = Dir(r.owner)
  BY <1>1
<1>3. l[1] \in {"features", "persons", "plans", "requests", "delegations",
                "notes", "docs", "skills", "agents", "projects"}
  BY DEF ExportTables
<1>4. Dir(r.owner) \notin {Dir(".skills"), Dir(".agents")}
  BY PlainNotEmpty DEF Dir, Reserved
<1>5. l[1] \notin {"notes", "skills", "agents", "projects"}
  <2>. SUFFICES ASSUME l[1] \in {"notes", "skills", "agents", "projects"}
                PROVE  FALSE
    OBVIOUS
  <2>1. s.body \in Bodies
    BY DEF Row
  <2>2. \/ Len(ExportPath(l, s)) = 2
        \/ ExportPath(l, s)[1] \in {Dir(".skills"), Dir(".agents")}
    BY ONLY PlainProjects, <2>1, l[1] \in {"notes", "skills", "agents", "projects"},
            l[1] = "projects" => PlainProject(l[2]), OtherPaths
  <2>. QED
    BY <1>2, <1>4, <2>2
<1>6. l[1] \in FolderTables \ {"notes"}
  BY <1>3, <1>5 DEF FolderTables, ChildTables, OwnedTables, DocTables
<1>7. ExportPath(l, s) = Parts(s.owner) \o <<Dir(FolderOf(l[1])), File(l[2])>>
  <2>1. ExportPath(l, s) = PathOf(l, s)
    BY <1>5, Zenon DEF ExportPath
  <2>. QED
    BY <1>6, <2>1, PathBranches
<1>8. Parts(s.owner) \in Seq(Part)
  BY PathsAssumption DEF Row
<1>9. Dir(FolderOf(l[1])) = Dir(k[1]) /\ File(l[2]) = File(k[2])
  <2>1. Parts(s.owner) \o <<Dir(FolderOf(l[1])), File(l[2])>>
          = <<Dir(r.owner), Dir(k[1]), File(k[2])>>
    BY <1>1, <1>7
  <2>. QED
    BY ONLY <1>8, <2>1, LastParts
<1>10. FolderOf(l[1]) = k[1] /\ l[2] = k[2]
  BY <1>9 DEF Dir, File
<1>11. FolderOf(k[1]) = k[1] /\ k[1] \in FolderTables
  BY ChildFolders DEF ChildKey
<1>12. l[1] = k[1]
  BY <1>6, <1>10, <1>11, FolderNamesTable
<1>13. k = <<k[1], k[2], k[3]>> /\ l = <<l[1], l[2], l[3]>>
  BY DEF ChildKey, Key
<1>. QED
  BY <1>10, <1>12, <1>13 DEF ChildKey

Restored(r) == [ver |-> 0, owner |-> r.owner, body |-> Kept(r.body)]

\* The exported file of a child is one the import takes for that child.
LEMMA ChildFile ==
    ASSUME NEW k, ChildKey(k), NEW r, PlainProject(r.owner), r.body \notin Awkward,
           NEW p, p = ExportPath(k, r), NEW f, f = ExportFile(k, r)
    PROVE  f.good /\ ImportKey(p, f) = k /\ ImportRow(p, f) = Restored(r)
<1>1. k[1] \in ChildTables /\ k = <<k[1], k[2], 0>>
  BY DEF ChildKey, Key
<1>2. p = <<Dir(r.owner), Dir(FolderOf(k[1])), File(k[2])>>
  BY <1>1, ChildPath, ChildFolders, PlainNotEmpty
<1>3. routePath(p) = Routed(k[1], r.owner, k[2], 0)
  BY <1>1, <1>2, ChildFolders, FolderRoutes, PlainNotEmpty
<1>4. /\ routePath(p).table = k[1] /\ routePath(p).id = k[2]
      /\ routePath(p).proj = r.owner
  BY <1>3 DEF Routed
<1>5. /\ f.good /\ f.owner = NoName /\ f.ver = 0 /\ f.body = Kept(r.body)
  BY DEF ExportFile
<1>6. k[1] \notin {"packs", "stacks", "kv_store", "wip_config"} \union SessionTables
  BY <1>1 DEF ChildTables, SessionTables
<1>7. ~IsRaw(routePath(p))
  BY <1>4, <1>6 DEF IsRaw
<1>8. ImportKey(p, f) = k
  BY <1>1, <1>4, <1>6, <1>7 DEF ImportKey, SessionTables
<1>9. ImportOwner(routePath(p), f) = r.owner
  BY <1>1, <1>4, <1>5 DEF ImportOwner
<1>10. ImportRow(p, f) = Restored(r)
  BY <1>4, <1>5, <1>6, <1>7, <1>9 DEF ImportRow, Restored
<1>. QED
  BY <1>5, <1>8, <1>10

-----------------------------------------------------------------------------
(* Plain keys.                                                             *)

\* No project is called what no path can name, and only turns have numbers.
PlainKeys(d) ==
    \A k \in DOMAIN d :
        /\ k[1] = "projects" => PlainProject(k[2])
        /\ k[1] \in ChildTables => k[3] = 0

PlainKey(k) == PlainKeys([x \in {k} |-> 0])

\* A file that names a plain project, or none.
PlainOwner(f) == f.owner = NoName \/ PlainProject(f.owner)

LEMMA PlainUnion ==
    ASSUME NEW d, PlainKeys(d), NEW k, PlainKey(k), NEW e,
           DOMAIN e \subseteq DOMAIN d \union {k}
    PROVE  PlainKeys(e)
BY DEF PlainKeys, PlainKey

LEMMA PlainProjectKey ==
    ASSUME NEW slug, PlainProject(slug)
    PROVE  PlainKey(<<"projects", slug, 0>>)
BY DEF PlainKey, PlainKeys, ChildTables

LEMMA PlainKeyOf ==
    ASSUME NEW q \in Request, q.table = "projects" => PlainProject(q.id)
    PROVE  PlainKey(KeyOf(q))
<1>1. CASE q.table = "session_turns"
  <2>1. KeyOf(q)[1] = "session_turns"
    BY <1>1 DEF KeyOf
  <2>. QED
    BY <2>1 DEF PlainKey, PlainKeys, ChildTables
<1>2. CASE q.table = "packs"
  <2>1. KeyOf(q)[1] \in {"packs", "kv_store"}
    BY <1>2 DEF KeyOf
  <2>. QED
    BY <2>1 DEF PlainKey, PlainKeys, ChildTables
<1>3. CASE q.table \notin {"session_turns", "packs"}
  <2>1. KeyOf(q) = <<q.table, q.id, 0>>
    BY <1>3 DEF KeyOf
  <2>. QED
    BY <2>1 DEF PlainKey, PlainKeys
<1>. QED
  BY <1>1, <1>2, <1>3

LEMMA AfterKeepsPlain ==
    ASSUME PlainProjects, NEW d, IsDatabase(d), PlainKeys(d), NEW q \in Requests
    PROVE  PlainKeys(After(d, q))
<1>. DEFINE e == Upsert(d, q, NewVersion(d, q))
<1>1. q \in Request /\ q.op \in {"write", "delete"}
  BY ImportAssumption DEF Request
<1>2. CASE q.op = "delete"
  <2>1. After(d, q) = DeleteRows(d, DeleteTargets(d, q))
    BY <1>2 DEF After
  <2>2. DOMAIN DeleteRows(d, DeleteTargets(d, q)) \subseteq DOMAIN d
    BY DEF DeleteRows, Restrict
  <2>. QED
    BY <2>1, <2>2 DEF PlainKeys
<1>3. CASE q.op = "write"
  <2>1. /\ q.table = "projects" => PlainProject(q.id)
        /\ EnsuresProject(q) => PlainProject(q.proj)
        /\ q.proj \in Names
    BY <1>1, <1>3 DEF PlainProjects, Request
  <2>2. NewVersion(d, q) \in Int
    BY <1>1, VersionType
  <2>3. IsDatabase(e) /\ DOMAIN e = DOMAIN d \union {KeyOf(q)}
    BY <1>1, <2>2, UpsertType, UpsertEffect
  <2>4. PlainKey(KeyOf(q))
    BY <1>1, <2>1, PlainKeyOf
  <2>5. After(d, q) = IF EnsuresProject(q) THEN InsertProject(e, q.proj) ELSE e
    BY <1>3 DEF After
  <2>. HIDE DEF e
  <2>6. PlainKeys(e)
    BY <2>3, <2>4, PlainUnion
  <2>7. ASSUME EnsuresProject(q) PROVE PlainKeys(InsertProject(e, q.proj))
    <3>1. DOMAIN InsertProject(e, q.proj) = DOMAIN e \union {<<"projects", q.proj, 0>>}
      BY <2>1, <2>3, InsertProjectEffect
    <3>2. PlainKey(<<"projects", q.proj, 0>>)
      BY <2>1, <2>7, PlainProjectKey
    <3>. QED
      BY <2>6, <3>1, <3>2, PlainUnion
  <2>. QED
    BY <2>5, <2>6, <2>7
<1>. QED
  BY <1>1, <1>2, <1>3

\* A file that is imported, with the INSERT of its project or without.
LEMMA FileKeepsPlain ==
    ASSUME PlainProjects, NEW d, IsDatabase(d), PlainKeys(d),
           NEW n \in 1 .. Len(WalkOrder), NEW w, w = WalkOrder[n],
           NEW f \in Markdown, PlainOwner(f)
    PROVE  /\ PlainKeys(ImportFile(d, w, f))
           /\ PlainKeys(InsertOrIgnore(d, ImportKey(w, f), ImportRow(w, f)))
<1>. DEFINE r == routePath(w)
            o == ImportOwner(r, f)
            key == ImportKey(w, f)
            row == ImportRow(w, f)
            g == WithProject(d, w, f)
<1>1. IsWalked(w)
  BY DEF IsWalked
<1>2. /\ r.table = "projects" => PlainProject(r.id)
      /\ r.table \in ChildTables => PlainProject(r.proj)
  BY DEF PlainProjects
<1>3. ImportFile(d, w, f) = d \/ ImportFile(d, w, f) = InsertOrIgnore(g, key, row)
  BY DEF ImportFile
<1>4. PlainKeys(g)
  <2>1. CASE r.table \in ChildTables /\ o # NoName
    <3>1. PlainProject(o)
      BY <1>2, <2>1 DEF ImportOwner, PlainOwner
    <3>2. g = InsertProject(d, o)
      BY <2>1 DEF WithProject, NeedsProject
    <3>3. o \in Names
      BY <1>1, ImportOwnerType
    <3>. HIDE DEF g, o
    <3>4. DOMAIN g = DOMAIN d \union {<<"projects", o, 0>>}
      BY <3>2, <3>3, InsertProjectEffect
    <3>. QED
      BY <3>1, <3>4, PlainProjectKey, PlainUnion
  <2>2. CASE ~(r.table \in ChildTables /\ o # NoName)
    BY <2>2 DEF WithProject, NeedsProject
  <2>. QED
    BY <2>1, <2>2
<1>5. PlainKey(key)
  <2>1. \/ key = <<"kv_store", Raw(w), 0>>
        \/ key[1] = "session_turns"
        \/ key = <<r.table, r.id, 0>>
    BY DEF ImportKey
  <2>. HIDE DEF key, r
  <2>. QED
    BY <1>2, <2>1 DEF PlainKey, PlainKeys, ChildTables
<1>. HIDE DEF g, key, row
<1>6. \A e : DOMAIN InsertOrIgnore(e, key, row) \subseteq DOMAIN e \union {key}
  BY DEF InsertOrIgnore, Put
<1>7. PlainKeys(InsertOrIgnore(g, key, row)) /\ PlainKeys(InsertOrIgnore(d, key, row))
  BY <1>4, <1>5, <1>6, PlainUnion
<1>. QED
  BY <1>3, <1>7 DEF key, row

LEMMA WalkStepKeepsPlain ==
    ASSUME PlainProjects, NEW d, IsDatabase(d), PlainKeys(d),
           NEW tree, tree \in [DOMAIN tree -> Markdown],
           \A path \in DOMAIN tree : PlainOwner(tree[path]),
           NEW n \in 1 .. Len(WalkOrder)
    PROVE  PlainKeys(WalkStep(d, tree, n))
<1>1. CASE WalkOrder[n] \notin DOMAIN tree
  BY <1>1 DEF WalkStep
<1>2. CASE WalkOrder[n] \in DOMAIN tree
  <2>1. WalkStep(d, tree, n) = ImportFile(d, WalkOrder[n], tree[WalkOrder[n]])
    BY <1>2 DEF WalkStep
  <2>. QED
    BY <1>2, <2>1, FileKeepsPlain
<1>. QED
  BY <1>1, <1>2

-----------------------------------------------------------------------------
(* The inductive invariant.                                                *)

Plain ==
    /\ PlainKeys(db)
    /\ PlainKeys(tx)
    /\ \A path \in DOMAIN files : PlainOwner(files[path])
    /\ \A p \in Processes : PlainOwner(text[p])

\* An export begins at the first table.
Resting ==
    \A p \in Processes : pc[p] \in {"down", "guard", "serving"} => at[p] = 1

\* The rows of an open SELECT are of one table, and as they are in the database
\* while nothing has overtaken the export; one file at a time is open.
Current ==
    \A p \in Processes :
        /\ \A k \in DOMAIN rows[p] :
             /\ at[p] <= Len(ExportTables) /\ k[1] = ExportTables[at[p]]
             /\ p \in fresh => k \in DOMAIN db /\ rows[p][k] = db[k]
        /\ \A k, l \in cut[p] : k = l

\* The file of a row says what the row says, or is about to.
InFile(k) ==
    LET path == ExportPath(k, db[k]) IN
    /\ path \in DOMAIN files
    /\ \/ files[path] = ExportFile(k, db[k])
       \/ files[path] = Cut /\ \E q \in fresh : k \in cut[q]

\* The children an export has come past.
Passed(p, k, i) ==
    /\ k[1] \in ChildTables /\ k[1] = ExportTables[i]
    /\ \/ i < at[p]
       \/ i = at[p] /\ pc[p] = "rows" /\ k \notin DOMAIN rows[p]

\* They are in their files, while nothing has overtaken it.
Copied ==
    \A p \in fresh : \A k \in DOMAIN db : \A i \in 1 .. Len(ExportTables) :
        Passed(p, k, i) => InFile(k)

\* What the labels and the tables are.
Shape ==
    /\ pc \in [Processes -> {"down", "guard", "begin", "wait", "late", "walk",
                             "serving", "export", "rows"}]
    /\ at \in [Processes -> Nat \ {0}]
    /\ DOMAIN rows = Processes /\ cut \in [Processes -> SUBSET Key]

LEMMA TypedShape == TypeOK => Shape
BY DEF TypeOK, Shape

LEMMA NextResting == TypeOK /\ Resting /\ [Next]_vars => Resting'
<1>. SUFFICES ASSUME TypeOK, Resting, [Next]_vars PROVE Resting'
  OBVIOUS
<1>. USE DEF Goto
<1>0. Shape
  BY TypedShape
<1>1. ASSUME NEW p \in Processes, Start(p) \/ Guard(p) \/ Export(p) PROVE Resting'
  BY <1>0, <1>1 DEF Start, Guard, Export, Resting, Shape
<1>2. ASSUME NEW p \in Processes, Read(p) \/ TimeOut(p) PROVE Resting'
  BY <1>0, <1>2 DEF Read, TimeOut, Resting, Shape
<1>3. ASSUME NEW p \in Processes, Begin(p) \/ BeginLate(p) PROVE Resting'
  BY <1>0, <1>3 DEF Begin, BeginLate, Lock, Resting, Shape
<1>4. ASSUME NEW p \in Processes, GiveUp(p) \/ Commit(p) \/ EndExport(p) PROVE Resting'
  BY <1>0, <1>4 DEF GiveUp, Commit, EndExport, Release, Resting, Shape
<1>5. ASSUME NEW p \in Processes, Walk(p) PROVE Resting'
  BY <1>0, <1>5 DEF Walk, Resting, Shape
<1>6. ASSUME NEW p \in Processes, Handle(p) \/ Open(p) PROVE Resting'
  BY <1>6 DEF Handle, Open, Resting
<1>7. ASSUME NEW p \in Processes, NEW left, Continue(p, left) PROVE Resting'
  BY <1>0, <1>7 DEF Continue, Resting, Shape
<1>8. ASSUME NEW p \in Processes, Select(p) \/ Fill(p) \/ FailWrite(p) PROVE Resting'
  BY <1>7, <1>8 DEF Select, Fill, FailWrite, Written
<1>9. ASSUME NEW p \in Processes, Stop(p) PROVE Resting'
  BY <1>0, <1>9 DEF Stop, Release, Resting, Shape
<1>10. CASE UNCHANGED vars
  BY <1>10 DEF vars, Resting
<1>. QED
  BY <1>1, <1>2, <1>3, <1>4, <1>5, <1>6, <1>8, <1>9, <1>10
     DEF Next, Import, ExportStep

\* What exports write names no project.
LEMMA WritesArePlain ==
    ASSUME NEW p, NEW k, NEW f \in {Cut, FileOf(p, k)} \union Torn(FileOf(p, k))
    PROVE  PlainOwner(f)
BY DEF PlainOwner, Cut, Torn, FileOf, ExportFile

LEMMA PlainWrite ==
    ASSUME Plain, NEW p, NEW k, NEW f, PlainOwner(f), WriteTo(p, k, f),
           UNCHANGED <<db, tx, text>>
    PROVE  Plain'
BY DEF Plain, WriteTo, Put

LEMMA NextPlain == PlainProjects /\ TypeOK /\ Plain /\ [Next]_vars => Plain'
<1>. SUFFICES ASSUME PlainProjects, TypeOK, Plain, [Next]_vars PROVE Plain'
  OBVIOUS
<1>. USE DEF importVars
<1>0. PlainKeys(Empty) /\ PlainOwner(Cut)
  BY EmptyType DEF PlainKeys, PlainOwner, Cut
<1>1. CASE UNCHANGED <<db, tx, files, text>>
  BY <1>1 DEF Plain
<1>2. ASSUME NEW p \in Processes, Begin(p) \/ BeginLate(p) PROVE Plain'
  <2>. DEFINE w == WalkOrder[at[p]]
  <2>1. at[p] \in 1 .. Len(WalkOrder)
    BY <1>2, ImportAssumption DEF Begin, BeginLate, TypeOK
  <2>2. text[p] \in Markdown /\ PlainOwner(text[p]) /\ IsDatabase(db) /\ PlainKeys(db)
    BY DEF TypeOK, Plain
  <2>3. /\ PlainKeys(ImportFile(db, w, text[p]))
        /\ PlainKeys(InsertOrIgnore(db, ImportKey(w, text[p]), ImportRow(w, text[p])))
    BY <2>1, <2>2, FileKeepsPlain
  <2>4. PlainKeys(tx') /\ db' = db /\ files' = files /\ text' = [text EXCEPT ![p] = Cut]
    BY <1>2, <2>3 DEF Begin, BeginLate, Lock
  <2>. QED
    BY <1>0, <2>4 DEF Plain, TypeOK
<1>3. ASSUME NEW p \in Processes, Walk(p) PROVE Plain'
  <2>1. at[p] \in 1 .. Len(WalkOrder)
    BY <1>3, ImportAssumption DEF Walk, TypeOK
  <2>2. PlainKeys(tx')
    BY <1>3, <2>1, WalkStepKeepsPlain DEF Walk, TypeOK, Plain
  <2>. QED
    BY <1>3, <2>2 DEF Walk, Plain
<1>4. ASSUME NEW p \in Processes, Commit(p) PROVE Plain'
  BY <1>0, <1>4 DEF Commit, Release, Plain
<1>5. ASSUME NEW p \in Processes, Handle(p) PROVE Plain'
  <2>1. PlainKeys(db')
    BY <1>5, AfterKeepsPlain DEF Handle, TypeOK, Plain
  <2>. QED
    BY <1>5, <2>1 DEF Handle, Plain
<1>6. ASSUME NEW p \in Processes, Stop(p) PROVE Plain'
  <2>1. /\ PlainKeys(tx') /\ db' = db /\ files' = files
        /\ text' = [text EXCEPT ![p] = Cut]
    BY <1>0, <1>6 DEF Stop, Release, Plain
  <2>. QED
    BY <1>0, <2>1 DEF Plain, TypeOK
<1>7. ASSUME NEW p \in Processes, Read(p) PROVE Plain'
  <2>1. CASE text' = text
    BY <1>7, <2>1 DEF Read, Plain
  <2>2. CASE /\ WalkOrder[at[p]] \in DOMAIN files
             /\ text' = [text EXCEPT ![p] = files[WalkOrder[at[p]]]]
    BY <1>7, <2>2 DEF Read, Plain, TypeOK
  <2>. QED
    BY <1>7, <2>1, <2>2 DEF Read
<1>8. ASSUME NEW p \in Processes, TimeOut(p) PROVE Plain'
  <2>1. text' = text \/ text' = [text EXCEPT ![p] = Cut]
    BY <1>8 DEF TimeOut
  <2>. QED
    BY <1>0, <1>8, <2>1 DEF TimeOut, Plain, TypeOK
<1>9. ASSUME NEW p \in Processes, Open(p) \/ Fill(p) \/ FailWrite(p) PROVE Plain'
  <2>1. \/ files' = files
        \/ \E k : \E f \in {Cut, FileOf(p, k)} \union Torn(FileOf(p, k)) : WriteTo(p, k, f)
    BY <1>9 DEF Open, Fill, FailWrite
  <2>2. UNCHANGED <<db, tx, text>>
    BY <1>9 DEF Open, Fill, FailWrite, Written
  <2>. QED
    BY <1>1, <2>1, <2>2, WritesArePlain, PlainWrite
<1>10. ASSUME NEW p \in Processes,
              \/ Start(p) \/ Guard(p) \/ GiveUp(p) \/ Export(p) \/ Select(p) \/ EndExport(p)
       PROVE  Plain'
  BY <1>1, <1>10 DEF Start, Guard, GiveUp, Export, Select, EndExport
<1>. QED
  BY <1>1, <1>2, <1>3, <1>4, <1>5, <1>6, <1>7, <1>8, <1>9, <1>10
     DEF Next, Import, ExportStep, vars

\* Foreign keys keep the children of plain projects plain.
LEMMA ChildRows ==
    ASSUME TypeOK, Plain, Snapshot, NEW k \in DOMAIN db, k[1] \in ChildTables
    PROVE  ChildKey(k) /\ db[k] \in Row /\ PlainProject(db[k].owner)
<1>1. k \in Key /\ db[k] \in Row
  BY DEF TypeOK, IsDatabase
<1>2. k[3] = 0
  BY DEF Plain, PlainKeys
<1>. DEFINE o == db[k].owner
<1>3. <<"projects", o, 0>> \in DOMAIN db
  BY DEF Snapshot, ForeignKeys, References
<1>. HIDE DEF o
<1>4. <<"projects", o, 0>>[1] = "projects" /\ <<"projects", o, 0>>[2] = o
  OBVIOUS
<1>5. PlainProject(o)
  BY <1>3, <1>4 DEF Plain, PlainKeys
<1>. QED
  BY <1>1, <1>2, <1>5 DEF ChildKey, o

-----------------------------------------------------------------------------
(* Exports, one row after another.                                         *)

\* Continue, seen from every process.
LEMMA ContinueFacts ==
    ASSUME Shape, NEW p \in Processes, NEW left, Continue(p, left)
    PROVE  /\ rows'[p] = left
           /\ pc'[p] = IF DOMAIN left = {} THEN "export" ELSE "rows"
           /\ at'[p] = IF DOMAIN left = {} THEN at[p] + 1 ELSE at[p]
           /\ \A q \in Processes \ {p} :
                rows'[q] = rows[q] /\ pc'[q] = pc[q] /\ at'[q] = at[q]
<1>1. CASE DOMAIN left = {}
  <2>1. /\ rows' = [rows EXCEPT ![p] = left] /\ pc' = [pc EXCEPT ![p] = "export"]
        /\ at' = [at EXCEPT ![p] = @ + 1]
    BY <1>1 DEF Continue, Goto
  <2>. QED
    BY <1>1, <2>1 DEF Shape
<1>2. CASE DOMAIN left # {}
  <2>1. /\ rows' = [rows EXCEPT ![p] = left] /\ pc' = [pc EXCEPT ![p] = "rows"]
        /\ at' = at
    BY <1>2 DEF Continue, Goto
  <2>. QED
    BY <1>2, <2>1 DEF Shape
<1>. QED
  BY <1>1, <1>2

\* Exports that something has overtaken promise nothing.
LEMMA NoneFresh ==
    ASSUME fresh' = {}
    PROVE  Copied'
BY DEF Copied

LEMMA SameCurrent ==
    ASSUME Current, UNCHANGED <<rows, cut>>,
           \A q \in Processes : DOMAIN rows[q] # {} => at'[q] = at[q],
           fresh' = {} \/ (db' = db /\ \A q \in fresh' : DOMAIN rows[q] # {} => q \in fresh)
    PROVE  Current'
BY DEF Current

\* A step of a process that leaves no promise behind.
LEMMA SameCopied ==
    ASSUME Copied, db' = db, files' = files, fresh' \subseteq fresh,
           \A q \in fresh' : /\ at'[q] = at[q] /\ pc'[q] = pc[q]
                             /\ rows'[q] = rows[q] /\ cut'[q] = cut[q],
           \A q \in fresh \ fresh' : cut[q] = {}
    PROVE  Copied'
<1>. SUFFICES ASSUME NEW q \in fresh', NEW k \in DOMAIN db,
                     NEW i \in 1 .. Len(ExportTables), Passed(q, k, i)'
              PROVE  InFile(k)'
  BY DEF Copied
<1>1. Passed(q, k, i) /\ q \in fresh
  BY DEF Passed
<1>2. InFile(k)
  BY <1>1 DEF Copied
<1>3. \A u \in fresh : k \in cut[u] => u \in fresh' /\ k \in cut'[u]
  OBVIOUS
<1>. QED
  BY <1>2, <1>3 DEF InFile

\* The row whose write is over leaves the SELECT.
LEMMA WrittenFacts ==
    ASSUME TypeOK, NEW p \in Processes, NEW k, Written(p, k)
    PROVE  /\ rows'[p] = Restrict(rows[p], DOMAIN rows[p] \ {k})
           /\ DOMAIN rows'[p] = DOMAIN rows[p] \ {k}
           /\ \A l \in DOMAIN rows'[p] : rows'[p][l] = rows[p][l]
           /\ pc'[p] = IF DOMAIN rows'[p] = {} THEN "export" ELSE "rows"
           /\ at'[p] = IF DOMAIN rows'[p] = {} THEN at[p] + 1 ELSE at[p]
           /\ \A q \in Processes \ {p} :
                /\ rows'[q] = rows[q] /\ pc'[q] = pc[q] /\ at'[q] = at[q]
                /\ cut'[q] = cut[q]
           /\ cut'[p] = {}
           /\ db' = db
<1>. DEFINE left == Restrict(rows[p], DOMAIN rows[p] \ {k})
<1>1. Continue(p, left) /\ cut' = [cut EXCEPT ![p] = {}] /\ db' = db
  BY DEF Written
<1>0. IsDatabase(rows[p])
  BY DEF TypeOK
<1>2. /\ DOMAIN left = DOMAIN rows[p] \ {k}
      /\ \A l \in DOMAIN rows[p] \ {k} : left[l] = rows[p][l]
  BY ONLY <1>0, LeftType
<1>. HIDE DEF left
<1>3. /\ rows'[p] = left
      /\ pc'[p] = IF DOMAIN left = {} THEN "export" ELSE "rows"
      /\ at'[p] = IF DOMAIN left = {} THEN at[p] + 1 ELSE at[p]
      /\ \A q \in Processes \ {p} :
           rows'[q] = rows[q] /\ pc'[q] = pc[q] /\ at'[q] = at[q]
  BY <1>1, TypedShape, ContinueFacts
<1>4. cut'[p] = {} /\ \A q \in Processes \ {p} : cut'[q] = cut[q]
  BY <1>1, TypedShape DEF Shape
<1>. QED
  BY <1>1, <1>2, <1>3, <1>4 DEF left

LEMMA WrittenCurrent ==
    ASSUME TypeOK, Current, NEW p \in Processes, NEW k, Written(p, k),
           fresh' \subseteq fresh
    PROVE  Current'
<1>1. /\ DOMAIN rows'[p] \subseteq DOMAIN rows[p]
      /\ \A l \in DOMAIN rows'[p] : rows'[p][l] = rows[p][l]
      /\ DOMAIN rows'[p] # {} => at'[p] = at[p]
      /\ \A q \in Processes \ {p} :
           rows'[q] = rows[q] /\ at'[q] = at[q] /\ cut'[q] = cut[q]
      /\ cut'[p] = {} /\ db' = db
  BY WrittenFacts
<1>. SUFFICES ASSUME NEW q \in Processes
              PROVE  /\ \A l \in DOMAIN rows'[q] :
                          /\ at'[q] <= Len(ExportTables) /\ l[1] = ExportTables[at'[q]]
                          /\ q \in fresh' => l \in DOMAIN db' /\ rows'[q][l] = db'[l]
                     /\ \A l, m \in cut'[q] : l = m
  BY DEF Current
<1>2. CASE q = p
  BY <1>1, <1>2 DEF Current
<1>3. CASE q # p
  BY <1>1, <1>3 DEF Current
<1>. QED
  BY <1>2, <1>3

LEMMA NextCurrent == TypeOK /\ Current /\ [Next]_vars => Current'
<1>. SUFFICES ASSUME TypeOK, Current, [Next]_vars PROVE Current'
  OBVIOUS
<1>. USE DEF Goto, importVars, exportVars
<1>0. Shape /\ fresh \subseteq Processes
  BY TypedShape DEF TypeOK
<1>1. \A q \in Processes : pc[q] # "rows" => DOMAIN rows[q] = {} /\ cut[q] = {}
  BY DEF TypeOK
<1>2. ASSUME NEW p \in Processes, pc[p] # "rows", UNCHANGED <<rows, cut>>,
             \A q \in Processes \ {p} : at'[q] = at[q],
             fresh' = {} \/ (db' = db /\ fresh' \subseteq fresh \union {p})
      PROVE  Current'
  BY <1>1, <1>2, SameCurrent
<1>3. ASSUME NEW p \in Processes, Start(p) \/ Guard(p) \/ Handle(p) \/ Export(p)
      PROVE  Current'
  BY <1>2, <1>3 DEF Start, Guard, Handle, Export
<1>4. ASSUME NEW p \in Processes, Read(p) \/ TimeOut(p) \/ Walk(p) PROVE Current'
  BY <1>0, <1>2, <1>4 DEF Read, TimeOut, Walk, Shape
<1>5. ASSUME NEW p \in Processes, Begin(p) \/ BeginLate(p) PROVE Current'
  BY <1>0, <1>2, <1>5 DEF Begin, BeginLate, Lock, Shape
<1>6. ASSUME NEW p \in Processes, GiveUp(p) \/ Commit(p) \/ EndExport(p) PROVE Current'
  BY <1>0, <1>2, <1>6 DEF GiveUp, Commit, EndExport, Release, Shape
<1>7. ASSUME NEW p \in Processes, Select(p) PROVE Current'
  <2>1. PICK left :
          /\ Continue(p, left)
          /\ \/ left = Exported(db, ExportTables[at[p]])
             \/ left = Empty
    BY <1>7 DEF Select
  <2>2. \A k \in DOMAIN left :
          k \in DOMAIN db /\ k[1] = ExportTables[at[p]] /\ left[k] = db[k]
    BY <2>1, ExportedType, EmptyType DEF TypeOK
  <2>3. /\ rows'[p] = left
        /\ DOMAIN left # {} => at'[p] = at[p]
        /\ \A q \in Processes \ {p} : rows'[q] = rows[q] /\ at'[q] = at[q]
    BY <1>0, <2>1, ContinueFacts
  <2>4. /\ db' = db /\ cut' = cut /\ fresh' \subseteq fresh
        /\ at[p] <= Len(ExportTables)
    BY <1>7 DEF Select
  <2>. SUFFICES ASSUME NEW q \in Processes
                PROVE  /\ \A l \in DOMAIN rows'[q] :
                            /\ at'[q] <= Len(ExportTables) /\ l[1] = ExportTables[at'[q]]
                            /\ q \in fresh' => l \in DOMAIN db' /\ rows'[q][l] = db'[l]
                       /\ \A l, m \in cut'[q] : l = m
    BY DEF Current
  <2>5. \A l, m \in cut'[q] : l = m
    BY <2>4 DEF Current
  <2>6. CASE q = p
    <3>. SUFFICES ASSUME NEW l \in DOMAIN rows'[q]
                  PROVE  /\ at'[q] <= Len(ExportTables) /\ l[1] = ExportTables[at'[q]]
                         /\ q \in fresh' => l \in DOMAIN db' /\ rows'[q][l] = db'[l]
      BY <2>5
    <3>1. l \in DOMAIN left /\ at'[q] = at[p] /\ rows'[q][l] = left[l]
      BY <2>3, <2>6
    <3>. QED
      BY <2>2, <2>4, <3>1
  <2>7. CASE q # p
    BY <2>3, <2>4, <2>7 DEF Current
  <2>. QED
    BY <2>6, <2>7
<1>8. ASSUME NEW p \in Processes, Open(p) PROVE Current'
  <2>1. PICK k : cut' = [cut EXCEPT ![p] = {k}]
    BY <1>8 DEF Open
  <2>2. db' = db /\ rows' = rows /\ at' = at /\ fresh' \subseteq fresh
    BY <1>8 DEF Open, Keep
  <2>. QED
    BY <1>0, <2>1, <2>2 DEF Current, Shape
<1>9. ASSUME NEW p \in Processes, Fill(p) \/ FailWrite(p) PROVE Current'
  <2>1. fresh' \subseteq fresh /\ \E k : Written(p, k)
    BY <1>9 DEF Fill, FailWrite, Keep
  <2>. QED
    BY <2>1, WrittenCurrent
<1>10. ASSUME NEW p \in Processes, Stop(p) PROVE Current'
  <2>1. /\ db' = db /\ rows' = [rows EXCEPT ![p] = Empty] /\ cut' = [cut EXCEPT ![p] = {}]
        /\ at' = [at EXCEPT ![p] = 1] /\ fresh' \subseteq fresh
    BY <1>10 DEF Stop, Release
  <2>. QED
    BY <1>0, <2>1, EmptyType DEF Current, Shape
<1>11. CASE UNCHANGED vars
  BY <1>11 DEF vars, Current
<1>. QED
  BY <1>3, <1>4, <1>5, <1>6, <1>7, <1>8, <1>9, <1>10, <1>11
     DEF Next, Import, ExportStep

\* The row a fresh export has open is the one of the database, and no child but
\* that row lies at its path.
LEMMA OwnRow ==
    ASSUME PlainProjects, TypeOK, Plain, Snapshot, Current,
           NEW p \in fresh, NEW k \in DOMAIN rows[p],
           NEW l \in DOMAIN db, l[1] \in ChildTables, l # k
    PROVE  /\ rows[p][k] = db[k] /\ k \in DOMAIN db
           /\ ExportPath(l, db[l]) # ExportPath(k, db[k])
<1>1. p \in Processes /\ k \in DOMAIN db /\ rows[p][k] = db[k]
  BY DEF TypeOK, Current
<1>2. /\ at[p] \in 1 .. Len(ExportTables) /\ k[1] = ExportTables[at[p]]
  BY <1>1 DEF TypeOK, Current, ExportTables
<1>3. k \in Key /\ db[k] \in Row
  BY <1>1 DEF TypeOK, IsDatabase
<1>4. /\ k[1] \in ChildTables => k[3] = 0
      /\ k[1] = "projects" => PlainProject(k[2])
  BY <1>1 DEF Plain, PlainKeys
<1>5. ChildKey(l) /\ PlainProject(db[l].owner)
  BY ChildRows
<1>. QED
  BY <1>1, <1>2, <1>3, <1>4, <1>5, OwnPath

LEMMA OpenCopies ==
    ASSUME PlainProjects, TypeOK, Plain, Snapshot, Current, Copied,
           NEW p \in fresh, Open(p)
    PROVE  Copied'
<1>1. PICK k \in DOMAIN rows[p] : WriteTo(p, k, Cut) /\ cut' = [cut EXCEPT ![p] = {k}]
  BY DEF Open
<1>2. /\ p \in Processes /\ cut[p] = {} /\ cut'[p] = {k}
      /\ \A q \in Processes \ {p} : cut'[q] = cut[q]
      /\ fresh' = fresh /\ fresh \subseteq Processes
      /\ db' = db /\ pc' = pc /\ at' = at /\ rows' = rows
  BY <1>1, TypedShape DEF TypeOK, Open, Keep, Shape
<1>. SUFFICES ASSUME NEW q \in fresh, NEW l \in DOMAIN db,
                     NEW i \in 1 .. Len(ExportTables), Passed(q, l, i)
              PROVE  InFile(l)'
  BY <1>2 DEF Copied, Passed
<1>3. InFile(l) /\ l[1] \in ChildTables
  BY DEF Copied, Passed
<1>. DEFINE path == ExportPath(k, rows[p][k])
            mine == ExportPath(l, db[l])
<1>4. /\ DOMAIN files' = DOMAIN files \union {path} /\ files'[path] = Cut
      /\ \A w \in DOMAIN files : w # path => files'[w] = files[w]
  BY <1>1 DEF WriteTo, Put
<1>5. CASE l = k
  <2>1. rows[p][k] = db[k]
    BY <1>2 DEF Current
  <2>. QED
    BY <1>2, <1>4, <1>5, <2>1 DEF InFile
<1>6. CASE l # k
  <2>1. mine # path
    BY <1>3, <1>6, OwnRow
  <2>2. /\ mine \in DOMAIN files
        /\ \/ files[mine] = ExportFile(l, db[l])
           \/ files[mine] = Cut /\ \E u \in fresh : l \in cut[u]
    BY <1>3 DEF InFile
  <2>3. \A u \in fresh : l \in cut[u] => l \in cut'[u]
    BY <1>2
  <2>. HIDE DEF path
  <2>4. /\ mine \in DOMAIN files'
        /\ \/ files'[mine] = ExportFile(l, db[l])
           \/ files'[mine] = Cut /\ \E u \in fresh : l \in cut'[u]
    BY <1>4, <2>1, <2>2, <2>3
  <2>. QED
    BY <1>2, <2>4 DEF InFile
<1>. QED
  BY <1>5, <1>6

LEMMA FillCopies ==
    ASSUME PlainProjects, TypeOK, Plain, Snapshot, Current, Copied,
           NEW p \in fresh, NEW k \in cut[p],
           WriteTo(p, k, FileOf(p, k)), fresh' = fresh, Written(p, k),
           pc[p] = "rows"
    PROVE  Copied'
<1>0. p \in Processes /\ fresh \subseteq Processes /\ k \in DOMAIN rows[p]
  BY DEF TypeOK
<1>1. /\ DOMAIN rows'[p] = DOMAIN rows[p] \ {k}
      /\ pc'[p] = IF DOMAIN rows'[p] = {} THEN "export" ELSE "rows"
      /\ at'[p] = IF DOMAIN rows'[p] = {} THEN at[p] + 1 ELSE at[p]
      /\ \A q \in Processes \ {p} :
           /\ rows'[q] = rows[q] /\ pc'[q] = pc[q] /\ at'[q] = at[q]
           /\ cut'[q] = cut[q]
      /\ cut'[p] = {} /\ db' = db
  BY <1>0, WrittenFacts
<1>2. \A l \in cut[p] : l = k
  BY <1>0 DEF Current
<1>3. rows[p][k] = db[k]
  BY <1>0 DEF Current
<1>. DEFINE path == ExportPath(k, db[k])
<1>4. /\ DOMAIN files' = DOMAIN files \union {path}
      /\ files'[path] = ExportFile(k, db[k])
      /\ \A w \in DOMAIN files : w # path => files'[w] = files[w]
  BY <1>3 DEF WriteTo, FileOf, Put
<1>. SUFFICES ASSUME NEW q \in fresh, NEW l \in DOMAIN db,
                     NEW i \in 1 .. Len(ExportTables), Passed(q, l, i)'
              PROVE  InFile(l)'
  BY <1>1 DEF Copied
<1>5. CASE l = k
  BY <1>1, <1>4, <1>5 DEF InFile
<1>6. CASE l # k
  <2>. DEFINE mine == ExportPath(l, db[l])
  <2>1. l[1] \in ChildTables
    BY DEF Passed
  <2>2. Passed(q, l, i)
    <3>1. CASE q # p
      BY <1>0, <1>1, <3>1 DEF Passed
    <3>2. CASE q = p
      <4>1. at[p] \in Nat
        BY <1>0 DEF TypeOK
      <4>2. CASE DOMAIN rows'[p] = {}
        <5>1. i <= at[p] /\ l \notin DOMAIN rows[p]
          BY <1>1, <1>6, <3>2, <4>1, <4>2 DEF Passed
        <5>. QED
          BY <3>2, <4>1, <5>1 DEF Passed
      <4>3. CASE DOMAIN rows'[p] # {}
        <5>1. i < at[p] \/ (i = at[p] /\ l \notin DOMAIN rows[p])
          BY <1>1, <1>6, <3>2, <4>3 DEF Passed
        <5>. QED
          BY <3>2, <5>1 DEF Passed
      <4>. QED
        BY <4>2, <4>3
    <3>. QED
      BY <3>1, <3>2
  <2>3. /\ mine \in DOMAIN files
        /\ \/ files[mine] = ExportFile(l, db[l])
           \/ files[mine] = Cut /\ \E u \in fresh : l \in cut[u]
    BY <2>2 DEF Copied, InFile
  <2>4. mine # path
    BY <1>0, <1>6, <2>1, OwnRow
  <2>5. \A u \in fresh : l \in cut[u] => l \in cut'[u]
    BY <1>0, <1>1, <1>2, <1>6
  <2>. HIDE DEF path
  <2>6. /\ mine \in DOMAIN files'
        /\ \/ files'[mine] = ExportFile(l, db[l])
           \/ files'[mine] = Cut /\ \E u \in fresh : l \in cut'[u]
    BY <1>4, <2>3, <2>4, <2>5
  <2>. QED
    BY <1>1, <2>6 DEF InFile
<1>. QED
  BY <1>5, <1>6

\* A SELECT reads every row of its table, or its export is none to rely on.
LEMMA SelectCopies ==
    ASSUME TypeOK, Copied, NEW p \in Processes, Select(p)
    PROVE  Copied'
<1>1. /\ db' = db /\ files' = files /\ cut' = cut /\ fresh' \subseteq fresh
      /\ fresh \ fresh' \subseteq {p} /\ pc[p] = "export" /\ cut[p] = {}
  BY DEF Select, TypeOK
<1>2. PICK left : Continue(p, left) /\ (p \in fresh' => left = Exported(db, ExportTables[at[p]]))
  BY DEF Select
<1>3. /\ rows'[p] = left
      /\ pc'[p] = IF DOMAIN left = {} THEN "export" ELSE "rows"
      /\ at'[p] = IF DOMAIN left = {} THEN at[p] + 1 ELSE at[p]
      /\ \A q \in Processes \ {p} :
           rows'[q] = rows[q] /\ pc'[q] = pc[q] /\ at'[q] = at[q]
  BY <1>2, TypedShape, ContinueFacts
<1>4. \A k : InFile(k) => InFile(k)'
  BY <1>1 DEF InFile
<1>. SUFFICES ASSUME NEW q \in fresh', NEW k \in DOMAIN db,
                     NEW i \in 1 .. Len(ExportTables), Passed(q, k, i)'
              PROVE  Passed(q, k, i)
  BY <1>1, <1>4 DEF Copied
<1>5. CASE q # p
  BY <1>1, <1>3, <1>5 DEF Passed, TypeOK
<1>6. CASE q = p
  <2>1. at[p] \in Nat
    BY DEF TypeOK
  <2>2. k[1] = ExportTables[at[p]] /\ k[1] \in ChildTables => k \in DOMAIN left
    BY <1>2, <1>6 DEF Exported, Restrict, ChildTables
  <2>3. i < at[p]
    <3>1. CASE DOMAIN left = {}
      BY <1>3, <1>6, <2>1, <2>2, <3>1 DEF Passed
    <3>2. CASE DOMAIN left # {}
      BY <1>3, <1>6, <2>1, <2>2, <3>2 DEF Passed
    <3>. QED
      BY <3>1, <3>2
  <2>. QED
    BY <1>6, <2>3 DEF Passed
<1>. QED
  BY <1>5, <1>6

LEMMA NextCopied ==
    ASSUME PlainProjects, TypeOK, Plain, Snapshot, Resting, Current, Copied, [Next]_vars
    PROVE  Copied'
<1>. USE DEF Goto, importVars, exportVars
<1>0. Shape /\ fresh \subseteq Processes
  BY TypedShape DEF TypeOK
<1>1. \A q \in fresh : pc[q] \in {"export", "rows"}
  BY DEF TypeOK
<1>2. ASSUME NEW p \in Processes, pc[p] \notin {"export", "rows"},
             db' = db, files' = files, fresh' = fresh, UNCHANGED <<rows, cut>>,
             \A q \in Processes \ {p} : at'[q] = at[q] /\ pc'[q] = pc[q]
      PROVE  Copied'
  BY <1>0, <1>1, <1>2, SameCopied
<1>3. ASSUME NEW p \in Processes, Start(p) \/ Guard(p) PROVE Copied'
  BY <1>0, <1>2, <1>3 DEF Start, Guard, Shape
<1>4. ASSUME NEW p \in Processes, Read(p) \/ TimeOut(p) \/ Walk(p) PROVE Copied'
  BY <1>0, <1>2, <1>4 DEF Read, TimeOut, Walk, Shape
<1>5. ASSUME NEW p \in Processes, Begin(p) \/ BeginLate(p) PROVE Copied'
  BY <1>0, <1>2, <1>5 DEF Begin, BeginLate, Lock, Shape
<1>6. ASSUME NEW p \in Processes, GiveUp(p) PROVE Copied'
  BY <1>0, <1>2, <1>6 DEF GiveUp, Shape
<1>7. ASSUME NEW p \in Processes, Commit(p) PROVE Copied'
  BY <1>0, <1>2, <1>7, NoneFresh DEF Commit, Release, Shape
<1>8. ASSUME NEW p \in Processes, Handle(p) PROVE Copied'
  BY <1>8, NoneFresh DEF Handle
<1>9. ASSUME NEW p \in Processes, Export(p) PROVE Copied'
  <2>1. /\ db' = db /\ files' = files /\ rows' = rows /\ cut' = cut /\ at' = at
        /\ at[p] = 1 /\ pc'[p] = "export" /\ fresh' = fresh \union {p}
        /\ \A q \in Processes \ {p} : pc'[q] = pc[q]
    BY <1>0, <1>9 DEF Export, Resting, Shape
  <2>. SUFFICES ASSUME NEW q \in fresh', NEW k \in DOMAIN db,
                       NEW i \in 1 .. Len(ExportTables), Passed(q, k, i)'
                PROVE  InFile(k)'
    BY <2>1 DEF Copied
  <2>2. q # p
    BY <2>1 DEF Passed
  <2>3. q \in fresh /\ Passed(q, k, i)
    BY <1>0, <2>1, <2>2 DEF Passed
  <2>4. InFile(k)
    BY <2>3 DEF Copied
  <2>. QED
    BY <2>1, <2>4 DEF InFile
<1>10. ASSUME NEW p \in Processes, Select(p) PROVE Copied'
  BY <1>10, SelectCopies
<1>11. ASSUME NEW p \in Processes, Open(p) PROVE Copied'
  <2>1. CASE p \in fresh
    BY <1>11, <2>1, OpenCopies
  <2>2. CASE p \notin fresh
    BY <1>11, <2>2, NoneFresh DEF Open, Keep
  <2>. QED
    BY <2>1, <2>2
<1>12. ASSUME NEW p \in Processes, Fill(p) PROVE Copied'
  <2>1. PICK k \in cut[p] :
          /\ (WriteTo(p, k, FileOf(p, k)) /\ fresh' = Keep(p)) \/ fresh' = {}
          /\ Written(p, k)
    BY <1>12 DEF Fill
  <2>2. CASE p \in fresh /\ WriteTo(p, k, FileOf(p, k)) /\ fresh' = fresh
    BY <1>12, <2>1, <2>2, FillCopies DEF Fill
  <2>. QED
    BY <2>1, <2>2, NoneFresh DEF Keep
<1>13. ASSUME NEW p \in Processes, FailWrite(p) PROVE Copied'
  <2>1. PICK k :
          /\ (cut[p] = {} /\ files' = files /\ fresh' = fresh \ {p}) \/ fresh' = {}
          /\ Written(p, k)
    BY <1>13 DEF FailWrite
  <2>2. CASE cut[p] = {} /\ files' = files /\ fresh' = fresh \ {p}
    <3>1. /\ db' = db
          /\ \A q \in Processes \ {p} :
               /\ rows'[q] = rows[q] /\ pc'[q] = pc[q] /\ at'[q] = at[q]
               /\ cut'[q] = cut[q]
      BY <2>1, WrittenFacts
    <3>. QED
      BY <1>0, <2>2, <3>1, SameCopied
  <2>. QED
    BY <2>1, <2>2, NoneFresh
<1>14. ASSUME NEW p \in Processes, EndExport(p) PROVE Copied'
  <2>1. cut[p] = {}
    BY <1>14 DEF EndExport, TypeOK
  <2>2. /\ db' = db /\ files' = files /\ rows' = rows /\ cut' = cut
        /\ fresh' = fresh \ {p}
        /\ \A q \in Processes \ {p} : pc'[q] = pc[q] /\ at'[q] = at[q]
    BY <1>0, <1>14 DEF EndExport, Shape
  <2>. QED
    BY <1>0, <2>1, <2>2, SameCopied
<1>15. ASSUME NEW p \in Processes, Stop(p) PROVE Copied'
  <2>1. CASE cut[p] # {}
    BY <1>15, <2>1, NoneFresh DEF Stop
  <2>2. CASE cut[p] = {}
    <3>1. /\ db' = db /\ files' = files /\ fresh' = fresh \ {p}
          /\ rows' = [rows EXCEPT ![p] = Empty] /\ cut' = [cut EXCEPT ![p] = {}]
          /\ at' = [at EXCEPT ![p] = 1] /\ pc' = [pc EXCEPT ![p] = "down"]
      BY <1>15, <2>2 DEF Stop, Release
    <3>2. \A q \in Processes \ {p} :
            /\ rows'[q] = rows[q] /\ pc'[q] = pc[q] /\ at'[q] = at[q]
            /\ cut'[q] = cut[q]
      BY <1>0, <3>1 DEF Shape
    <3>. QED
      BY <1>0, <2>2, <3>1, <3>2, SameCopied
  <2>. QED
    BY <2>1, <2>2
<1>16. CASE UNCHANGED vars
  BY <1>16, SameCopied DEF vars
<1>. QED
  BY <1>3, <1>4, <1>5, <1>6, <1>7, <1>8, <1>9, <1>10, <1>11, <1>12, <1>13, <1>14,
     <1>15, <1>16
     DEF Next, Import, ExportStep

-----------------------------------------------------------------------------

LEMMA CopiedRestores ==
    TypeOK /\ Plain /\ Snapshot /\ Copied /\ FilesWalked => ChildrenRoundTrip
<1>. SUFFICES ASSUME TypeOK, Plain, Snapshot, Copied, FilesWalked,
                     NEW p \in Processes, FreshExport(p),
                     NEW k \in DOMAIN db, k[1] \in ChildTables,
                     db[k].body \notin Awkward, OwnFile(k)
              PROVE  /\ k \in DOMAIN ImportAll(Empty, files)
                     /\ ImportAll(Empty, files)[k] = Restored(db[k])
  BY DEF ChildrenRoundTrip, Restored
<1>. DEFINE path == ExportPath(k, db[k])
            f == ExportFile(k, db[k])
<1>1. ChildKey(k) /\ PlainProject(db[k].owner)
  BY ChildRows
<1>2. PICK i \in 1 .. Len(ExportTables) : k[1] = ExportTables[i]
  <2>1. /\ 1 \in 1 .. Len(ExportTables) /\ ExportTables[1] = "features"
        /\ 2 \in 1 .. Len(ExportTables) /\ ExportTables[2] = "persons"
    BY DEF ExportTables
  <2>. QED
    BY <2>1 DEF ChildTables
<1>3. i < at[p] /\ p \in fresh /\ \A q \in Processes : cut[q] = {}
  <2>1. at[p] \in Nat /\ Len(ExportTables) \in Nat
    BY DEF TypeOK, ExportTables
  <2>. QED
    BY <2>1 DEF FreshExport
<1>4. path \in DOMAIN files /\ files[path] = f
  <2>1. InFile(k)
    BY <1>2, <1>3 DEF Copied, Passed
  <2>2. \A q \in fresh : cut[q] = {}
    BY <1>3 DEF TypeOK
  <2>. QED
    BY <2>1, <2>2 DEF InFile
<1>5. PICK j \in 1 .. Len(WalkOrder) : path = WalkOrder[j]
  BY <1>4 DEF FilesWalked
<1>6. f.good /\ ImportKey(path, f) = k /\ ImportRow(path, f) = Restored(db[k])
  BY <1>1, ChildFile
<1>7. \A w \in DOMAIN files :
        files[w].good /\ ImportKey(w, files[w]) = k => w = path
  BY DEF OwnFile
<1>8. IsDatabase(Empty) /\ k \notin DOMAIN Empty
  BY EmptyType
<1>9. files \in [DOMAIN files -> Markdown]
  BY DEF TypeOK
<1>. HIDE DEF path, f
<1>10. \A w \in DOMAIN files :
         files[w].good /\ ImportKey(w, files[w]) = k
           => ImportRow(w, files[w]) = Restored(db[k])
  BY <1>4, <1>6, <1>7
<1>. QED
  BY <1>4, <1>5, <1>6, <1>8, <1>9, <1>10, WalkRestores

\* Features and persons survive an export into an empty workspace
\* (markdown_export.go:86-241, migrate_data.go:44-114) with their project and what
\* the columns keep, whatever other processes import and export meanwhile, as long
\* as no commit, no failed write and no export of older rows overtakes it, in every
\* deployment whose projects have plain names and whose library slugs stay in
\* their folders.
THEOREM ChildrenSurvive ==
    PlainProjects => (Spec /\ []FilesWalked => []ChildrenRoundTrip)
<1>. SUFFICES ASSUME PlainProjects
              PROVE  Spec /\ []FilesWalked => []ChildrenRoundTrip
  OBVIOUS
<1>. DEFINE IInv == Plain /\ Resting /\ Current /\ Copied
<1>1. Init => IInv
  <2>1. PlainKeys(Empty) /\ PlainOwner(Cut) /\ DOMAIN Empty = {}
    BY EmptyType DEF PlainKeys, PlainOwner, Cut
  <2>2. Init => \A path \in DOMAIN files : PlainOwner(files[path])
    BY DEF Init, PlainProjects, PlainOwner
  <2>. QED
    BY <2>1, <2>2 DEF Init, Plain, Resting, Current, Copied
<1>2. TypeOK /\ Snapshot /\ IInv /\ [Next]_vars => IInv'
  BY NextPlain, NextResting, NextCurrent, NextCopied
<1>3. TypeOK /\ Snapshot /\ IInv /\ FilesWalked => ChildrenRoundTrip
  BY CopiedRestores
<1>. QED
  BY <1>1, <1>2, <1>3, TypeCorrect, SnapshotHolds, PTL DEF Spec

=============================================================================
