--------------------------- MODULE OtfProduct_proofs ---------------------------
(***************************************************************************)
(* Proofs about the on-the-fly build, for every problem, every number of     *)
(* transducers and every order in which a row interns its new keys.          *)
(***************************************************************************)
EXTENDS OtfProduct, SynthesisProblem_proofs

-----------------------------------------------------------------------------
(* The keys that agreeing words lead to.                                    *)

\* A key that an agreeing word leads to.
ReachedKeys(p) == {KeyOf(p, s[1], s[2]) : s \in Reachable(p)}

LEMMA ReachedKeysType ==
  ASSUME NEW p, WellFormed(p), NEW key \in ReachedKeys(p)
  PROVE  /\ key \in Keys(p)
         /\ key.q \in Vectors(p)
         /\ \E psi \in p.formulas : key.row = p.progress[psi] /\ <<psi, key.q>> \in Reachable(p)
<1>1. PICK s \in Reachable(p) : key = KeyOf(p, s[1], s[2])
  BY DEF ReachedKeys
<1>2. s \in p.formulas \X Vectors(p)
  BY DEF Reachable, Positions
<1>3. key.row = p.progress[s[1]] /\ key.q = s[2]
  BY <1>1 DEF KeyOf
<1>4. key \in Keys(p)
  BY <1>1, <1>2 DEF KeyOf, Keys
<1>5. s = <<s[1], s[2]>>
  BY <1>2
<1> QED  BY <1>2, <1>3, <1>4, <1>5

\* What one expansion can intern is finite and reached in its turn.
LEMMA SuccessorsReached ==
  ASSUME NEW p, WellFormed(p), NEW key \in ReachedKeys(p)
  PROVE  Successors(p, key) \subseteq ReachedKeys(p) /\ IsFiniteSet(Successors(p, key))
<1>1. PICK psi \in p.formulas : key.row = p.progress[psi] /\ <<psi, key.q>> \in Reachable(p)
  BY ReachedKeysType
<1> DEFINE L == {m \in Masked(p, key) : key.row[m].kind = "next"}
           succ == [l \in L |-> KeyOf(p, key.row[l].psi, Delta(p, key.q, l))]
<1>2. ASSUME NEW l \in L
      PROVE  KeyOf(p, key.row[l].psi, Delta(p, key.q, l)) \in ReachedKeys(p)
  <2>1. l \in Agreeing(p, <<psi, key.q>>[2])
    BY DEF Masked
  <2>2. p.progress[<<psi, key.q>>[1]][l].kind = "next"
    BY <1>1
  <2>3. <<p.progress[psi][l].psi, Delta(p, key.q, l)>> \in Reachable(p)
    BY <1>1, <2>1, <2>2, ReachableClosed
  <2> DEFINE r == <<p.progress[psi][l].psi, Delta(p, key.q, l)>>
  <2>4. KeyOf(p, key.row[l].psi, Delta(p, key.q, l)) = KeyOf(p, r[1], r[2])
    BY <1>1
  <2> QED  BY <2>3, <2>4 DEF ReachedKeys
<1>3. Successors(p, key) = {succ[l] : l \in L}
  BY DEF Successors
<1>4. IsFiniteSet(L)
  <2>1. L \subseteq Letter
    BY DEF Masked, Agreeing, Emitted
  <2> QED  BY <2>1, LettersFinite, FS_Subset
<1>5. succ \in Surjection(L, Successors(p, key))
  BY <1>3 DEF Surjection
<1>6. IsFiniteSet(Successors(p, key))
  BY <1>4, <1>5, FS_Surjection
<1> QED  BY <1>2, <1>6 DEF Successors

\* A relabelled row holds no leaf of the progression row, and every state it
\* names has an index.
LEMMA RowType ==
  ASSUME NEW p, WellFormed(p), NEW key \in ReachedKeys(p),
         NEW D, Successors(p, key) \subseteq D, NEW index \in [D -> Nat]
  PROVE  /\ RowOf(p, key, index) \in [Letter -> OutCells]
         /\ \A l \in Letter : RowOf(p, key, index)[l].kind = "state" =>
              \E k \in D : RowOf(p, key, index)[l].to = index[k]
<1>1. PICK psi \in p.formulas : key.row = p.progress[psi]
  BY ReachedKeysType
<1>2. ASSUME NEW l \in Masked(p, key), key.row[l].kind = "next"
      PROVE  /\ Relabel(p, key, l, index) \in OutCells
             /\ \E k \in D : Relabel(p, key, l, index).to = index[k]
  <2> DEFINE k == KeyOf(p, key.row[l].psi, Delta(p, key.q, l))
  <2>1. k \in D
    BY <1>2 DEF Successors
  <2>2. key.row[l].last \in BOOLEAN
    BY <1>1, <1>2, NextFormula DEF Masked, Agreeing, Emitted
  <2> HIDE DEF k
  <2>3. Relabel(p, key, l, index) = StateCell(index[k], key.row[l].last)
    BY <1>2 DEF Relabel, k
  <2>4. index[k] \in Nat
    BY <2>1
  <2> QED  BY <2>1, <2>2, <2>3, <2>4 DEF StateCell, OutCells
<1>3. ASSUME NEW l \in Masked(p, key), key.row[l].kind # "next"
      PROVE  Relabel(p, key, l, index) \in {FalseCell, TrueCell}
  <2>1. key.row[l] \in {FalseCell, TrueCell}
    BY <1>1, <1>3, CellKind DEF Masked, Agreeing, Emitted
  <2> QED  BY <1>3, <2>1 DEF Relabel
<1>4. \A l \in Letter : RowOf(p, key, index)[l] =
        IF l \in Masked(p, key) THEN Relabel(p, key, l, index) ELSE FalseCell
  BY DEF RowOf
<1>5. ASSUME NEW l \in Letter
      PROVE  /\ RowOf(p, key, index)[l] \in OutCells
             /\ RowOf(p, key, index)[l].kind = "state" =>
                  \E k \in D : RowOf(p, key, index)[l].to = index[k]
  <2>1. CASE l \in Masked(p, key) /\ key.row[l].kind = "next"
    BY <1>2, <1>4, <2>1
  <2>2. CASE ~ (l \in Masked(p, key) /\ key.row[l].kind = "next")
    <3>1. RowOf(p, key, index)[l] \in {FalseCell, TrueCell}
      BY <1>3, <1>4, <2>2
    <3> QED  BY <3>1 DEF FalseCell, TrueCell, OutCells
  <2> QED  BY <2>1, <2>2
<1> QED  BY <1>5 DEF RowOf

-----------------------------------------------------------------------------
(* The inductive invariant of the build.                                    *)

\* Nothing is stored before the set-up, and a stored key was reached.
StoredKeys ==
  /\ phase = "start" => rows = <<>> /\ decided = "none"
  /\ DOMAIN stateIndex \subseteq ReachedKeys(problem)
  /\ IsFiniteSet(DOMAIN stateIndex)

\* While rows are pushed, the states they name are interned already.
TargetsInterned ==
  phase = "build" =>
    \A n \in DOMAIN rows : \A l \in Letter :
      rows[n][l].kind = "state" => rows[n][l].to < Cardinality(DOMAIN stateIndex)

\* The verdict on record is the game's verdict on the rows fed so far.
VerdictOfRows == phase = "build" /\ decided = "win" => 0 \in WonRoots(rows)

IInv ==
  /\ problem \in Problems
  /\ TypeOK
  /\ StoredKeys
  /\ IndexIsDequeueOrder
  /\ TargetsInterned
  /\ RootsExist
  /\ VerdictOfRows
  /\ WinSurvivesPadding

LEMMA InitIInv == Init => IInv
<1> SUFFICES ASSUME Init  PROVE IInv
  OBVIOUS
<1>1. DOMAIN stateIndex = {}
  BY DEF Init
<1>2. IsFiniteSet(DOMAIN stateIndex)
  BY <1>1, FS_EmptySet
<1>3. TypeOK
  BY <1>1 DEF Init, TypeOK
<1> QED
  BY <1>1, <1>2, <1>3
  DEF Init, IInv, StoredKeys, IndexIsDequeueOrder, TargetsInterned, RootsExist,
      VerdictOfRows, WinSurvivesPadding

LEMMA TooManyTausIInv == IInv /\ TooManyTaus => IInv'
<1> QED
  BY DEF IInv, TooManyTaus, buildVars, TypeOK, StoredKeys, IndexIsDequeueOrder,
         TargetsInterned, RootsExist, VerdictOfRows, WinSurvivesPadding

LEMMA SolveIInv == IInv /\ (SolveFused \/ SolveBuilt) => IInv'
<1> QED
  BY DEF IInv, SolveFused, SolveBuilt, buildVars, TypeOK, StoredKeys, IndexIsDequeueOrder,
         TargetsInterned, RootsExist, VerdictOfRows, WinSurvivesPadding

LEMMA ThrowIInv == IInv /\ ThrowNondeterministic => IInv'
<1> SUFFICES ASSUME IInv, ThrowNondeterministic  PROVE IInv'
  OBVIOUS
<1>1. Tail(pending) \in Seq(DOMAIN stateIndex)
  BY HeadTailProperties DEF IInv, TypeOK, ThrowNondeterministic
<1> QED
  BY <1>1 DEF IInv, ThrowNondeterministic, TypeOK, StoredKeys, IndexIsDequeueOrder,
         TargetsInterned, RootsExist, VerdictOfRows, WinSurvivesPadding

LEMMA SeedIInv == IInv /\ Seed => IInv'
<1> SUFFICES ASSUME IInv, Seed  PROVE IInv'
  OBVIOUS
<1> DEFINE k0 == InitialKey(problem)
<1>1. WellFormed(problem)
  BY ProblemsWellFormed DEF IInv
<1>2. k0 \in ReachedKeys(problem)
  <2> DEFINE s == InitialPosition(problem)
  <2>1. s \in Reachable(problem)
    BY <1>1, InitialReachable
  <2>2. k0 = KeyOf(problem, s[1], s[2])
    BY DEF InitialKey, InitialPosition
  <2> QED  BY <2>1, <2>2 DEF ReachedKeys
<1>3. k0 \in Keys(problem)
  BY <1>1, <1>2, ReachedKeysType
<1>4. /\ stateIndex' = [key \in {k0} |-> 0]
      /\ pending' = <<k0>>
      /\ problem' = problem
      /\ rows' = <<>>
      /\ phase' = "build"
  BY DEF Seed, IInv, StoredKeys
<1> HIDE DEF k0
<1>5. DOMAIN stateIndex' = {k0} /\ IsFiniteSet({k0}) /\ Cardinality({k0}) = 1
  BY <1>4, FS_Singleton
<1>6. TypeOK'
  BY <1>3, <1>4, <1>5 DEF IInv, TypeOK, Seed
<1>7. StoredKeys'
  BY <1>2, <1>4, <1>5 DEF StoredKeys
<1>8. IndexIsDequeueOrder'
  BY <1>4, <1>5 DEF IndexIsDequeueOrder, IsInjective
<1>9. TargetsInterned' /\ RootsExist' /\ VerdictOfRows' /\ WinSurvivesPadding'
  BY <1>4 DEF IInv, StoredKeys, Seed, TargetsInterned, RootsExist, VerdictOfRows, WinSurvivesPadding
<1> QED  BY <1>4, <1>6, <1>7, <1>8, <1>9 DEF IInv

LEMMA ExpandIInv == IInv /\ Expand => IInv'
<1> SUFFICES ASSUME IInv, Expand  PROVE IInv'
  OBVIOUS
<1> DEFINE D   == DOMAIN stateIndex
           key == Head(pending)
           new == Successors(problem, key) \ D
           row == RowOf(problem, key, stateIndex')
<1>1. PICK ns \in Orders(new) :
        /\ stateIndex' = Intern(stateIndex, ns)
        /\ pending' = Tail(pending) \o ns
        /\ rows' = Append(rows, row)
  BY DEF Expand
<1>2. /\ phase = "build" /\ phase' = "build" /\ pending # <<>>
      /\ problem' = problem /\ online' = online /\ expanded' = expanded /\ result' = result
      /\ decided' = IF online THEN Verdict(rows') ELSE "none"
  BY DEF Expand
<1>3. WellFormed(problem)
  BY ProblemsWellFormed DEF IInv
<1>4. /\ pending \in Seq(D) /\ key \in D
      /\ Len(pending) \in Nat \ {0} /\ DOMAIN pending = 1 .. Len(pending)
      /\ Tail(pending) \in Seq(D) /\ Len(Tail(pending)) = Len(pending) - 1
      /\ \A n \in 1 .. Len(pending) - 1 : Tail(pending)[n] = pending[n + 1]
      /\ key = pending[1]
  BY <1>2, HeadTailProperties, LenProperties, EmptySeq DEF IInv, TypeOK
<1>5. /\ rows \in Seq([Letter -> OutCells])
      /\ Len(rows) \in Nat /\ DOMAIN rows = 1 .. Len(rows)
  BY LenProperties DEF IInv, TypeOK
<1>6. /\ stateIndex \in [D -> Nat]
      /\ IsFiniteSet(D)
      /\ key \in ReachedKeys(problem)
  BY <1>4 DEF IInv, TypeOK, StoredKeys
<1>7. Successors(problem, key) \subseteq ReachedKeys(problem) /\ IsFiniteSet(new)
  BY <1>3, <1>6, SuccessorsReached, FS_Difference
<1>8. /\ stateIndex' \in [D \cup new -> Nat]
      /\ IsFiniteSet(D \cup new)
      /\ Cardinality(D) \in Nat /\ Cardinality(new) \in Nat
      /\ Cardinality(D \cup new) = Cardinality(D) + Cardinality(new)
      /\ \A x \in D : stateIndex'[x] = stateIndex[x]
      /\ \A n \in 1 .. Cardinality(new) : stateIndex'[ns[n]] = Cardinality(D) + n - 1
  <2>1. new \cap D = {}
    OBVIOUS
  <2> HIDE DEF D, new
  <2> DEFINE index == stateIndex
  <2> HIDE DEF index
  <2>2. IsFiniteSet(D) /\ index \in [D -> Nat] /\ IsFiniteSet(new) /\ ns \in Orders(new)
    BY <1>6, <1>7 DEF index
  <2>3. /\ Intern(index, ns) \in [D \cup new -> Nat]
        /\ IsFiniteSet(D \cup new)
        /\ Cardinality(D) \in Nat /\ Cardinality(new) \in Nat
        /\ Cardinality(D \cup new) = Cardinality(D) + Cardinality(new)
        /\ \A x \in D : Intern(index, ns)[x] = index[x]
        /\ \A n \in 1 .. Cardinality(new) : Intern(index, ns)[ns[n]] = Cardinality(D) + n - 1
    BY <2>1, <2>2, InternProperties DEF Interned
  <2> QED  BY <1>1, <2>3 DEF index
<1>9. DOMAIN stateIndex' = D \cup new
  BY <1>8
<1>10. /\ ns \in Seq(new) /\ Len(ns) = Cardinality(new)
       /\ \A x \in new : \E n \in 1 .. Cardinality(new) : ns[n] = x
       /\ \A m, n \in 1 .. Cardinality(new) : ns[m] = ns[n] => m = n
  <2> HIDE DEF D, new
  <2> QED  BY <1>7, OrdersEnumerate
<1>11. /\ pending' \in Seq(D \cup new)
       /\ Len(pending') = Len(pending) - 1 + Cardinality(new)
       /\ DOMAIN pending' = 1 .. Len(pending')
       /\ \A n \in 1 .. Len(pending') :
            pending'[n] = IF n <= Len(pending) - 1 THEN pending[n + 1] ELSE ns[n - (Len(pending) - 1)]
  <2>1. Tail(pending) \in Seq(D \cup new) /\ ns \in Seq(D \cup new)
    BY <1>4, <1>10, SeqMonotonic
  <2>2. pending' = Tail(pending) \o ns
    BY <1>1
  <2> HIDE DEF D, new
  <2>3. /\ pending' \in Seq(D \cup new)
        /\ Len(pending') = Len(Tail(pending)) + Len(ns)
        /\ \A n \in 1 .. Len(Tail(pending)) + Len(ns) :
             pending'[n] = IF n <= Len(Tail(pending)) THEN Tail(pending)[n] ELSE ns[n - Len(Tail(pending))]
    BY <2>1, <2>2, ConcatProperties
  <2>4. DOMAIN pending' = 1 .. Len(pending')
    BY <2>3, LenProperties
  <2> QED  BY <1>4, <1>8, <1>10, <2>3, <2>4
<1>12. Successors(problem, key) \subseteq D \cup new
  OBVIOUS
<1>13. /\ row \in [Letter -> OutCells]
       /\ \A l \in Letter : row[l].kind = "state" => \E k \in D \cup new : row[l].to = stateIndex'[k]
  <2> HIDE DEF D, new, key
  <2> QED  BY <1>3, <1>6, <1>8, <1>12, RowType
<1>14. /\ rows' \in Seq([Letter -> OutCells])
       /\ Len(rows') = Len(rows) + 1 /\ DOMAIN rows' = 1 .. Len(rows) + 1
       /\ \A n \in 1 .. Len(rows) : rows'[n] = rows[n]
       /\ rows'[Len(rows) + 1] = row
  <2> HIDE DEF row
  <2> QED  BY <1>1, <1>5, <1>13, AppendProperties, LenProperties
<1>15. Cardinality(D) = Len(rows) + Len(pending)
  BY <1>2 DEF IInv, IndexIsDequeueOrder
<1>16. \A x \in D : stateIndex[x] < Cardinality(D)
  <2>1. /\ \A n \in 1 .. Len(pending) : stateIndex[pending[n]] = Len(rows) + n - 1
        /\ \A x \in D : stateIndex[x] < Len(rows) \/ \E n \in 1 .. Len(pending) : pending[n] = x
    BY <1>2, <1>4 DEF IInv, IndexIsDequeueOrder
  <2> HIDE DEF D
  <2> QED  BY <1>4, <1>5, <1>6, <1>15, <2>1
<1>17. TypeOK'
  <2>1. DOMAIN stateIndex' \subseteq Keys(problem)
    BY <1>3, <1>7, <1>9, ReachedKeysType DEF IInv, StoredKeys
  <2>2. decided' \in {"none", "win", "lose"}
    BY <1>2 DEF Verdict
  <2> HIDE DEF D, new
  <2>3. stateIndex' \in [DOMAIN stateIndex' -> Nat] /\ IsFiniteSet(DOMAIN stateIndex')
    BY <1>8, <1>9
  <2>4. pending' \in Seq(DOMAIN stateIndex')
    BY <1>9, <1>11
  <2>5. rows' \in Seq([Letter -> OutCells])
    BY <1>14
  <2> QED  BY <1>2, <2>1, <2>2, <2>3, <2>4, <2>5 DEF IInv, TypeOK
<1>18. StoredKeys'
  BY <1>2, <1>7, <1>8, <1>9 DEF IInv, StoredKeys
<1>19. IndexIsDequeueOrder'
  <2> HIDE DEF D, new, key, row
  <2>1. Cardinality(DOMAIN stateIndex') = Len(rows') + Len(pending')
    BY <1>4, <1>5, <1>8, <1>9, <1>11, <1>14, <1>15
  <2>2. ASSUME NEW n \in DOMAIN pending'
        PROVE  stateIndex'[pending'[n]] = Len(rows') + n - 1
    <3>1. CASE n <= Len(pending) - 1
      <4>1. pending'[n] = pending[n + 1] /\ n + 1 \in DOMAIN pending
        BY <1>4, <1>8, <1>11, <3>1
      <4>2. pending[n + 1] \in D /\ stateIndex[pending[n + 1]] = Len(rows) + (n + 1) - 1
        BY <1>2, <1>4, <4>1, ElementOfSeq DEF IInv, IndexIsDequeueOrder
      <4>3. stateIndex'[pending'[n]] = Len(rows) + (n + 1) - 1
        BY <1>8, <4>1, <4>2
      <4>4. n \in Int
        BY <1>11
      <4>5. Len(rows') + n - 1 = Len(rows) + (n + 1) - 1
        BY <1>5, <1>14, <4>4
      <4> QED  BY <4>3, <4>5
    <3>2. CASE ~ (n <= Len(pending) - 1)
      <4> DEFINE m == n - (Len(pending) - 1)
      <4>1. pending'[n] = ns[m] /\ m \in 1 .. Cardinality(new)
        BY <1>4, <1>8, <1>11, <3>2
      <4>2. stateIndex'[pending'[n]] = Cardinality(D) + m - 1
        BY <1>8, <4>1
      <4>3. n \in Int /\ Len(rows) \in Nat /\ Len(pending) \in Nat
        BY <1>4, <1>5, <1>11
      <4>4. Cardinality(D) = Len(rows) + Len(pending) /\ Len(rows') = Len(rows) + 1
        BY <1>14, <1>15
      <4>5. Cardinality(D) + m - 1 = Len(rows') + n - 1
        BY <4>3, <4>4
      <4> QED  BY <4>2, <4>5
    <3> QED  BY <3>1, <3>2
  <2>3. ASSUME NEW x \in DOMAIN stateIndex'
        PROVE  stateIndex'[x] < Len(rows') \/ \E n \in DOMAIN pending' : pending'[n] = x
    <3>1. CASE x \in D
      <4>1. CASE stateIndex[x] < Len(rows)
        BY <1>5, <1>6, <1>8, <1>14, <3>1, <4>1
      <4>2. CASE \E n \in DOMAIN pending : pending[n] = x
        <5>1. PICK n \in 1 .. Len(pending) : pending[n] = x
          BY <1>4, <4>2
        <5>2. CASE n = 1
          <6>1. stateIndex[x] = Len(rows)
            BY <1>2, <1>4, <1>5, <5>1, <5>2 DEF IInv, IndexIsDequeueOrder
          <6> QED  BY <1>5, <1>8, <1>14, <3>1, <6>1
        <5>3. CASE n # 1
          <6>1. n - 1 \in DOMAIN pending' /\ pending'[n - 1] = pending[n]
            BY <1>4, <1>8, <1>11, <5>3
          <6> QED  BY <5>1, <6>1
        <5> QED  BY <5>2, <5>3
      <4> QED  BY <1>2, <3>1, <4>1, <4>2 DEF IInv, IndexIsDequeueOrder, D
    <3>2. CASE x \in new
      <4>1. PICK m \in 1 .. Cardinality(new) : ns[m] = x
        BY <1>10, <3>2
      <4> DEFINE n == m + (Len(pending) - 1)
      <4>2. Cardinality(new) \in Nat /\ Len(pending) \in Nat \ {0}
        BY <1>4, <1>8
      <4>3. /\ n \in 1 .. (Len(pending) - 1 + Cardinality(new))
            /\ ~ (n <= Len(pending) - 1) /\ n - (Len(pending) - 1) = m
        BY <4>2
      <4>4. n \in 1 .. Len(pending') /\ DOMAIN pending' = 1 .. Len(pending')
        BY <1>11, <4>3
      <4>5. pending'[n] = ns[n - (Len(pending) - 1)]
        BY <1>11, <4>3, <4>4
      <4> QED  BY <4>1, <4>3, <4>4, <4>5
    <3> QED  BY <1>9, <3>1, <3>2
  <2>4. ASSUME NEW x \in DOMAIN stateIndex', NEW y \in DOMAIN stateIndex',
               stateIndex'[x] = stateIndex'[y]
        PROVE  x = y
    <3>1. \A z \in D : stateIndex'[z] = stateIndex[z] /\ stateIndex'[z] < Cardinality(D)
      BY <1>8, <1>16
    <3>2. \A z \in new : stateIndex'[z] >= Cardinality(D)
      BY <1>8, <1>10
    <3>3. CASE x \in D /\ y \in D
      BY <1>2, <2>4, <3>1, <3>3 DEF IInv, IndexIsDequeueOrder, IsInjective, D
    <3>4. CASE x \in new /\ y \in new
      BY <1>8, <1>10, <2>4, <3>4
    <3>5. CASE ~ (x \in D /\ y \in D) /\ ~ (x \in new /\ y \in new)
      BY <1>6, <1>8, <1>9, <2>4, <3>1, <3>2, <3>5
    <3> QED  BY <3>3, <3>4, <3>5
  <2> QED  BY <2>1, <2>2, <2>3, <2>4 DEF IndexIsDequeueOrder, IsInjective
<1>20. TargetsInterned'
  <2>1. \A k \in D \cup new : stateIndex'[k] < Cardinality(D \cup new)
    <3>1. Len(rows') \in Nat
      BY <1>5, <1>14
    <3>2. /\ Cardinality(D \cup new) = Len(rows') + Len(pending')
          /\ \A n \in DOMAIN pending' : stateIndex'[pending'[n]] = Len(rows') + n - 1
          /\ \A k \in D \cup new :
               stateIndex'[k] < Len(rows') \/ \E n \in DOMAIN pending' : pending'[n] = k
      BY <1>2, <1>9, <1>19 DEF IndexIsDequeueOrder
    <3>3. stateIndex' \in [D \cup new -> Nat] /\ pending' \in Seq(D \cup new)
      BY <1>8, <1>11
    <3> DEFINE E == D \cup new
    <3> HIDE DEF E
    <3>4. \A k \in E : stateIndex'[k] < Cardinality(E)
      BY <3>1, <3>2, <3>3, IndexBound DEF E
    <3> QED  BY <3>4 DEF E
  <2>2. Cardinality(D) <= Cardinality(D \cup new)
    BY <1>8
  <2>3. ASSUME NEW n \in DOMAIN rows', NEW l \in Letter, rows'[n][l].kind = "state"
        PROVE  rows'[n][l].to < Cardinality(D \cup new)
    <3> HIDE DEF D, new, row
    <3>1. CASE n \in DOMAIN rows
      <4>1. rows'[n] = rows[n]
        BY <1>5, <1>14, <3>1
      <4>2. rows[n][l].to < Cardinality(D)
        BY <1>2, <2>3, <3>1, <4>1 DEF IInv, TargetsInterned, D
      <4>3. rows[n][l] \in OutCells
        BY <1>5, <3>1, ElementOfSeq
      <4>4. rows[n][l].to \in Nat
        BY <2>3, <4>1, <4>3 DEF OutCells, FalseCell, TrueCell
      <4> QED  BY <1>8, <2>2, <4>1, <4>2, <4>4
    <3>2. CASE n = Len(rows) + 1
      BY <1>13, <1>14, <2>1, <2>3, <3>2
    <3> QED  BY <1>5, <1>14, <3>1, <3>2
  <2> QED  BY <1>9, <2>3 DEF TargetsInterned
<1>21. RootsExist' /\ WinSurvivesPadding'
  BY <1>2 DEF RootsExist, WinSurvivesPadding
<1>22. VerdictOfRows'
  BY <1>2 DEF VerdictOfRows, Verdict
<1> QED  BY <1>2, <1>17, <1>18, <1>19, <1>20, <1>21, <1>22 DEF IInv

-----------------------------------------------------------------------------
(* Padding.                                                                 *)

LEMMA PadProperties ==
  ASSUME NEW rs \in Seq([Letter -> OutCells]), NEW n \in Nat, Len(rs) <= n
  PROVE  /\ Pad(rs, n) \in Seq([Letter -> OutCells])
         /\ Len(rs) \in Nat
         /\ Len(Pad(rs, n)) = n /\ DOMAIN Pad(rs, n) = 1 .. n
         /\ \A m \in 1 .. Len(rs) : Pad(rs, n)[m] = rs[m]
         /\ \A m \in Len(rs) + 1 .. n : Pad(rs, n)[m] = FalseRow
<1> DEFINE k     == n - Len(rs)
           added == [m \in 1 .. k |-> FalseRow]
<1>1. Len(rs) \in Nat /\ k \in Nat
  BY LenProperties
<1>2. FalseRow \in [Letter -> OutCells]
  BY DEF FalseRow, OutCells
<1>3. added \in Seq([Letter -> OutCells]) /\ Len(added) = k /\ DOMAIN added = 1 .. k
  <2> HIDE DEF k
  <2>1. added \in [1 .. k -> [Letter -> OutCells]]
    BY <1>2
  <2>2. added \in Seq([Letter -> OutCells])
    BY <1>1, <2>1, SeqDef
  <2>3. DOMAIN added = 1 .. Len(added) /\ Len(added) \in Nat
    BY <2>2, LenProperties
  <2> QED  BY <1>1, <2>1, <2>2, <2>3
<1>4. \A m \in 1 .. k : added[m] = FalseRow
  OBVIOUS
<1>5. Pad(rs, n) = rs \o added
  BY DEF Pad
<1> HIDE DEF added
<1>6. /\ Pad(rs, n) \in Seq([Letter -> OutCells])
      /\ Len(Pad(rs, n)) = Len(rs) + Len(added)
      /\ \A m \in 1 .. Len(rs) + Len(added) :
           Pad(rs, n)[m] = IF m <= Len(rs) THEN rs[m] ELSE added[m - Len(rs)]
  BY <1>3, <1>5, ConcatProperties
<1>7. DOMAIN Pad(rs, n) = 1 .. Len(Pad(rs, n))
  BY <1>6, LenProperties
<1> QED  BY <1>1, <1>3, <1>4, <1>6, <1>7

\* A row the system wins with few won roots it wins with more.
LEMMA RowWonMonotonic ==
  ASSUME NEW row, NEW V, NEW W, V \subseteq W, RowWon(row, V)
  PROVE  RowWon(row, W)
BY DEF RowWon, CellWon

\* Rows pushed behind the fed ones take no won root away.
LEMMA MoreRowsKeepWins ==
  ASSUME NEW rs, NEW ts, Len(rs) \in Nat, Len(ts) \in Nat, Len(rs) <= Len(ts),
         \A m \in 1 .. Len(rs) : ts[m] = rs[m]
  PROVE  WonRoots(rs) \subseteq WonRoots(ts)
<1> SUFFICES ASSUME NEW j \in WonRoots(rs), NEW W \in SUBSET Roots(ts),
                    \A m \in Roots(ts) : RowWon(ts[m + 1], W) => m \in W
             PROVE  j \in W
  BY DEF WonRoots, Roots
<1> DEFINE V == W \cap Roots(rs)
<1>1. ASSUME NEW m \in Roots(rs), RowWon(rs[m + 1], V)
      PROVE  m \in V
  <2>1. m \in Roots(ts) /\ ts[m + 1] = rs[m + 1]
    BY DEF Roots
  <2>2. RowWon(ts[m + 1], W)
    BY <1>1, <2>1, RowWonMonotonic
  <2> QED  BY <2>1, <2>2
<1>2. V \in SUBSET Roots(rs)
  OBVIOUS
<1>3. j \in V
  BY <1>1, <1>2 DEF WonRoots
<1> QED  BY <1>3

LEMMA FinishIInv == IInv /\ FinishBuild => IInv'
<1> SUFFICES ASSUME IInv, FinishBuild  PROVE IInv'
  OBVIOUS
<1> DEFINE n == Cardinality(DOMAIN stateIndex)
<1>1. /\ phase = "build" /\ phase' = "built"
      /\ rows' = Pad(rows, n) /\ expanded' = Len(rows)
      /\ UNCHANGED <<problem, online, stateIndex, pending, decided, result>>
  BY DEF FinishBuild
<1>2. rows \in Seq([Letter -> OutCells]) /\ Len(rows) \in Nat /\ DOMAIN rows = 1 .. Len(rows)
  BY LenProperties DEF IInv, TypeOK
<1>3. n \in Nat /\ Len(rows) <= n
  <2>1. n = Len(rows) + Len(pending)
    BY <1>1 DEF IInv, IndexIsDequeueOrder
  <2>2. Len(pending) \in Nat
    BY LenProperties DEF IInv, TypeOK
  <2> HIDE DEF n
  <2> QED  BY <1>2, <2>1, <2>2
<1> HIDE DEF n
<1>4. /\ rows' \in Seq([Letter -> OutCells])
      /\ Len(rows') = n /\ DOMAIN rows' = 1 .. n
      /\ \A m \in 1 .. Len(rows) : rows'[m] = rows[m]
      /\ \A m \in Len(rows) + 1 .. n : rows'[m] = FalseRow
  BY <1>1, <1>2, <1>3, PadProperties
<1>5. TypeOK'
  BY <1>1, <1>2, <1>4 DEF IInv, TypeOK
<1>6. StoredKeys' /\ IndexIsDequeueOrder' /\ TargetsInterned' /\ VerdictOfRows'
  BY <1>1 DEF IInv, StoredKeys, IndexIsDequeueOrder, TargetsInterned, VerdictOfRows
<1>7. RootsExist'
  <2> SUFFICES ASSUME NEW m \in DOMAIN rows', NEW l \in Letter, rows'[m][l].kind = "state"
               PROVE  rows'[m][l].to < Len(rows')
    BY DEF RootsExist
  <2>1. CASE m \in 1 .. Len(rows)
    BY <1>1, <1>2, <1>4, <2>1 DEF IInv, TargetsInterned, n
  <2>2. CASE m \in Len(rows) + 1 .. n
    <3>1. rows'[m][l].kind = "false"
      BY <1>4, <2>2 DEF FalseRow, FalseCell
    <3> QED  BY <3>1
  <2> QED  BY <1>2, <1>3, <1>4, <2>1, <2>2
<1>8. WinSurvivesPadding'
  <2> SUFFICES ASSUME decided = "win"  PROVE 0 \in WonRoots(rows')
    BY <1>1 DEF WinSurvivesPadding, Realizable
  <2>1. 0 \in WonRoots(rows)
    BY <1>1 DEF IInv, VerdictOfRows
  <2> QED  BY <1>2, <1>3, <1>4, <2>1, MoreRowsKeepWins
<1> QED  BY <1>1, <1>5, <1>6, <1>7, <1>8 DEF IInv

-----------------------------------------------------------------------------
(* The theorems.                                                            *)

LEMMA StutterIInv == IInv /\ UNCHANGED vars => IInv'
<1> QED
  BY DEF IInv, vars, TypeOK, StoredKeys, IndexIsDequeueOrder, TargetsInterned, RootsExist,
         VerdictOfRows, WinSurvivesPadding

\* The conjunction that carries the induction holds of every reachable state.
THEOREM InductiveInvariant == Spec => []IInv
<1>1. IInv /\ [Next]_vars => IInv'
  BY TooManyTausIInv, SeedIInv, ThrowIInv, ExpandIInv, FinishIInv, SolveIInv, StutterIInv
  DEF Next
<1> QED  BY <1>1, InitIInv, PTL DEF Spec

\* Every stored key, row and verdict has its type: no leaf of a progression row
\* reaches a row of the product.
THEOREM TypeCorrect == Spec => []TypeOK
<1>1. IInv => TypeOK
  BY DEF IInv
<1> QED  BY <1>1, InductiveInvariant, PTL

\* The assertion before states.push_back holds: the key that is taken next has
\* the index of the row that is pushed next, whatever the interning order.
THEOREM DequeueOrder == Spec => []IndexIsDequeueOrder
<1>1. IInv => IndexIsDequeueOrder
  BY DEF IInv
<1> QED  BY <1>1, InductiveInvariant, PTL

\* The finished product names no root it lacks, also after an early stop.
THEOREM ProductIsClosed == Spec => []RootsExist
<1>1. IInv => RootsExist
  BY DEF IInv
<1> QED  BY <1>1, InductiveInvariant, PTL

\* Only states that an agreeing word of the knowledge leads to are interned.
THEOREM OnlyReachableInterned == Spec => []InternedReachable
<1>1. IInv => InternedReachable
  BY DEF IInv, StoredKeys, InternedReachable, ReachedKeys
<1> QED  BY <1>1, InductiveInvariant, PTL

\* A game that was won online is won on the padded product.
THEOREM PaddingKeepsWin == Spec => []WinSurvivesPadding
<1>1. IInv => WinSurvivesPadding
  BY DEF IInv
<1> QED  BY <1>1, InductiveInvariant, PTL

-----------------------------------------------------------------------------
(* The game on the rows is the game on the positions.                        *)

\* Where a move leads, a key can be interned.
LEMMA MoveType ==
  ASSUME NEW p, WellFormed(p), NEW s \in Positions(p), NEW i \in IFree, NEW r \in Moves(p, s, i)
  PROVE  r \in Positions(p) /\ KeyOf(p, r[1], r[2]) \in Successors(p, KeyOf(p, s[1], s[2]))
<1>1. s[1] \in p.formulas /\ s[2] \in Vectors(p)
  BY DEF Positions
<1>2. PICK l \in Agreeing(p, s[2]) :
        /\ p.progress[s[1]][l].kind = "next"
        /\ r = <<p.progress[s[1]][l].psi, Delta(p, s[2], l)>>
  BY DEF Moves
<1>3. l \in Letter /\ DeltaDefined(p, s[2], l)
  BY DEF Agreeing, Emitted
<1>4. r \in Positions(p)
  BY <1>1, <1>2, <1>3, NextFormula, DeltaType DEF Positions
<1> DEFINE key == KeyOf(p, s[1], s[2])
<1>5. key.row = p.progress[s[1]] /\ key.q = s[2]
  BY DEF KeyOf
<1>6. r[1] = p.progress[s[1]][l].psi /\ r[2] = Delta(p, s[2], l)
  BY <1>2
<1> HIDE DEF key
<1>7. l \in {m \in Masked(p, key) : key.row[m].kind = "next"}
  BY <1>2, <1>5 DEF Masked
<1>8. KeyOf(p, r[1], r[2]) = KeyOf(p, key.row[l].psi, Delta(p, key.q, l))
  BY <1>5, <1>6
<1>9. KeyOf(p, r[1], r[2]) \in Successors(p, key)
  BY <1>7, <1>8 DEF Successors
<1> QED
  BY <1>4, <1>9 DEF key

\* What a cell of a product row says of its letter.
LEMMA CellMeans ==
  ASSUME NEW p, WellFormed(p), NEW s \in Positions(p), NEW index, NEW l \in Letter
  PROVE  LET c    == p.progress[s[1]][l]
             cell == RowOf(p, KeyOf(p, s[1], s[2]), index)[l]
         IN  /\ cell.kind \in {"true", "false", "state"}
             /\ cell.kind = "true" <=> l \in Agreeing(p, s[2]) /\ c = TrueCell
             /\ cell.kind = "state" <=> l \in Agreeing(p, s[2]) /\ c.kind = "next"
             /\ cell.kind = "state" =>
                  /\ cell.acc = c.last
                  /\ cell.to = index[KeyOf(p, c.psi, Delta(p, s[2], l))]
<1> DEFINE key  == KeyOf(p, s[1], s[2])
           c    == p.progress[s[1]][l]
           cell == RowOf(p, key, index)[l]
<1>1. s[1] \in p.formulas
  BY DEF Positions
<1>2. key.row = p.progress[s[1]] /\ key.q = s[2]
  BY DEF KeyOf
<1> HIDE DEF key
<1>3. cell = IF l \in Agreeing(p, s[2])
             THEN IF c.kind = "next" THEN StateCell(index[KeyOf(p, c.psi, Delta(p, s[2], l))], c.last) ELSE c
             ELSE FalseCell
  BY <1>2 DEF RowOf, Relabel, Masked
<1>4. c.kind # "next" => c \in {FalseCell, TrueCell}
  BY <1>1, CellKind
<1>5. c.kind = "next" => c # TrueCell
  BY DEF TrueCell
<1> HIDE DEF c, cell
<1>6. /\ cell.kind \in {"true", "false", "state"}
      /\ cell.kind = "true" <=> l \in Agreeing(p, s[2]) /\ c = TrueCell
      /\ cell.kind = "state" <=> l \in Agreeing(p, s[2]) /\ c.kind = "next"
      /\ cell.kind = "state" =>
           /\ cell.acc = c.last
           /\ cell.to = index[KeyOf(p, c.psi, Delta(p, s[2], l))]
  <2>1. CASE l \in Agreeing(p, s[2]) /\ c.kind = "next"
    BY <1>3, <1>5, <2>1 DEF StateCell
  <2>2. CASE l \in Agreeing(p, s[2]) /\ c.kind # "next"
    BY <1>3, <1>4, <2>2 DEF FalseCell, TrueCell
  <2>3. CASE l \notin Agreeing(p, s[2])
    BY <1>3, <2>3 DEF FalseCell
  <2> QED
    BY <2>1, <2>2, <2>3
<1> QED
  BY <1>6 DEF c, cell, key

Indexed(p, index, V, r) == index[KeyOf(p, r[1], r[2])] \in V

\* To win the row of a key from the roots V is to answer by stopping, or by moving to
\* a position whose key is numbered in V; to lose it, to have no answer but moves
\* to positions numbered in V.
LEMMA AnswersMeanCells ==
  ASSUME NEW p, WellFormed(p), NEW s \in Positions(p), NEW index, NEW V, NEW i \in IFree
  PROVE  LET row == RowOf(p, KeyOf(p, s[1], s[2]), index)
         IN  /\ (\E l \in Letter : l.i = i /\ CellWon(row[l], V))
                  <=> Stops(p, s, i) \/ \E r \in Moves(p, s, i) : Indexed(p, index, V, r)
             /\ (\A l \in Letter : l.i = i => CellLost(row[l], V))
                  <=> ~Stops(p, s, i) /\ \A r \in Moves(p, s, i) : Indexed(p, index, V, r)
<1> DEFINE row == RowOf(p, KeyOf(p, s[1], s[2]), index)
           c(l) == p.progress[s[1]][l]
           A == Agreeing(p, s[2])
           to(l) == <<c(l).psi, Delta(p, s[2], l)>>
<1>1. s[1] \in p.formulas
  BY DEF Positions
<1>2. A \subseteq Letter
  BY DEF Agreeing, Emitted
<1>3. \A l \in Letter :
        /\ row[l].kind \in {"true", "false", "state"}
        /\ row[l].kind = "true" <=> l \in A /\ c(l) = TrueCell
        /\ row[l].kind = "state" <=> l \in A /\ c(l).kind = "next"
        /\ row[l].kind = "state" => row[l].acc = c(l).last /\ row[l].to = index[KeyOf(p, c(l).psi, Delta(p, s[2], l))]
  BY CellMeans
<1>4. \A l \in Letter : Indexed(p, index, V, to(l)) <=> index[KeyOf(p, c(l).psi, Delta(p, s[2], l))] \in V
  BY DEF Indexed
<1>5. \A l \in A : c(l).kind = "next" => c(l).last \in BOOLEAN
  BY <1>1, <1>2, NextFormula
<1>6. Stops(p, s, i) <=> \E l \in A : l.i = i /\ (c(l) = TrueCell \/ (c(l).kind = "next" /\ c(l).last = TRUE))
  <2>1. \A l \in A : (\E chi \in p.formulas : c(l) = NextCell(chi, TRUE)) <=> c(l).kind = "next" /\ c(l).last = TRUE
    BY <1>1, <1>2, StopMeans
  <2>2. Stops(p, s, i) <=>
          \E l \in A : l.i = i /\ (c(l) = TrueCell \/ \E chi \in p.formulas : c(l) = NextCell(chi, TRUE))
    BY DEF Stops
  <2> QED
    BY <2>1, <2>2
<1>7. Moves(p, s, i) = {to(l) : l \in {m \in A : m.i = i /\ c(m).kind = "next"}}
  BY DEF Moves
<1>8. \A l \in Letter : row[l].kind = "state" => row[l].acc \in BOOLEAN
  BY <1>3, <1>5
<1> HIDE DEF row, A, to
<1>9. (\E l \in Letter : l.i = i /\ CellWon(row[l], V))
        <=> Stops(p, s, i) \/ \E r \in Moves(p, s, i) : Indexed(p, index, V, r)
  <2>1. ASSUME NEW l \in Letter, l.i = i, CellWon(row[l], V)
        PROVE  Stops(p, s, i) \/ \E r \in Moves(p, s, i) : Indexed(p, index, V, r)
    <3>1. CASE row[l].kind = "true"
      BY <1>3, <1>6, <2>1, <3>1
    <3>2. CASE row[l].kind = "state" /\ row[l].acc = TRUE
      BY <1>3, <1>6, <2>1, <3>2
    <3>3. CASE row[l].kind = "state" /\ row[l].to \in V
      BY <1>3, <1>4, <1>7, <2>1, <3>3
    <3> QED
      BY <1>8, <2>1, <3>1, <3>2, <3>3 DEF CellWon
  <2>2. ASSUME Stops(p, s, i)
        PROVE  \E l \in Letter : l.i = i /\ CellWon(row[l], V)
    <3>1. PICK l \in A : l.i = i /\ (c(l) = TrueCell \/ (c(l).kind = "next" /\ c(l).last = TRUE))
      BY <1>6, <2>2
    <3>2. l \in Letter
      BY <1>2
    <3> QED
      BY <1>3, <3>1, <3>2 DEF CellWon
  <2>3. ASSUME NEW r \in Moves(p, s, i), Indexed(p, index, V, r)
        PROVE  \E l \in Letter : l.i = i /\ CellWon(row[l], V)
    <3>1. PICK l \in A : l.i = i /\ c(l).kind = "next" /\ r = to(l)
      BY <1>7
    <3>2. l \in Letter
      BY <1>2
    <3> QED
      BY <1>3, <1>4, <2>3, <3>1, <3>2 DEF CellWon
  <2> QED
    BY <2>1, <2>2, <2>3
<1>10. (\A l \in Letter : l.i = i => CellLost(row[l], V))
         <=> ~Stops(p, s, i) /\ \A r \in Moves(p, s, i) : Indexed(p, index, V, r)
  <2>1. ASSUME \A l \in Letter : l.i = i => CellLost(row[l], V)
        PROVE  ~Stops(p, s, i)
    <3>1. ASSUME NEW l \in A, l.i = i, c(l) = TrueCell \/ (c(l).kind = "next" /\ c(l).last = TRUE)
          PROVE  FALSE
      <4>1. l \in Letter /\ CellLost(row[l], V)
        BY <1>2, <2>1, <3>1
      <4>2. CASE c(l) = TrueCell
        BY <1>3, <4>1, <4>2 DEF CellLost
      <4>3. CASE c(l).kind = "next" /\ c(l).last = TRUE
        BY <1>3, <4>1, <4>3 DEF CellLost
      <4> QED
        BY <3>1, <4>2, <4>3
    <3> QED
      BY <1>6, <3>1
  <2>2. ASSUME \A l \in Letter : l.i = i => CellLost(row[l], V), NEW r \in Moves(p, s, i)
        PROVE  Indexed(p, index, V, r)
    <3>1. PICK l \in A : l.i = i /\ c(l).kind = "next" /\ r = to(l)
      BY <1>7
    <3>2. l \in Letter /\ CellLost(row[l], V)
      BY <1>2, <2>2, <3>1
    <3> QED
      BY <1>3, <1>4, <3>1, <3>2 DEF CellLost
  <2>3. ASSUME ~Stops(p, s, i), \A r \in Moves(p, s, i) : Indexed(p, index, V, r),
               NEW l \in Letter, l.i = i
        PROVE  CellLost(row[l], V)
    <3>1. row[l].kind # "true"
      BY <1>3, <1>6, <2>3
    <3>2. CASE row[l].kind = "state"
      <4>1. l \in A /\ c(l).kind = "next" /\ row[l].acc = c(l).last
        BY <1>3, <3>2
      <4>2. c(l).last # TRUE
        BY <1>6, <2>3, <4>1
      <4>3. to(l) \in Moves(p, s, i)
        BY <1>7, <2>3, <4>1
      <4>4. row[l].to \in V
        BY <1>3, <1>4, <2>3, <3>2, <4>3
      <4>5. ~row[l].acc
        BY <1>5, <4>1, <4>2
      <4> QED
        BY <3>2, <4>4, <4>5 DEF CellLost
    <3> QED
      BY <1>3, <3>1, <3>2 DEF CellLost
  <2> QED
    BY <2>1, <2>2, <2>3
<1> QED
  BY <1>9, <1>10 DEF row

\* The rows fed are those of keys, numbered by index.
FedRows(p, index, rs) ==
  \A key \in DOMAIN index : index[key] < Len(rs) =>
    Successors(p, key) \subseteq DOMAIN index /\ rs[index[key] + 1] = RowOf(p, key, index)

LEMMA WinOnRowsIsWin ==
  ASSUME NEW p, WellFormed(p), NEW index, \A k \in DOMAIN index : index[k] \in Nat,
         NEW rs, Len(rs) \in Nat, FedRows(p, index, rs),
         InitialKey(p) \in DOMAIN index, index[InitialKey(p)] = 0,
         0 \in WonRoots(rs)
  PROVE  SystemWins(p)
<1> SUFFICES ASSUME NEW W \in SUBSET Positions(p),
                    \A s \in Positions(p) : Forces(p, s, W) => s \in W
             PROVE  InitialPosition(p) \in W
  BY SystemWinsMeans
<1> DEFINE K(s) == KeyOf(p, s[1], s[2])
           V == {j \in Roots(rs) : \A s \in Positions(p) :
                   K(s) \in DOMAIN index /\ index[K(s)] = j => s \in W}
<1>1. ASSUME NEW j \in Roots(rs), RowWon(rs[j + 1], V),
             NEW s \in Positions(p), K(s) \in DOMAIN index, index[K(s)] = j
      PROVE  s \in W
  <2>1. rs[j + 1] = RowOf(p, K(s), index) /\ Successors(p, K(s)) \subseteq DOMAIN index
    <3>1. index[K(s)] < Len(rs)
      BY <1>1 DEF Roots
    <3> QED
      BY <1>1, <3>1 DEF FedRows
  <2>2. ASSUME NEW i \in IFree
        PROVE  Stops(p, s, i) \/ \E r \in W : r \in Moves(p, s, i)
    <3>1. \E l \in Letter : l.i = i /\ CellWon(RowOf(p, K(s), index)[l], V)
      BY <1>1, <2>1 DEF RowWon
    <3>2. Stops(p, s, i) \/ \E r \in Moves(p, s, i) : Indexed(p, index, V, r)
      BY <3>1, AnswersMeanCells
    <3>3. ASSUME NEW r \in Moves(p, s, i), Indexed(p, index, V, r)
          PROVE  r \in W
      <4>1. r \in Positions(p) /\ K(r) \in DOMAIN index
        BY <2>1, MoveType
      <4>2. index[K(r)] \in V
        BY <3>3 DEF Indexed
      <4> QED
        BY <4>1, <4>2
    <3> QED
      BY <3>2, <3>3
  <2> QED
    BY <2>2 DEF Forces
<1>2. V \in SUBSET Roots(rs) /\ \A j \in Roots(rs) : RowWon(rs[j + 1], V) => j \in V
  BY <1>1
<1>3. 0 \in V
  BY <1>2 DEF WonRoots
<1>4. InitialPosition(p) \in Positions(p) /\ K(InitialPosition(p)) = InitialKey(p)
  BY InitialVectorType DEF InitialPosition, InitialKey, Positions, WellFormed
<1> QED
  BY <1>3, <1>4

\* A row that is lost with few lost roots is lost with more; the lost roots are those
\* whose row is lost.
LEMMA LostRootsRows ==
  ASSUME NEW rs, NEW j \in LostRoots(rs)
  PROVE  j \in Roots(rs) /\ RowLost(rs[j + 1], LostRoots(rs))
<1> DEFINE L == LostRoots(rs)
           M == {m \in Roots(rs) : RowLost(rs[m + 1], L)}
<1>1. ASSUME NEW m \in Roots(rs), NEW A, NEW C, A \subseteq C, RowLost(rs[m + 1], A)
      PROVE  RowLost(rs[m + 1], C)
  BY <1>1 DEF RowLost, CellLost
<1>2. M \subseteq L
  <2> SUFFICES ASSUME NEW m \in M, NEW S \in SUBSET Roots(rs),
                      \A n \in Roots(rs) : RowLost(rs[n + 1], S) => n \in S
               PROVE  m \in S
    BY DEF LostRoots
  <2>1. L \subseteq S
    BY DEF LostRoots
  <2> QED
    BY <1>1, <2>1
<1>3. \A m \in Roots(rs) : RowLost(rs[m + 1], M) => m \in M
  BY <1>1, <1>2
<1>4. j \in M
  BY <1>3 DEF LostRoots
<1> QED
  BY <1>4

LEMMA LossOnRowsIsLoss ==
  ASSUME NEW p, WellFormed(p), NEW index, \A k \in DOMAIN index : index[k] \in Nat,
         NEW rs, Len(rs) \in Nat, FedRows(p, index, rs),
         InitialKey(p) \in DOMAIN index, index[InitialKey(p)] = 0,
         0 \in LostRoots(rs)
  PROVE  ~SystemWins(p)
<1> DEFINE K(s) == KeyOf(p, s[1], s[2])
           L == LostRoots(rs)
           W == {s \in Positions(p) : ~(K(s) \in DOMAIN index /\ index[K(s)] \in L)}
<1>1. ASSUME NEW s \in Positions(p), s \notin W
      PROVE  ~Forces(p, s, W)
  <2>1. K(s) \in DOMAIN index /\ index[K(s)] \in L
    BY <1>1
  <2>2. index[K(s)] \in Roots(rs) /\ RowLost(rs[index[K(s)] + 1], L)
    BY <2>1, LostRootsRows
  <2>3. rs[index[K(s)] + 1] = RowOf(p, K(s), index) /\ Successors(p, K(s)) \subseteq DOMAIN index
    <3>1. index[K(s)] < Len(rs)
      BY <2>2 DEF Roots
    <3> QED
      BY <2>1, <3>1 DEF FedRows
  <2>4. PICK i \in IFree : \A l \in Letter : l.i = i => CellLost(RowOf(p, K(s), index)[l], L)
    BY <2>2, <2>3 DEF RowLost
  <2>5. ~Stops(p, s, i) /\ \A r \in Moves(p, s, i) : Indexed(p, index, L, r)
    BY <2>4, AnswersMeanCells
  <2>6. ASSUME NEW r \in Moves(p, s, i)
        PROVE  r \notin W
    <3>1. K(r) \in DOMAIN index
      BY <2>3, MoveType
    <3>2. index[K(r)] \in L
      BY <2>5 DEF Indexed
    <3> QED
      BY <3>1, <3>2
  <2> QED
    BY <2>5, <2>6 DEF Forces
<1>2. InitialPosition(p) \in Positions(p) /\ K(InitialPosition(p)) = InitialKey(p)
  BY InitialVectorType DEF InitialPosition, InitialKey, Positions, WellFormed
<1>3. InitialPosition(p) \notin W
  BY <1>2
<1>4. W \in SUBSET Positions(p)
  OBVIOUS
<1> QED
  BY <1>1, <1>3, <1>4, SystemWinsMeans

\* When every key has its row, a won game is won on the rows.
LEMMA WinIsWinOnRows ==
  ASSUME NEW p, WellFormed(p), NEW index, \A k \in DOMAIN index : index[k] \in Nat,
         NEW rs, Len(rs) \in Nat, FedRows(p, index, rs),
         \A k \in DOMAIN index : index[k] < Len(rs),
         InitialKey(p) \in DOMAIN index, index[InitialKey(p)] = 0,
         SystemWins(p)
  PROVE  0 \in WonRoots(rs)
<1>1. 0 \in Roots(rs)
  BY DEF Roots
<1> SUFFICES ASSUME NEW V \in SUBSET Roots(rs),
                    \A j \in Roots(rs) : RowWon(rs[j + 1], V) => j \in V
             PROVE  0 \in V
  BY <1>1 DEF WonRoots
<1> DEFINE K(s) == KeyOf(p, s[1], s[2])
           W == {s \in Positions(p) : K(s) \in DOMAIN index => index[K(s)] \in V}
<1>2. ASSUME NEW s \in Positions(p), Forces(p, s, W), K(s) \in DOMAIN index
      PROVE  index[K(s)] \in V
  <2>1. /\ index[K(s)] \in Roots(rs)
        /\ rs[index[K(s)] + 1] = RowOf(p, K(s), index) /\ Successors(p, K(s)) \subseteq DOMAIN index
    BY <1>2 DEF FedRows, Roots
  <2>2. ASSUME NEW i \in IFree
        PROVE  \E l \in Letter : l.i = i /\ CellWon(RowOf(p, K(s), index)[l], V)
    <3>1. ASSUME NEW r \in W, r \in Moves(p, s, i)
          PROVE  Indexed(p, index, V, r)
      <4>1. K(r) \in DOMAIN index
        BY <2>1, <3>1, MoveType
      <4> QED
        BY <3>1, <4>1 DEF Indexed
    <3>2. Stops(p, s, i) \/ \E r \in Moves(p, s, i) : Indexed(p, index, V, r)
      BY <1>2, <3>1 DEF Forces
    <3>3. (\E l \in Letter : l.i = i /\ CellWon(RowOf(p, K(s), index)[l], V))
            <=> Stops(p, s, i) \/ \E r \in Moves(p, s, i) : Indexed(p, index, V, r)
      BY AnswersMeanCells
    <3> QED
      BY <3>2, <3>3
  <2>3. RowWon(rs[index[K(s)] + 1], V)
    BY <2>1, <2>2 DEF RowWon
  <2> QED
    BY <2>1, <2>3
<1>3. InitialPosition(p) \in W
  <2>1. W \in SUBSET Positions(p) /\ \A s \in Positions(p) : Forces(p, s, W) => s \in W
    BY <1>2
  <2> QED
    BY <2>1, SystemWinsMeans
<1>4. K(InitialPosition(p)) = InitialKey(p)
  BY DEF InitialPosition, InitialKey
<1> QED
  BY <1>3, <1>4

-----------------------------------------------------------------------------
(* The invariant of the game.                                               *)

\* Index 0 is the initial position's, and each row fed is that of its key.
RowsOfKeys ==
  phase = "build" =>
    /\ InitialKey(problem) \in DOMAIN stateIndex /\ stateIndex[InitialKey(problem)] = 0
    /\ FedRows(problem, stateIndex, rows)

\* The verdict on record is that of the rows fed.
VerdictIsCurrent == phase = "build" => decided = IF online THEN Verdict(rows) ELSE "none"

\* Once the loop has ended, the verdict, or without one the rows, tell who wins.
AnswerKnown ==
  phase = "built" =>
    /\ decided # "none" => (decided = "win" <=> SystemWins(problem))
    /\ decided = "none" => (Realizable(rows) <=> SystemWins(problem))
    /\ decided = "none" /\ online => ~Realizable(rows)
    /\ ~online => decided = "none"

GameInv ==
  /\ RowsOfKeys /\ VerdictIsCurrent /\ AnswerKnown
  /\ phase # "done" => result = "none"

LEMMA VerdictSound == IInv /\ RowsOfKeys /\ VerdictIsCurrent => EarlyVerdictSound
<1> SUFFICES ASSUME IInv, RowsOfKeys, VerdictIsCurrent, phase = "build", decided # "none"
             PROVE  (decided = "win") = SystemWins(problem)
  BY DEF EarlyVerdictSound
<1>1. /\ WellFormed(problem) /\ Len(rows) \in Nat
      /\ \A k \in DOMAIN stateIndex : stateIndex[k] \in Nat
  BY ProblemsWellFormed, LenProperties DEF IInv, TypeOK
<1>2. CASE decided = "win"
  <2>1. 0 \in WonRoots(rows)
    BY <1>2 DEF VerdictIsCurrent, Verdict
  <2>2. SystemWins(problem)
    BY <1>1, <2>1, WinOnRowsIsWin DEF RowsOfKeys
  <2> QED
    BY <1>2, <2>2 DEF SystemWins
<1>3. CASE decided # "win"
  <2>1. 0 \in LostRoots(rows)
    BY <1>3 DEF VerdictIsCurrent, Verdict
  <2>2. ~SystemWins(problem)
    BY <1>1, <2>1, LossOnRowsIsLoss DEF RowsOfKeys
  <2> QED
    BY <1>3, <2>2 DEF SystemWins
<1> QED
  BY <1>2, <1>3

LEMMA SeedGame == IInv /\ GameInv /\ Seed => GameInv'
<1> SUFFICES ASSUME IInv, GameInv, Seed PROVE GameInv'
  OBVIOUS
<1>1. /\ stateIndex' = [key \in {InitialKey(problem)} |-> 0]
      /\ problem' = problem /\ online' = online /\ phase = "start" /\ phase' = "build"
      /\ rows' = <<>> /\ decided' = "none" /\ result' = result
  BY DEF Seed, IInv, StoredKeys
<1>2. Len(rows') = 0 /\ Roots(rows') = {}
  BY <1>1 DEF Roots
<1>3. RowsOfKeys'
  BY <1>1, <1>2 DEF RowsOfKeys, FedRows
<1>4. Verdict(rows') = "none"
  BY <1>2 DEF Verdict, WonRoots, LostRoots
<1>5. VerdictIsCurrent'
  BY <1>1, <1>4 DEF VerdictIsCurrent
<1> QED
  BY <1>1, <1>3, <1>5 DEF GameInv, AnswerKnown

\* What an expansion does to the table and to the rows.
LEMMA ExpandExtends ==
  ASSUME IInv, Expand
  PROVE  LET key == Head(pending)
         IN  /\ key \in DOMAIN stateIndex /\ stateIndex[key] = Len(rows)
             /\ DOMAIN stateIndex' = DOMAIN stateIndex \cup Successors(problem, key)
             /\ \A x \in DOMAIN stateIndex : stateIndex'[x] = stateIndex[x] /\ stateIndex[x] \in Nat
             /\ \A x \in DOMAIN stateIndex' \ DOMAIN stateIndex : stateIndex'[x] \in Nat /\ stateIndex'[x] > Len(rows)
             /\ Len(rows) \in Nat /\ Len(rows') = Len(rows) + 1
             /\ \A n \in 1 .. Len(rows) : rows'[n] = rows[n]
             /\ rows'[Len(rows) + 1] = RowOf(problem, key, stateIndex')
<1> DEFINE D   == DOMAIN stateIndex
           key == Head(pending)
           new == Successors(problem, key) \ D
           row == RowOf(problem, key, stateIndex')
<1>1. PICK ns \in Orders(new) : stateIndex' = Intern(stateIndex, ns) /\ rows' = Append(rows, row)
  BY DEF Expand
<1>2. phase = "build" /\ pending # <<>> /\ problem \in Problems
  BY DEF Expand, IInv
<1>3. /\ pending \in Seq(D) /\ key \in D /\ key = pending[1]
      /\ Len(pending) \in Nat \ {0} /\ DOMAIN pending = 1 .. Len(pending)
  BY <1>2, HeadTailProperties, LenProperties, EmptySeq DEF IInv, TypeOK
<1>4. /\ rows \in Seq([Letter -> OutCells]) /\ Len(rows) \in Nat
      /\ stateIndex \in [D -> Nat] /\ IsFiniteSet(D) /\ key \in ReachedKeys(problem)
  BY <1>3, LenProperties DEF IInv, TypeOK, StoredKeys
<1>5. IsFiniteSet(new) /\ new \cap D = {}
  BY <1>2, <1>4, ProblemsWellFormed, SuccessorsReached, FS_Difference
<1>6. /\ stateIndex[key] = Len(rows)
      /\ Cardinality(D) = Len(rows) + Len(pending)
  BY <1>2, <1>3, <1>4 DEF IInv, IndexIsDequeueOrder
<1>7. /\ stateIndex' \in [D \cup new -> Nat] /\ Cardinality(new) \in Nat
      /\ \A x \in D : stateIndex'[x] = stateIndex[x]
      /\ \A n \in 1 .. Cardinality(new) : stateIndex'[ns[n]] = Cardinality(D) + n - 1
  <2>1. new \cap D = {}
    OBVIOUS
  <2> HIDE DEF D, new
  <2> DEFINE index == stateIndex
  <2> HIDE DEF index
  <2>2. IsFiniteSet(D) /\ index \in [D -> Nat] /\ IsFiniteSet(new) /\ ns \in Orders(new)
    BY <1>4, <1>5 DEF index
  <2>3. /\ Intern(index, ns) \in [D \cup new -> Nat]
        /\ IsFiniteSet(D \cup new)
        /\ Cardinality(D) \in Nat /\ Cardinality(new) \in Nat
        /\ Cardinality(D \cup new) = Cardinality(D) + Cardinality(new)
        /\ \A x \in D : Intern(index, ns)[x] = index[x]
        /\ \A n \in 1 .. Cardinality(new) : Intern(index, ns)[ns[n]] = Cardinality(D) + n - 1
    BY <2>1, <2>2, InternProperties DEF Interned
  <2> QED
    BY <1>1, <2>3 DEF index
<1>8. \A x \in new : \E n \in 1 .. Cardinality(new) : ns[n] = x
  <2> HIDE DEF new
  <2> QED
    BY <1>5, OrdersEnumerate
<1>9. DOMAIN stateIndex' = D \cup Successors(problem, key)
  BY <1>7
<1>10. ASSUME NEW x \in new
       PROVE  stateIndex'[x] \in Nat /\ stateIndex'[x] > Len(rows)
  <2> HIDE DEF new, D
  <2>1. PICK n \in 1 .. Cardinality(new) : ns[n] = x
    BY <1>8
  <2> QED
    BY <1>3, <1>4, <1>6, <1>7, <2>1
<1>11. row \in [Letter -> OutCells]
  <2>1. WellFormed(problem) /\ Successors(problem, key) \subseteq D \cup new
    BY <1>2, ProblemsWellFormed
  <2> HIDE DEF D, new, key
  <2> QED
    BY <1>4, <1>7, <2>1, RowType
<1>12. /\ Len(rows') = Len(rows) + 1
       /\ \A n \in 1 .. Len(rows) : rows'[n] = rows[n]
       /\ rows'[Len(rows) + 1] = row
  <2> HIDE DEF row
  <2> QED
    BY <1>1, <1>4, <1>11, AppendProperties, LenProperties
<1>13. \A x \in D : stateIndex'[x] = stateIndex[x] /\ stateIndex[x] \in Nat
  BY <1>4, <1>7
<1>14. \A x \in DOMAIN stateIndex' \ D : stateIndex'[x] \in Nat /\ stateIndex'[x] > Len(rows)
  BY <1>9, <1>10
<1> QED
  BY <1>3, <1>4, <1>6, <1>9, <1>12, <1>13, <1>14

\* A row does not change when more keys are interned.
LEMMA RowOfExtends ==
  ASSUME NEW p, NEW key, NEW index, NEW more,
         \A k \in Successors(p, key) : index[k] = more[k]
  PROVE  RowOf(p, key, index) = RowOf(p, key, more)
<1>1. ASSUME NEW l \in Masked(p, key)
      PROVE  Relabel(p, key, l, index) = Relabel(p, key, l, more)
  <2>1. CASE key.row[l].kind = "next"
    <3> DEFINE k == KeyOf(p, key.row[l].psi, Delta(p, key.q, l))
    <3>1. k \in Successors(p, key)
      BY <2>1 DEF Successors
    <3>2. index[k] = more[k]
      BY <3>1
    <3> QED
      BY <3>2 DEF Relabel
  <2>2. CASE key.row[l].kind # "next"
    BY <2>2 DEF Relabel
  <2> QED
    BY <2>1, <2>2
<1> QED
  BY <1>1 DEF RowOf

LEMMA ExpandGame == IInv /\ GameInv /\ Expand => GameInv'
<1> SUFFICES ASSUME IInv, GameInv, Expand PROVE GameInv'
  OBVIOUS
<1> DEFINE D == DOMAIN stateIndex
           key == Head(pending)
<1>1. /\ problem' = problem /\ online' = online /\ phase = "build" /\ phase' = "build"
      /\ result' = result /\ decided' = IF online THEN Verdict(rows') ELSE "none"
  BY DEF Expand
<1>2. /\ key \in D /\ stateIndex[key] = Len(rows)
      /\ DOMAIN stateIndex' = D \cup Successors(problem, key)
      /\ \A x \in D : stateIndex'[x] = stateIndex[x] /\ stateIndex[x] \in Nat
      /\ \A x \in DOMAIN stateIndex' \ D : stateIndex'[x] \in Nat /\ stateIndex'[x] > Len(rows)
      /\ Len(rows) \in Nat /\ Len(rows') = Len(rows) + 1
      /\ \A n \in 1 .. Len(rows) : rows'[n] = rows[n]
      /\ rows'[Len(rows) + 1] = RowOf(problem, key, stateIndex')
  BY ExpandExtends
<1>3. ASSUME NEW k \in DOMAIN stateIndex', stateIndex'[k] < Len(rows')
      PROVE  /\ Successors(problem, k) \subseteq DOMAIN stateIndex'
             /\ rows'[stateIndex'[k] + 1] = RowOf(problem, k, stateIndex')
  <2> HIDE DEF key
  <2>1. k \in D
    BY <1>2, <1>3
  <2>2. CASE stateIndex[k] < Len(rows)
    <3>1. /\ Successors(problem, k) \subseteq D
          /\ rows[stateIndex[k] + 1] = RowOf(problem, k, stateIndex)
      BY <1>1, <2>1, <2>2 DEF GameInv, RowsOfKeys, FedRows
    <3>2. RowOf(problem, k, stateIndex) = RowOf(problem, k, stateIndex')
      BY <1>2, <3>1, RowOfExtends
    <3>3. rows'[stateIndex[k] + 1] = rows[stateIndex[k] + 1]
      BY <1>2, <2>1, <2>2
    <3> QED
      BY <1>2, <2>1, <3>1, <3>2, <3>3
  <2>3. CASE ~ (stateIndex[k] < Len(rows))
    <3>1. stateIndex[k] = stateIndex[key]
      BY <1>2, <1>3, <2>1, <2>3
    <3>2. k = key
      BY <1>1, <1>2, <2>1, <3>1 DEF IInv, IndexIsDequeueOrder, IsInjective
    <3> QED
      BY <1>2, <3>2
  <2> QED
    BY <2>2, <2>3
<1>4. RowsOfKeys'
  <2>1. InitialKey(problem) \in D /\ stateIndex[InitialKey(problem)] = 0
    BY <1>1 DEF GameInv, RowsOfKeys
  <2> QED
    BY <1>1, <1>2, <1>3, <2>1 DEF RowsOfKeys, FedRows
<1>5. VerdictIsCurrent'
  BY <1>1 DEF VerdictIsCurrent
<1> QED
  BY <1>1, <1>4, <1>5 DEF GameInv, AnswerKnown

\* The loop ends with a verdict, or with a row for every key.
LEMMA FinishGame == IInv /\ GameInv /\ FinishBuild => GameInv'
<1> SUFFICES ASSUME IInv, GameInv, FinishBuild PROVE GameInv'
  OBVIOUS
<1>1. /\ phase = "build" /\ phase' = "built" /\ LoopEnds
      /\ rows' = Pad(rows, Cardinality(DOMAIN stateIndex))
      /\ UNCHANGED <<problem, online, stateIndex, pending, decided, result>>
  BY DEF FinishBuild
<1>2. /\ WellFormed(problem) /\ Len(rows) \in Nat /\ rows \in Seq([Letter -> OutCells])
      /\ \A k \in DOMAIN stateIndex : stateIndex[k] \in Nat
  BY ProblemsWellFormed, LenProperties DEF IInv, TypeOK
<1>3. decided # "none" => (decided = "win" <=> SystemWins(problem))
  <2>1. EarlyVerdictSound
    BY VerdictSound DEF GameInv
  <2> QED
    BY <1>1, <2>1 DEF EarlyVerdictSound
<1>4. ASSUME decided = "none"
      PROVE  (Realizable(rows) <=> SystemWins(problem)) /\ rows' = rows
  <2>1. pending = <<>>
    BY <1>1, <1>4 DEF LoopEnds
  <2>2. Len(pending) = 0 /\ DOMAIN pending = {}
    BY <2>1
  <2>3. \A k \in DOMAIN stateIndex : stateIndex[k] < Len(rows)
    BY <1>1, <2>2 DEF IInv, IndexIsDequeueOrder
  <2>4. Cardinality(DOMAIN stateIndex) = Len(rows)
    BY <1>1, <1>2, <2>2 DEF IInv, IndexIsDequeueOrder
  <2>5. rows' = rows
    <3>1. /\ rows' \in Seq([Letter -> OutCells])
          /\ Len(rows') = Len(rows)
          /\ \A m \in 1 .. Len(rows) : rows'[m] = rows[m]
      BY <1>1, <1>2, <2>4, PadProperties
    <3> QED
      BY <1>2, <3>1, SeqEqual
  <2>6. Realizable(rows) <=> SystemWins(problem)
    BY <1>1, <1>2, <2>3, WinOnRowsIsWin, WinIsWinOnRows DEF GameInv, RowsOfKeys, Realizable
  <2> QED
    BY <2>5, <2>6
<1>5. ASSUME decided = "none", online
      PROVE  ~Realizable(rows)
  BY <1>1, <1>5 DEF GameInv, VerdictIsCurrent, Verdict, Realizable
<1>6. ~online => decided = "none"
  BY <1>1 DEF GameInv, VerdictIsCurrent
<1>7. AnswerKnown'
  BY <1>1, <1>3, <1>4, <1>5, <1>6 DEF AnswerKnown
<1> QED
  BY <1>1, <1>7 DEF GameInv, RowsOfKeys, VerdictIsCurrent

LEMMA NextGame == IInv /\ GameInv /\ [Next]_vars => GameInv'
<1> SUFFICES ASSUME IInv, GameInv, [Next]_vars PROVE GameInv'
  OBVIOUS
<1>1. CASE TooManyTaus \/ ThrowNondeterministic \/ SolveFused \/ SolveBuilt
  BY <1>1 DEF GameInv, RowsOfKeys, VerdictIsCurrent, AnswerKnown,
     TooManyTaus, ThrowNondeterministic, SolveFused, SolveBuilt
<1>2. CASE UNCHANGED vars
  BY <1>2 DEF GameInv, RowsOfKeys, VerdictIsCurrent, AnswerKnown, vars
<1> QED
  BY <1>1, <1>2, SeedGame, ExpandGame, FinishGame DEF Next

\* At every moment of the build each row is the move table of its key, and the
\* verdict on record is the winner of the reference game.
THEOREM GameOfTheRows == Spec => []GameInv
<1>1. Init => GameInv
  BY DEF Init, GameInv, RowsOfKeys, VerdictIsCurrent, AnswerKnown
<1> QED
  BY <1>1, InductiveInvariant, NextGame, PTL DEF Spec

\* A game decided before the product is complete is decided as the whole game is.
THEOREM EarlyVerdictsHold == Spec => []EarlyVerdictSound
<1>1. IInv /\ GameInv => EarlyVerdictSound
  BY VerdictSound DEF GameInv
<1> QED
  BY <1>1, InductiveInvariant, GameOfTheRows, PTL

-----------------------------------------------------------------------------
(* The product and its solvers implement the contract of a synthesis method. *)

\* The contract's game is the game of this module.
LEMMA ContractGame ==
  ASSUME NEW p
  PROVE  Contract!SystemWins(p) = SystemWins(p)
BY DEF SystemWins, Positions, Vectors, Stops, Moves, Agreeing, Emitted, DeltaDefined, Matching,
   Delta, First, InitialPosition, InitialVector, TrueCell, NextCell, Letter,
   Contract!SystemWins, Contract!Positions, Contract!Vectors, Contract!Stops, Contract!Moves,
   Contract!Agreeing, Contract!Emitted, Contract!DeltaDefined, Contract!Matching, Contract!Delta,
   Contract!First, Contract!InitialPosition, Contract!InitialVector, Contract!TrueCell,
   Contract!NextCell, Contract!Letter

LEMMA ContractInput ==
  ASSUME NEW p
  PROVE  Contract!WellFormed(p) = WellFormed(p)
BY DEF WellFormed, IsTransducer, Transducers, Cells, FalseCell, TrueCell, NextCell, Letter,
   Contract!WellFormed, Contract!IsTransducer, Contract!Transducers, Contract!Cells,
   Contract!FalseCell, Contract!TrueCell, Contract!NextCell, Contract!Letter

LEMMA ContractAnswers ==
  ASSUME NEW p
  PROVE  /\ SystemWins(p) => "controller" \in Contract!Answers(p)
         /\ ~SystemWins(p) => "unrealizable" \in Contract!Answers(p)
         /\ Len(p.taus) > MaxTaus => "invalid_argument" \in Contract!Answers(p)
         /\ \A t \in DOMAIN p.taus : \A s \in p.taus[t].states :
              Overlap(p.taus[t], s) => "runtime_error" \in Contract!Answers(p)
<1>1. Contract!SystemWins(p) = SystemWins(p)
  BY ContractGame
<1>2. \A tau, s : Contract!Overlap(tau, s) = Overlap(tau, s)
  BY DEF Overlap, Contract!Overlap
<1> QED
  BY <1>1, <1>2 DEF Contract!Answers

\* Only a transducer whose delta is non-deterministic makes the build throw.
LEMMA ThrowAnswers == IInv /\ GameInv /\ ThrowNondeterministic => Contract!Answer
<1> SUFFICES ASSUME IInv, GameInv, ThrowNondeterministic PROVE Contract!Answer
  OBVIOUS
<1> DEFINE key == Head(pending)
<1>1. /\ phase = "build" /\ pending # <<>> /\ Nondeterministic(problem, key.q)
      /\ result' = "runtime_error" /\ problem' = problem
  BY DEF ThrowNondeterministic, Rejects
<1>2. key \in Keys(problem)
  BY <1>1, HeadTailProperties DEF IInv, TypeOK
<1>3. key.q \in Vectors(problem)
  BY <1>2 DEF Keys
<1>4. PICK t \in DOMAIN problem.taus : Overlap(problem.taus[t], key.q[t])
  BY <1>1 DEF Nondeterministic
<1>5. key.q[t] \in problem.taus[t].states
  BY <1>3, <1>4 DEF Vectors
<1>6. "runtime_error" \in Contract!Answers(problem)
  BY <1>4, <1>5, ContractAnswers
<1> QED
  BY <1>1, <1>6 DEF GameInv, Contract!Answer

LEMMA TooManyAnswers == GameInv /\ TooManyTaus => Contract!Answer
<1> SUFFICES ASSUME GameInv, TooManyTaus PROVE Contract!Answer
  OBVIOUS
<1>1. "invalid_argument" \in Contract!Answers(problem)
  BY ContractAnswers DEF TooManyTaus
<1> QED
  BY <1>1 DEF GameInv, TooManyTaus, Contract!Answer

LEMMA SolveAnswers == IInv /\ GameInv /\ (SolveFused \/ SolveBuilt) => Contract!Answer
<1> SUFFICES ASSUME IInv, GameInv, SolveFused \/ SolveBuilt PROVE Contract!Answer
  OBVIOUS
<1>1. /\ phase = "built" /\ problem' = problem
      /\ result = "none" /\ decided \in {"none", "win", "lose"}
  BY DEF SolveFused, SolveBuilt, IInv, TypeOK, GameInv
<1>2. \/ SystemWins(problem) /\ result' = "controller"
      \/ ~SystemWins(problem) /\ result' = "unrealizable"
  <2>1. CASE SolveFused
    <3>1. online /\ result' = IF decided = "win" /\ Realizable(rows) THEN "controller" ELSE "unrealizable"
      BY <2>1 DEF SolveFused
    <3>2. CASE decided = "win"
      BY <1>1, <3>1, <3>2 DEF GameInv, AnswerKnown, IInv, WinSurvivesPadding
    <3>3. CASE decided = "lose"
      BY <1>1, <3>1, <3>3 DEF GameInv, AnswerKnown
    <3>4. CASE decided = "none"
      BY <1>1, <3>1, <3>4 DEF GameInv, AnswerKnown
    <3> QED
      BY <1>1, <3>2, <3>3, <3>4
  <2>2. CASE SolveBuilt
    <3>1. ~online /\ result' = IF Realizable(rows) THEN "controller" ELSE "unrealizable"
      BY <2>2 DEF SolveBuilt
    <3> QED
      BY <1>1, <3>1 DEF GameInv, AnswerKnown
  <2> QED
    BY <2>1, <2>2
<1>3. result' \in Contract!Answers(problem)
  BY <1>2, ContractAnswers
<1>4. result' # "none"
  BY <1>2
<1> QED
  BY <1>1, <1>3, <1>4 DEF Contract!Answer

\* The build steps of the product change neither the arguments nor the answer.
LEMMA BuildStutters ==
  Seed \/ Expand \/ FinishBuild \/ UNCHANGED vars => UNCHANGED <<problem, result>>
BY DEF Seed, Expand, FinishBuild, vars

\* Solving online and solving the finished product give one answer each, and a
\* controller exactly when the system wins the reference game.
THEOREM OtfImplementsContract == Spec => ImplementsContract
<1>1. Init => Contract!Init
  BY ProblemsWellFormed, ContractInput DEF Init, Contract!Init
<1>2. IInv /\ GameInv /\ [Next]_vars => [Contract!Answer]_<<problem, result>>
  BY ThrowAnswers, TooManyAnswers, SolveAnswers, BuildStutters DEF Next
<1> QED
  BY <1>1, <1>2, InductiveInvariant, GameOfTheRows, PTL DEF Spec, ImplementsContract, Contract!Spec

===============================================================================
