---------------------------- MODULE Method1_proofs ----------------------------
(***************************************************************************)
(* Proofs about Method 1, for every problem whose goal comes with its NFA and *)
(* every order of discovery: both forms answer as the contract of a synthesis *)
(* method says, the fused product has exactly the reachable positions, and    *)
(* the determinized product keeps every letter that the knowledge allows.     *)
(* And about its front end, for all formulas: the NFA it builds accepts the   *)
(* words that satisfy the goal, and it leaves no file behind.                *)
(***************************************************************************)
EXTENDS NfaMethods, SynthesisProblem_proofs

-----------------------------------------------------------------------------
(* Method1 takes MtnfaProduct under the name Mtnfa, with its own copies of the *)
(* operators it shares with NfaProduct.                                     *)

LEMMA MtnfaVocabulary ==
  /\ Mtnfa!Letter = Letter /\ Mtnfa!FalseCell = FalseCell
  /\ \A p : Mtnfa!InitialVector(p) = InitialVector(p)
  /\ \A p : Mtnfa!Reachable(p) = Reachable(p)
  /\ \A p, q : Mtnfa!Agreeing(p, q) = Agreeing(p, q)
  /\ \A p, q, l : Mtnfa!Delta(p, q, l) = Delta(p, q, l)
  /\ \A p, q : Mtnfa!Nondeterministic(p, q) <=> Nondeterministic(p, q)
  /\ \A nfa, S, l : Mtnfa!NfaSuccessors(nfa, S, l) = NfaSuccessors(nfa, S, l)
  /\ \A nfa, S : Mtnfa!SomeAccepting(nfa, S) <=> SomeAccepting(nfa, S)
  /\ \A S : Mtnfa!Orders(S) = Orders(S)
  /\ \A index, ns : Mtnfa!Intern(index, ns) = Intern(index, ns)
  /\ \A rs : Mtnfa!Winning(rs) = Winning(rs)
<1>1. Mtnfa!Letter = Letter /\ Mtnfa!FalseCell = FalseCell
  BY DEF Mtnfa!Letter, Letter, Mtnfa!FalseCell, FalseCell
<1>2. \A p : Mtnfa!InitialVector(p) = InitialVector(p)
  BY DEF Mtnfa!InitialVector, InitialVector
<1>3. \A p : Mtnfa!Reachable(p) = Reachable(p)
  BY DEF Mtnfa!Reachable, Reachable, Mtnfa!Positions, Positions, Mtnfa!Vectors, Vectors, Mtnfa!InitialPosition, InitialPosition,
     Mtnfa!InitialVector, InitialVector, Mtnfa!Moves, Moves, Mtnfa!Agreeing, Agreeing, Mtnfa!Emitted, Emitted,
     Mtnfa!DeltaDefined, DeltaDefined, Mtnfa!Matching, Matching, Mtnfa!Delta, Delta, Mtnfa!First, First, Mtnfa!Letter, Letter
<1>4. \A p, q : Mtnfa!Agreeing(p, q) = Agreeing(p, q)
  BY DEF Mtnfa!Agreeing, Agreeing, Mtnfa!Emitted, Emitted, Mtnfa!DeltaDefined, DeltaDefined,
     Mtnfa!Matching, Matching, Mtnfa!Letter, Letter
<1>5. \A p, q, l : Mtnfa!Delta(p, q, l) = Delta(p, q, l)
  BY DEF Mtnfa!Delta, Delta, Mtnfa!First, First, Mtnfa!Matching, Matching
<1>6. \A p, q : Mtnfa!Nondeterministic(p, q) <=> Nondeterministic(p, q)
  BY DEF Mtnfa!Nondeterministic, Nondeterministic, Mtnfa!Overlap, Overlap
<1>7. \A nfa, S, l : Mtnfa!NfaSuccessors(nfa, S, l) = NfaSuccessors(nfa, S, l)
  BY DEF Mtnfa!NfaSuccessors, NfaSuccessors
<1>8. \A nfa, S : Mtnfa!SomeAccepting(nfa, S) <=> SomeAccepting(nfa, S)
  BY DEF Mtnfa!SomeAccepting, SomeAccepting, Mtnfa!StateIsAccepting, StateIsAccepting
<1>9. \A S : Mtnfa!Orders(S) = Orders(S)
  BY DEF Mtnfa!Orders, Orders, Mtnfa!IsInjective, IsInjective, Mtnfa!Cardinality, Cardinality
<1>10. \A index, ns : Mtnfa!Intern(index, ns) = Intern(index, ns)
  BY DEF Mtnfa!Intern, Intern, Mtnfa!Range, Range, Mtnfa!Cardinality, Cardinality
<1>11. \A rs : Mtnfa!Winning(rs) = Winning(rs)
  BY DEF Mtnfa!Winning, Winning, Mtnfa!WonWithin, WonWithin, Mtnfa!RowWon, RowWon, Mtnfa!CellWon, CellWon,
     Mtnfa!Letter, Letter, Mtnfa!Cardinality, Cardinality
<1> QED
  BY <1>1, <1>2, <1>3, <1>4, <1>5, <1>6, <1>7, <1>8, <1>9, <1>10, <1>11

-----------------------------------------------------------------------------
(* The goal's NFA and its progression.                                      *)

\* The residuals of a goal with the NFA nfa.
Residuals(nfa, init) == {{init}} \cup ((SUBSET (DOMAIN nfa \ {init})) \ {{}})

LEMMA NfaProblemMeans ==
  ASSUME NEW formula, NEW nfa, NEW init, NEW taus, NEW p, p = NfaProblem(formula, nfa, init, taus)
  PROVE  /\ p.formulas = Residuals(nfa, init) /\ p.phi = {init}
         /\ p.progress = [S \in Residuals(nfa, init) |-> ResidualRow(nfa, S)]
BY DEF NfaProblem, Residuals

LEMMA GoalNfa ==
  ASSUME NEW p \in Problems
  PROVE  /\ WellFormed(p) /\ IsNfa(p.nfa) /\ p.init \in DOMAIN p.nfa /\ ~StateIsAccepting(p.nfa[p.init])
         /\ p.formulas = Residuals(p.nfa, p.init) /\ p.phi = {p.init}
         /\ \A S \in p.formulas : p.progress[S] = ResidualRow(p.nfa, S)
<1>1. WellFormed(p) /\ NfaWellFormed(p)
  BY ProblemsWellFormed, GoalsAreNfas
<1>2. p = NfaProblem(p.goal, p.nfa, p.init, p.taus)
  BY <1>1 DEF NfaWellFormed
<1> DEFINE formula == p.goal
           nfa == p.nfa
           init == p.init
           taus == p.taus
<1> HIDE DEF formula, nfa, init, taus
<1>3. p = NfaProblem(formula, nfa, init, taus)
  BY <1>2 DEF formula, nfa, init, taus
<1>4. /\ p.formulas = Residuals(nfa, init) /\ p.phi = {init}
      /\ p.progress = [S \in Residuals(nfa, init) |-> ResidualRow(nfa, S)]
  BY <1>3, NfaProblemMeans
<1>5. \A S \in p.formulas : p.progress[S] = ResidualRow(nfa, S)
  BY <1>4
<1> QED
  BY <1>1, <1>4, <1>5 DEF NfaWellFormed, nfa, init

\* Reading a letter in a set of states of the NFA is what the progression of the
\* set says: it is lost when no state is left, and else the set of the successors
\* is next, where the system may stop when one of them accepts.
LEMMA NfaProgress ==
  ASSUME NEW p \in Problems, NEW S \in p.formulas, NEW l \in Letter
  PROVE  LET T == NfaSuccessors(p.nfa, S, l)
         IN  /\ T = {} => p.progress[S][l] = FalseCell /\ p.progress[S][l].kind # "next" /\ p.progress[S][l] # TrueCell
             /\ T # {} => /\ p.progress[S][l].kind = "next" /\ p.progress[S][l].psi = T /\ T \in p.formulas
                          /\ p.progress[S][l].last = TRUE <=> SomeAccepting(p.nfa, T)
                          /\ p.progress[S][l] # TrueCell
<1> DEFINE T == NfaSuccessors(p.nfa, S, l)
           c == p.progress[S][l]
<1>1. WellFormed(p)
  BY GoalNfa
<1>2. p.progress[S] = ResidualRow(p.nfa, S)
  BY GoalNfa
<1>3. c = IF T = {} THEN FalseCell ELSE NextCell(T, SomeAccepting(p.nfa, T))
  BY <1>2 DEF ResidualRow
<1>4. CASE T = {}
  <2>1. c = FalseCell
    BY <1>3, <1>4
  <2>2. FalseCell.kind # "next" /\ FalseCell.kind # TrueCell.kind
    BY DEF FalseCell, TrueCell
  <2> QED
    BY <1>4, <2>1, <2>2
<1>5. CASE T # {}
  <2> DEFINE b == SomeAccepting(p.nfa, T)
  <2>1. c = NextCell(T, b)
    BY <1>3, <1>5
  <2>2. b \in BOOLEAN
    BY DEF SomeAccepting
  <2>3. b = TRUE <=> b
    BY <2>2
  <2> HIDE DEF b, T, c
  <2>4. c.kind = "next" /\ c.psi = T /\ c.last = b
    BY <2>1 DEF NextCell
  <2>5. TrueCell.kind # "next"
    BY DEF TrueCell
  <2>6. T \in p.formulas
    BY <1>1, <2>4, NextFormula DEF c
  <2>7. c.last = TRUE <=> b
    BY <2>3, <2>4
  <2> QED
    BY <1>5, <2>4, <2>5, <2>6, <2>7 DEF b, c, T
<1> QED
  BY <1>4, <1>5

\* The choices of a position of the reference game, in terms of the NFA.
LEMMA GoalPosition ==
  ASSUME NEW p \in Problems, NEW psi \in p.formulas, NEW q \in Vectors(p)
  PROVE  /\ <<psi, q>> \in Positions(p)
         /\ \A i : Stops(p, <<psi, q>>, i) <=>
              \E l \in Agreeing(p, q) :
                /\ l.i = i /\ NfaSuccessors(p.nfa, psi, l) # {}
                /\ SomeAccepting(p.nfa, NfaSuccessors(p.nfa, psi, l))
         /\ \A i, r : r \in Moves(p, <<psi, q>>, i) <=>
              \E l \in Agreeing(p, q) :
                /\ l.i = i /\ NfaSuccessors(p.nfa, psi, l) # {}
                /\ r = <<NfaSuccessors(p.nfa, psi, l), Delta(p, q, l)>>
<1> DEFINE c(l) == p.progress[psi][l]
           T(l) == NfaSuccessors(p.nfa, psi, l)
           Goes(l) == T(l) # {}
           RowAccepts(l) == SomeAccepting(p.nfa, T(l))
<1>1. WellFormed(p) /\ Agreeing(p, q) \subseteq Letter
  BY GoalNfa DEF Agreeing, Emitted
<1>2. ASSUME NEW l \in Agreeing(p, q)
      PROVE  /\ Goes(l) <=> c(l).kind = "next"
             /\ Goes(l) => (RowAccepts(l) <=> c(l).last = TRUE) /\ c(l).psi = T(l)
             /\ c(l) # TrueCell
  <2> DEFINE X == T(l)
             cell == c(l)
  <2>1. l \in Letter
    BY <1>1
  <2>2. /\ X = {} => cell = FalseCell /\ cell.kind # "next" /\ cell # TrueCell
        /\ X # {} => /\ cell.kind = "next" /\ cell # TrueCell /\ cell.psi = X
                     /\ cell.last = TRUE <=> SomeAccepting(p.nfa, X)
    BY <2>1, NfaProgress
  <2>3. CASE X = {}
    BY <2>2, <2>3
  <2>4. CASE X # {}
    BY <2>2, <2>4
  <2> QED
    BY <2>3, <2>4
<1>3. /\ <<psi, q>> \in Positions(p)
      /\ \A i : Stops(p, <<psi, q>>, i) <=>
           \E l \in Agreeing(p, q) :
             /\ l.i = i
             /\ \/ p.progress[psi][l] = TrueCell
                \/ p.progress[psi][l].kind = "next" /\ p.progress[psi][l].last = TRUE
      /\ \A i, r : r \in Moves(p, <<psi, q>>, i) <=>
           \E l \in Agreeing(p, q) :
             l.i = i /\ p.progress[psi][l].kind = "next" /\ r = <<p.progress[psi][l].psi, Delta(p, q, l)>>
  BY <1>1, PositionMeans
<1> HIDE DEF Goes, RowAccepts, T
<1>4. \A i : Stops(p, <<psi, q>>, i) <=> \E l \in Agreeing(p, q) : l.i = i /\ Goes(l) /\ RowAccepts(l)
  BY <1>2, <1>3
<1>5. \A i, r : r \in Moves(p, <<psi, q>>, i) <=>
        \E l \in Agreeing(p, q) : l.i = i /\ Goes(l) /\ r = <<T(l), Delta(p, q, l)>>
  <2>1. \A l \in Agreeing(p, q) : Goes(l) <=> p.progress[psi][l].kind = "next"
    BY <1>2
  <2>2. \A l \in Agreeing(p, q) : Goes(l) => <<T(l), Delta(p, q, l)>> = <<p.progress[psi][l].psi, Delta(p, q, l)>>
    BY <1>2
  <2>3. \A i, r : r \in Moves(p, <<psi, q>>, i) <=>
          \E l \in Agreeing(p, q) :
            l.i = i /\ p.progress[psi][l].kind = "next" /\ r = <<p.progress[psi][l].psi, Delta(p, q, l)>>
    BY <1>3
  <2> QED
    BY <2>1, <2>2, <2>3
<1> QED
  BY <1>3, <1>4, <1>5 DEF Goes, RowAccepts, T

-----------------------------------------------------------------------------
(* The table of the fused construction.                                     *)

\* A fused state that an agreeing word leads to.
FusedKeys(p) == {Mtnfa!Key(s[1], s[2]) : s \in Reachable(p)}

\* Where a letter leads from a fused state.
FusedNext(p, key, l) == Mtnfa!Key(NfaSuccessors(p.nfa, key.S, l), Delta(p, key.q, l))

\* Its leaf.
FusedCell(p, key, l, index) ==
  StateCell(index[FusedNext(p, key, l)], SomeAccepting(p.nfa, NfaSuccessors(p.nfa, key.S, l)))

LEMMA FusedVocabulary ==
  /\ \A S, q : Mtnfa!Key(S, q) = [S |-> S, q |-> q]
  /\ \A p : Mtnfa!InitialKey(p) = Mtnfa!Key({p.init}, InitialVector(p))
  /\ \A p, key : Mtnfa!Successors(p, key) =
       {FusedNext(p, key, l) : l \in {m \in Agreeing(p, key.q) : NfaSuccessors(p.nfa, key.S, m) # {}}}
  /\ \A p, key, index : \A l \in Agreeing(p, key.q) :
       /\ NfaSuccessors(p.nfa, key.S, l) = {} => Mtnfa!RowOf(p, key, index)[l] = FalseCell
       /\ NfaSuccessors(p.nfa, key.S, l) # {} =>
            Mtnfa!RowOf(p, key, index)[l] = FusedCell(p, key, l, index)
  /\ \A p, key, index : \A l \in Letter \ Agreeing(p, key.q) : Mtnfa!RowOf(p, key, index)[l] = FalseCell
  /\ \A p, key, index : Mtnfa!RowOf(p, key, index) = [l \in Letter |-> Mtnfa!RowOf(p, key, index)[l]]
<1>1. \A p : Mtnfa!InitialKey(p) = Mtnfa!Key({p.init}, InitialVector(p))
  BY MtnfaVocabulary DEF Mtnfa!InitialKey
<1>2. \A p, key : Mtnfa!Masked(p, key) = Agreeing(p, key.q)
  BY MtnfaVocabulary DEF Mtnfa!Masked
<1>3. \A p, S, l : Mtnfa!RowSet(p, S, l) = NfaSuccessors(p.nfa, S, l)
  BY MtnfaVocabulary DEF Mtnfa!RowSet
<1>4. \A p, key : Mtnfa!Successors(p, key) =
        {FusedNext(p, key, l) : l \in {m \in Agreeing(p, key.q) : NfaSuccessors(p.nfa, key.S, m) # {}}}
  <2> SUFFICES ASSUME NEW p, NEW key
               PROVE  Mtnfa!Successors(p, key) =
                        {FusedNext(p, key, l) : l \in {m \in Agreeing(p, key.q) : NfaSuccessors(p.nfa, key.S, m) # {}}}
    OBVIOUS
  <2>1. \A l : Mtnfa!Key(Mtnfa!RowSet(p, key.S, l), Mtnfa!Delta(p, key.q, l)) = FusedNext(p, key, l)
    BY <1>3, MtnfaVocabulary DEF FusedNext
  <2>2. {m \in Mtnfa!Masked(p, key) : Mtnfa!RowSet(p, key.S, m) # {}}
          = {m \in Agreeing(p, key.q) : NfaSuccessors(p.nfa, key.S, m) # {}}
    BY <1>2, <1>3
  <2> QED
    BY <2>1, <2>2 DEF Mtnfa!Successors
<1>5. \A p, key, index : Mtnfa!RowOf(p, key, index) =
        [l \in Letter |-> IF l \in Agreeing(p, key.q) THEN Mtnfa!Relabel(p, key, l, index) ELSE FalseCell]
  BY <1>2, MtnfaVocabulary DEF Mtnfa!RowOf
<1>6. \A p, key, l, index :
        /\ NfaSuccessors(p.nfa, key.S, l) = {} => Mtnfa!Relabel(p, key, l, index) = FalseCell
        /\ NfaSuccessors(p.nfa, key.S, l) # {} =>
             Mtnfa!Relabel(p, key, l, index) = FusedCell(p, key, l, index)
  <2> SUFFICES ASSUME NEW p, NEW key, NEW l, NEW index
               PROVE  /\ NfaSuccessors(p.nfa, key.S, l) = {} => Mtnfa!Relabel(p, key, l, index) = FalseCell
                      /\ NfaSuccessors(p.nfa, key.S, l) # {} =>
                           Mtnfa!Relabel(p, key, l, index) = FusedCell(p, key, l, index)
    OBVIOUS
  <2> DEFINE T == NfaSuccessors(p.nfa, key.S, l)
             a == SomeAccepting(p.nfa, T)
             b == Mtnfa!SomeAccepting(p.nfa, T)
  <2>1. Mtnfa!Key(T, Mtnfa!Delta(p, key.q, l)) = FusedNext(p, key, l)
    BY MtnfaVocabulary DEF FusedNext
  <2>2. a = b
    BY MtnfaVocabulary DEF SomeAccepting, Mtnfa!SomeAccepting
  <2>3. Mtnfa!RowSet(p, key.S, l) = T
    BY <1>3
  <2>4. /\ T = {} => Mtnfa!Relabel(p, key, l, index) = Mtnfa!FalseCell
        /\ T # {} => Mtnfa!Relabel(p, key, l, index) = Mtnfa!StateCell(index[Mtnfa!Key(T, Mtnfa!Delta(p, key.q, l))], b)
    <3> HIDE DEF T
    <3> QED
      BY <2>3 DEF Mtnfa!Relabel
  <2> HIDE DEF a, b, T
  <2>5. \A j : Mtnfa!StateCell(j, b) = StateCell(j, a)
    BY <2>2 DEF Mtnfa!StateCell, StateCell
  <2>6. /\ T = {} => Mtnfa!Relabel(p, key, l, index) = FalseCell
        /\ T # {} => Mtnfa!Relabel(p, key, l, index) = StateCell(index[FusedNext(p, key, l)], a)
    BY <2>1, <2>4, <2>5, MtnfaVocabulary
  <2> QED
    BY <2>6 DEF a, T, FusedCell
<1>7. \A p, q : Agreeing(p, q) \subseteq Letter
  BY DEF Agreeing, Emitted
<1>8. \A p, key, index : \A l \in Agreeing(p, key.q) : Mtnfa!RowOf(p, key, index)[l] = Mtnfa!Relabel(p, key, l, index)
  BY <1>5, <1>7
<1>9. \A p, key, index : \A l \in Letter \ Agreeing(p, key.q) : Mtnfa!RowOf(p, key, index)[l] = FalseCell
  BY <1>5
<1>10. \A p, key, index : Mtnfa!RowOf(p, key, index) = [l \in Letter |-> Mtnfa!RowOf(p, key, index)[l]]
  BY <1>5
<1>11. \A S, q : Mtnfa!Key(S, q) = [S |-> S, q |-> q]
  BY DEF Mtnfa!Key
<1>12. \A p, key, index : \A l \in Agreeing(p, key.q) :
         /\ NfaSuccessors(p.nfa, key.S, l) = {} => Mtnfa!RowOf(p, key, index)[l] = FalseCell
         /\ NfaSuccessors(p.nfa, key.S, l) # {} =>
              Mtnfa!RowOf(p, key, index)[l] = FusedCell(p, key, l, index)
  <2> SUFFICES ASSUME NEW p, NEW key, NEW index, NEW l \in Agreeing(p, key.q)
               PROVE  /\ NfaSuccessors(p.nfa, key.S, l) = {} => Mtnfa!RowOf(p, key, index)[l] = FalseCell
                      /\ NfaSuccessors(p.nfa, key.S, l) # {} =>
                           Mtnfa!RowOf(p, key, index)[l] = FusedCell(p, key, l, index)
    OBVIOUS
  <2>1. Mtnfa!RowOf(p, key, index)[l] = Mtnfa!Relabel(p, key, l, index)
    BY <1>8
  <2>2. /\ NfaSuccessors(p.nfa, key.S, l) = {} => Mtnfa!Relabel(p, key, l, index) = FalseCell
        /\ NfaSuccessors(p.nfa, key.S, l) # {} => Mtnfa!Relabel(p, key, l, index) = FusedCell(p, key, l, index)
    BY <1>6
  <2> QED
    BY <2>1, <2>2
<1> QED
  BY <1>1, <1>4, <1>9, <1>10, <1>11, <1>12

LEMMA FusedKeyMeans ==
  ASSUME NEW p \in Problems, NEW key \in FusedKeys(p)
  PROVE  /\ key.S \in p.formulas /\ key.q \in Vectors(p) /\ <<key.S, key.q>> \in Reachable(p)
         /\ key = Mtnfa!Key(key.S, key.q)
<1>1. PICK s \in Reachable(p) : key = Mtnfa!Key(s[1], s[2])
  BY DEF FusedKeys
<1>2. s \in p.formulas \X Vectors(p)
  BY DEF Reachable, Positions
<1>3. s = <<s[1], s[2]>> /\ s[1] \in p.formulas /\ s[2] \in Vectors(p)
  BY <1>2
<1>4. key = [S |-> s[1], q |-> s[2]]
  BY <1>1, FusedVocabulary
<1>5. key.S = s[1] /\ key.q = s[2]
  BY <1>4
<1> QED
  BY <1>1, <1>3, <1>5

LEMMA PositionIsKey ==
  ASSUME NEW p \in Problems, NEW S, NEW q, <<S, q>> \in Reachable(p)
  PROVE  Mtnfa!Key(S, q) \in FusedKeys(p)
<1> DEFINE s == <<S, q>>
<1>1. Mtnfa!Key(s[1], s[2]) \in FusedKeys(p)
  BY DEF FusedKeys
<1> QED
  BY <1>1

LEMMA InitialFused ==
  ASSUME NEW p \in Problems
  PROVE  Mtnfa!InitialKey(p) \in FusedKeys(p) /\ Mtnfa!InitialKey(p) = Mtnfa!Key(p.phi, InitialVector(p))
<1>1. WellFormed(p) /\ p.phi = {p.init}
  BY GoalNfa
<1>2. <<p.phi, InitialVector(p)>> \in Reachable(p)
  BY <1>1, InitialReachable DEF InitialPosition
<1>3. Mtnfa!InitialKey(p) = Mtnfa!Key(p.phi, InitialVector(p))
  BY <1>1, FusedVocabulary
<1> QED
  BY <1>2, <1>3, PositionIsKey

\* One round of the game from a fused state.
LEMMA FusedMove ==
  ASSUME NEW p \in Problems, NEW key \in FusedKeys(p), NEW l \in Agreeing(p, key.q),
         NfaSuccessors(p.nfa, key.S, l) # {}
  PROVE  /\ FusedNext(p, key, l) \in FusedKeys(p)
         /\ FusedNext(p, key, l).S = p.progress[key.S][l].psi
         /\ FusedNext(p, key, l).q = Delta(p, key.q, l)
<1> DEFINE T == NfaSuccessors(p.nfa, key.S, l)
           r == Delta(p, key.q, l)
           s == <<key.S, key.q>>
<1>1. key.S \in p.formulas /\ s \in Reachable(p) /\ WellFormed(p)
  BY FusedKeyMeans, GoalNfa
<1>2. l \in Letter
  BY DEF Agreeing, Emitted
<1>3. p.progress[key.S][l].kind = "next" /\ p.progress[key.S][l].psi = T
  BY <1>1, <1>2, NfaProgress
<1>4. <<T, r>> \in Reachable(p)
  <2>1. s[1] = key.S /\ s[2] = key.q
    OBVIOUS
  <2> HIDE DEF s, T, r
  <2>2. <<p.progress[s[1]][l].psi, Delta(p, s[2], l)>> \in Reachable(p)
    BY <1>1, <1>3, <2>1, ReachableClosed
  <2> QED
    BY <1>3, <2>1, <2>2 DEF r
<1>5. FusedNext(p, key, l) = Mtnfa!Key(T, r)
  BY DEF FusedNext
<1> HIDE DEF T, r
<1>6. FusedNext(p, key, l) = [S |-> T, q |-> r]
  BY <1>5, FusedVocabulary
<1>7. FusedNext(p, key, l).S = T /\ FusedNext(p, key, l).q = r
  BY <1>6
<1>8. FusedNext(p, key, l) \in FusedKeys(p)
  BY <1>4, <1>5, PositionIsKey
<1>9. r = Delta(p, key.q, l)
  BY DEF r
<1> QED
  BY <1>3, <1>7, <1>8, <1>9

\* What one expansion can intern is reached and finite.
LEMMA FusedSuccessors ==
  ASSUME NEW p \in Problems, NEW key \in FusedKeys(p)
  PROVE  /\ Mtnfa!Successors(p, key) \subseteq FusedKeys(p) /\ IsFiniteSet(Mtnfa!Successors(p, key))
         /\ \A l \in Agreeing(p, key.q) :
              NfaSuccessors(p.nfa, key.S, l) # {} => FusedNext(p, key, l) \in Mtnfa!Successors(p, key)
<1> DEFINE L == {m \in Agreeing(p, key.q) : NfaSuccessors(p.nfa, key.S, m) # {}}
           next == [l \in L |-> FusedNext(p, key, l)]
<1>1. Mtnfa!Successors(p, key) = {FusedNext(p, key, l) : l \in L}
  BY FusedVocabulary
<1>2. IsFiniteSet(L)
  <2>1. L \subseteq Letter
    BY DEF Agreeing, Emitted
  <2> QED
    BY <2>1, LettersFinite, FS_Subset
<1>3. \A l \in L : FusedNext(p, key, l) \in FusedKeys(p)
  BY FusedMove
<1>4. next \in Surjection(L, Mtnfa!Successors(p, key))
  BY <1>1 DEF Surjection
<1>5. IsFiniteSet(Mtnfa!Successors(p, key))
  BY <1>2, <1>4, FS_Surjection
<1> QED
  BY <1>1, <1>3, <1>5

\* A row names indices of its successors only, so it keeps its leaves when more keys
\* are interned.
LEMMA FusedRow ==
  ASSUME NEW p \in Problems, NEW key \in FusedKeys(p), NEW index, NEW more,
         \A k \in Mtnfa!Successors(p, key) : index[k] = more[k]
  PROVE  Mtnfa!RowOf(p, key, index) = Mtnfa!RowOf(p, key, more)
<1>1. ASSUME NEW l \in Letter
      PROVE  Mtnfa!RowOf(p, key, index)[l] = Mtnfa!RowOf(p, key, more)[l]
  <2>1. CASE l \in Agreeing(p, key.q) /\ NfaSuccessors(p.nfa, key.S, l) # {}
    <3>1. index[FusedNext(p, key, l)] = more[FusedNext(p, key, l)]
      BY <2>1, FusedSuccessors
    <3>2. FusedCell(p, key, l, index) = FusedCell(p, key, l, more)
      BY <3>1 DEF FusedCell
    <3>3. Mtnfa!RowOf(p, key, index)[l] = FusedCell(p, key, l, index)
      BY <2>1, FusedVocabulary
    <3>4. Mtnfa!RowOf(p, key, more)[l] = FusedCell(p, key, l, more)
      BY <2>1, FusedVocabulary
    <3> QED
      BY <3>2, <3>3, <3>4
  <2>2. CASE l \in Agreeing(p, key.q) /\ NfaSuccessors(p.nfa, key.S, l) = {}
    BY <2>2, FusedVocabulary
  <2>3. CASE l \notin Agreeing(p, key.q)
    BY <2>3, FusedVocabulary
  <2> QED
    BY <2>1, <2>2, <2>3
<1>2. /\ Mtnfa!RowOf(p, key, index) = [l \in Letter |-> Mtnfa!RowOf(p, key, index)[l]]
      /\ Mtnfa!RowOf(p, key, more) = [l \in Letter |-> Mtnfa!RowOf(p, key, more)[l]]
  BY FusedVocabulary
<1> DEFINE f == Mtnfa!RowOf(p, key, index)
           g == Mtnfa!RowOf(p, key, more)
<1> HIDE DEF f, g
<1>3. f = [l \in Letter |-> f[l]] /\ g = [l \in Letter |-> g[l]] /\ \A l \in Letter : f[l] = g[l]
  BY <1>1, <1>2 DEF f, g
<1>4. f = g
  BY <1>3
<1> QED
  BY <1>4 DEF f, g

\* Numbers in the leaves: a row of numbered successors has its type.
LEMMA FusedRowType ==
  ASSUME NEW p \in Problems, NEW key \in FusedKeys(p), NEW index,
         \A k \in Mtnfa!Successors(p, key) : index[k] \in Nat
  PROVE  Mtnfa!RowOf(p, key, index) \in [Letter -> OutCells]
<1> DEFINE f == Mtnfa!RowOf(p, key, index)
<1>1. ASSUME NEW l \in Letter
      PROVE  f[l] \in OutCells
  <2>1. CASE l \in Agreeing(p, key.q) /\ NfaSuccessors(p.nfa, key.S, l) # {}
    <3> DEFINE j == index[FusedNext(p, key, l)]
               a == SomeAccepting(p.nfa, NfaSuccessors(p.nfa, key.S, l))
    <3>1. j \in Nat
      BY <2>1, FusedSuccessors
    <3>2. a \in BOOLEAN
      BY DEF SomeAccepting
    <3>3. f[l] = FusedCell(p, key, l, index)
      BY <2>1, FusedVocabulary
    <3>4. f[l] = StateCell(j, a)
      BY <3>3 DEF FusedCell
    <3> HIDE DEF j, a, f
    <3> QED
      BY <3>1, <3>2, <3>4 DEF StateCell, OutCells
  <2>2. CASE ~ (l \in Agreeing(p, key.q) /\ NfaSuccessors(p.nfa, key.S, l) # {})
    <3>1. f[l] = FalseCell
      <4>1. CASE l \in Agreeing(p, key.q) /\ NfaSuccessors(p.nfa, key.S, l) = {}
        BY <4>1, FusedVocabulary
      <4>2. CASE l \notin Agreeing(p, key.q)
        BY <4>2, FusedVocabulary
      <4> QED
        BY <2>2, <4>1, <4>2
    <3> QED
      BY <3>1 DEF OutCells
  <2> QED
    BY <2>1, <2>2
<1>2. f = [l \in Letter |-> f[l]]
  BY FusedVocabulary
<1> HIDE DEF f
<1>3. f \in [Letter -> OutCells]
  BY <1>1, <1>2
<1> QED
  BY <1>3 DEF f

\* The rows built are those of keys, numbered by index.
BuiltRows(p, index, rs) ==
  \A key \in DOMAIN index : index[key] < Len(rs) =>
    Mtnfa!Successors(p, key) \subseteq DOMAIN index /\ rs[index[key] + 1] = Mtnfa!RowOf(p, key, index)

\* The keys interned are reached, their numbers are the order in which they leave the
\* queue, and those that have left it have their row.
FusedTable(p, index, queue, rs) ==
  /\ rs \in Seq([Letter -> OutCells])
  /\ QueueOrder(index, queue, Len(rs))
  /\ DOMAIN index \subseteq FusedKeys(p)
  /\ Mtnfa!InitialKey(p) \in DOMAIN index /\ index[Mtnfa!InitialKey(p)] = 0
  /\ BuiltRows(p, index, rs)

LEMMA TableBegins ==
  ASSUME NEW p \in Problems, NEW index, NEW key, key = Mtnfa!InitialKey(p), index = [k \in {key} |-> 0]
  PROVE  FusedTable(p, index, <<key>>, <<>>)
<1> DEFINE queue == <<key>>
           rs == <<>>
<1>1. DOMAIN index = {key} /\ index[key] = 0 /\ index \in [{key} -> Nat]
  OBVIOUS
<1>2. IsFiniteSet({key}) /\ Cardinality({key}) = 1
  BY FS_Singleton
<1>3. queue \in Seq({key}) /\ Len(queue) = 1 /\ DOMAIN queue = {1} /\ queue[1] = key
  OBVIOUS
<1>4. rs \in Seq([Letter -> OutCells]) /\ Len(rs) = 0
  OBVIOUS
<1>5. \A m \in DOMAIN queue : index[queue[m]] = 0 + m - 1
  BY <1>1, <1>3
<1>6. \A x \in DOMAIN index : Waits(queue, x)
  BY <1>1, <1>3 DEF Waits
<1>7. key \in FusedKeys(p)
  BY InitialFused
<1> HIDE DEF queue, rs
<1>8. QueueOrder(index, queue, 0)
  BY <1>1, <1>2, <1>3, <1>5, <1>6 DEF QueueOrder
<1>9. BuiltRows(p, index, rs)
  BY <1>1, <1>4 DEF BuiltRows
<1>10. FusedTable(p, index, queue, rs)
  BY <1>1, <1>4, <1>7, <1>8, <1>9 DEF FusedTable
<1> QED
  BY <1>10 DEF queue, rs

LEMMA TableGrows ==
  ASSUME NEW p \in Problems, NEW index, NEW queue, NEW rs, FusedTable(p, index, queue, rs), queue # <<>>,
         NEW key, key = Head(queue), NEW S, S = Mtnfa!Successors(p, key) \ DOMAIN index,
         NEW ns \in Orders(S), NEW more, more = Intern(index, ns)
  PROVE  FusedTable(p, more, Tail(queue) \o ns, Append(rs, Mtnfa!RowOf(p, key, more)))
<1> DEFINE D   == DOMAIN index
           n   == Len(rs)
           row == Mtnfa!RowOf(p, key, more)
           ts  == Append(rs, row)
           K0  == Mtnfa!InitialKey(p)
<1>1. /\ rs \in Seq([Letter -> OutCells]) /\ QueueOrder(index, queue, n)
      /\ D \subseteq FusedKeys(p) /\ K0 \in D /\ index[K0] = 0
      /\ BuiltRows(p, index, rs)
  BY DEF FusedTable
<1>2. key \in D
  <2> HIDE DEF D
  <2>1. queue \in Seq(D)
    BY <1>1 DEF QueueOrder, D
  <2> QED
    BY <2>1, HeadTailProperties
<1>3. key \in FusedKeys(p)
  BY <1>1, <1>2
<1>4. Mtnfa!Successors(p, key) \subseteq FusedKeys(p) /\ IsFiniteSet(Mtnfa!Successors(p, key))
  BY <1>3, FusedSuccessors
<1>5. Undiscovered(index, S)
  <2>1. IsFiniteSet(S)
    BY <1>4, FS_Difference
  <2> QED
    BY <2>1 DEF Undiscovered
<1>6. /\ QueueOrder(more, Tail(queue) \o ns, n + 1)
      /\ DOMAIN more = D \cup S
      /\ \A x \in D : more[x] = index[x]
      /\ \A x \in S : more[x] > n
      /\ index[key] = n
  <2> HIDE DEF n, D
  <2>1. InternedNext(index, queue, n, S, ns)
    BY <1>1, <1>5, InternStep
  <2> QED
    BY <2>1 DEF D, InternedNext
<1>7. DOMAIN more = D \cup Mtnfa!Successors(p, key)
  BY <1>6
<1>8. n \in Nat /\ \A x \in D : index[x] \in Nat
  BY <1>1 DEF QueueOrder
<1>9. \A x \in DOMAIN more : more[x] \in Nat
  BY <1>6 DEF QueueOrder
<1>10. row \in [Letter -> OutCells]
  BY <1>3, <1>7, <1>9, FusedRowType
<1> HIDE DEF row, D
<1>11. /\ ts \in Seq([Letter -> OutCells]) /\ Len(ts) = n + 1
       /\ \A m \in 1 .. n : ts[m] = rs[m]
       /\ ts[n + 1] = row
  BY <1>1, <1>8, <1>10, AppendProperties, LenProperties
<1> HIDE DEF ts
<1>12. ASSUME NEW k \in DOMAIN more, more[k] < n + 1
       PROVE  Mtnfa!Successors(p, k) \subseteq DOMAIN more /\ ts[more[k] + 1] = Mtnfa!RowOf(p, k, more)
  <2>1. k \in D /\ more[k] = index[k]
    <3>1. k \in S => more[k] > n
      BY <1>6
    <3> HIDE DEF n
    <3> QED
      BY <1>6, <1>8, <1>9, <1>12, <3>1
  <2>2. CASE index[k] < n
    <3>1. Mtnfa!Successors(p, k) \subseteq D /\ rs[index[k] + 1] = Mtnfa!RowOf(p, k, index)
      BY <1>1, <2>1, <2>2 DEF BuiltRows, D
    <3>2. k \in FusedKeys(p)
      BY <1>1, <2>1
    <3>3. \A x \in Mtnfa!Successors(p, k) : index[x] = more[x]
      BY <1>6, <3>1
    <3>4. Mtnfa!RowOf(p, k, index) = Mtnfa!RowOf(p, k, more)
      BY <3>2, <3>3, FusedRow
    <3>5. index[k] + 1 \in 1 .. n
      <4> HIDE DEF n
      <4> QED
        BY <1>8, <2>1, <2>2
    <3>6. ts[index[k] + 1] = rs[index[k] + 1]
      BY <1>11, <3>5
    <3> QED
      BY <1>7, <2>1, <3>1, <3>4, <3>6
  <2>3. CASE ~ (index[k] < n)
    <3>1. index[k] = n
      <4> HIDE DEF n
      <4> QED
        BY <1>8, <1>12, <2>1, <2>3
    <3>2. k = key
      BY <1>1, <1>2, <1>6, <2>1, <3>1 DEF QueueOrder, D
    <3> QED
      BY <1>7, <1>11, <2>1, <3>1, <3>2 DEF row
  <2> QED
    BY <2>2, <2>3
<1>13. BuiltRows(p, more, ts)
  BY <1>11, <1>12 DEF BuiltRows
<1>14. DOMAIN more \subseteq FusedKeys(p)
  BY <1>1, <1>4, <1>7
<1>15. K0 \in DOMAIN more /\ more[K0] = 0
  BY <1>1, <1>6
<1> HIDE DEF n, K0
<1>16. FusedTable(p, more, Tail(queue) \o ns, ts)
  BY <1>6, <1>11, <1>13, <1>14, <1>15 DEF FusedTable, K0
<1> QED
  BY <1>16 DEF ts, row

\* What holds of the fused construction in every reachable state.
FusedInv ==
  /\ problem \in Problems
  /\ mPhase \in {"build", "built", "done"}
  /\ mPhase # "done" => mResult = "none" /\ FusedTable(problem, subsetIndex, pending, rows)
  /\ mPhase = "built" => pending = <<>>

LEMMA InitFused == FormsInit => FusedInv
<1> SUFFICES ASSUME FormsInit PROVE FusedInv
  OBVIOUS
<1>1. /\ problem \in Problems /\ mPhase = "build" /\ mResult = "none"
      /\ subsetIndex = [key \in {Mtnfa!InitialKey(problem)} |-> 0]
      /\ pending = <<Mtnfa!InitialKey(problem)>> /\ rows = <<>>
  BY DEF FormsInit, Mtnfa!Init
<1>2. FusedTable(problem, subsetIndex, pending, rows)
  BY <1>1, TableBegins
<1> QED
  BY <1>1, <1>2 DEF FusedInv

LEMMA ExpandFused == FusedInv /\ Mtnfa!Expand => FusedInv'
<1> SUFFICES ASSUME FusedInv, Mtnfa!Expand PROVE FusedInv'
  OBVIOUS
<1> DEFINE key == Head(pending)
           new == Mtnfa!Successors(problem, key) \ DOMAIN subsetIndex
<1>1. /\ mPhase = "build" /\ pending # <<>> /\ mPhase' = mPhase /\ mResult' = mResult /\ problem' = problem
  BY DEF Mtnfa!Expand
<1>2. PICK ns \in Orders(new) :
        /\ subsetIndex' = Intern(subsetIndex, ns)
        /\ pending' = Tail(pending) \o ns
        /\ rows' = Append(rows, Mtnfa!RowOf(problem, key, subsetIndex'))
  BY MtnfaVocabulary DEF Mtnfa!Expand
<1>3. problem \in Problems /\ mResult = "none" /\ FusedTable(problem, subsetIndex, pending, rows)
  BY <1>1 DEF FusedInv
<1> DEFINE more == subsetIndex'
<1> HIDE DEF key, new, more
<1>4. FusedTable(problem, more, Tail(pending) \o ns, Append(rows, Mtnfa!RowOf(problem, key, more)))
  BY <1>1, <1>2, <1>3, TableGrows DEF key, new, more
<1>5. FusedTable(problem', subsetIndex', pending', rows')
  BY <1>1, <1>2, <1>4 DEF more
<1> QED
  BY <1>1, <1>3, <1>5 DEF FusedInv

LEMMA RestFused ==
  FusedInv /\ (StepNfa \/ Mtnfa!ThrowNondeterministic \/ Mtnfa!FinishBuild \/ Mtnfa!Solve \/ UNCHANGED <<vars, mVars>>)
    => FusedInv'
<1>1. FusedInv /\ (StepNfa \/ UNCHANGED <<vars, mVars>>) => FusedInv'
  <2>1. StepNfa \/ UNCHANGED <<vars, mVars>> => UNCHANGED <<problem, mPhase, subsetIndex, pending, rows, mResult>>
    BY DEF StepNfa, mVars, vars, Next, Complete, ThrowNondeterministic, Explore, Materialize, Determinize,
       FinishDeterminize, Solve
  <2> QED
    BY <2>1 DEF FusedInv
<1>2. FusedInv /\ Mtnfa!ThrowNondeterministic => FusedInv'
  BY DEF FusedInv, Mtnfa!ThrowNondeterministic
<1>3. FusedInv /\ Mtnfa!FinishBuild => FusedInv'
  BY DEF FusedInv, Mtnfa!FinishBuild
<1>4. FusedInv /\ Mtnfa!Solve => FusedInv'
  BY DEF FusedInv, Mtnfa!Solve
<1> QED
  BY <1>1, <1>2, <1>3, <1>4

\* What is stored of the fused product is reached, numbered in dequeue order, and
\* every row built is that of its key.
THEOREM FusedInvariant == FormsSpec => []FusedInv
<1>1. FusedInv /\ [StepNfa \/ StepMtnfa]_<<vars, mVars>> => FusedInv'
  BY ExpandFused, RestFused DEF StepMtnfa, Mtnfa!Next
<1> QED
  BY <1>1, InitFused, PTL DEF FormsSpec

-----------------------------------------------------------------------------
(* The fused product is the reference game.                                  *)

\* The position of a fused state.
KeyPos(key) == <<key.S, key.q>>

\* What the system can do there, read off the goal NFA.
LEMMA FusedPosition ==
  ASSUME NEW p \in Problems, NEW key \in FusedKeys(p)
  PROVE  /\ KeyPos(key) \in Reachable(p) /\ KeyPos(key) \in Positions(p)
         /\ \A i : Stops(p, KeyPos(key), i) <=>
              \E l \in Agreeing(p, key.q) :
                /\ l.i = i /\ NfaSuccessors(p.nfa, key.S, l) # {}
                /\ SomeAccepting(p.nfa, NfaSuccessors(p.nfa, key.S, l))
         /\ \A i, r : r \in Moves(p, KeyPos(key), i) <=>
              \E l \in Agreeing(p, key.q) :
                l.i = i /\ NfaSuccessors(p.nfa, key.S, l) # {} /\ r = KeyPos(FusedNext(p, key, l))
<1> DEFINE psi == key.S
           q == key.q
<1>1. psi \in p.formulas /\ q \in Vectors(p) /\ KeyPos(key) \in Reachable(p) /\ KeyPos(key) = <<psi, q>>
  BY FusedKeyMeans DEF KeyPos
<1>2. ASSUME NEW l \in Agreeing(p, q)
      PROVE  KeyPos(FusedNext(p, key, l)) = <<NfaSuccessors(p.nfa, psi, l), Delta(p, q, l)>>
  <2>1. FusedNext(p, key, l) = [S |-> NfaSuccessors(p.nfa, psi, l), q |-> Delta(p, q, l)]
    BY FusedVocabulary DEF FusedNext
  <2> QED
    BY <2>1 DEF KeyPos
<1> HIDE DEF psi, q
<1>3. /\ <<psi, q>> \in Positions(p)
      /\ \A i : Stops(p, <<psi, q>>, i) <=>
           \E l \in Agreeing(p, q) :
             /\ l.i = i /\ NfaSuccessors(p.nfa, psi, l) # {}
             /\ SomeAccepting(p.nfa, NfaSuccessors(p.nfa, psi, l))
      /\ \A i, r : r \in Moves(p, <<psi, q>>, i) <=>
           \E l \in Agreeing(p, q) :
             /\ l.i = i /\ NfaSuccessors(p.nfa, psi, l) # {}
             /\ r = <<NfaSuccessors(p.nfa, psi, l), Delta(p, q, l)>>
  BY <1>1, GoalPosition
<1>4. \A i, r : r \in Moves(p, KeyPos(key), i) <=>
        \E l \in Agreeing(p, q) :
          l.i = i /\ NfaSuccessors(p.nfa, psi, l) # {} /\ r = KeyPos(FusedNext(p, key, l))
  BY <1>1, <1>2, <1>3
<1> QED
  BY <1>1, <1>3, <1>4 DEF psi, q

\* The cells of its row: dead where the knowledge or the goal forbids the letter.
LEMMA FusedCellMeans ==
  ASSUME NEW p \in Problems, NEW key \in FusedKeys(p), NEW index, NEW V, NEW l \in Letter
  PROVE  CellWon(Mtnfa!RowOf(p, key, index)[l], V) <=>
           /\ l \in Agreeing(p, key.q) /\ NfaSuccessors(p.nfa, key.S, l) # {}
           /\ \/ SomeAccepting(p.nfa, NfaSuccessors(p.nfa, key.S, l))
              \/ index[FusedNext(p, key, l)] \in V
<1> DEFINE T == NfaSuccessors(p.nfa, key.S, l)
           cell == Mtnfa!RowOf(p, key, index)[l]
           j == index[FusedNext(p, key, l)]
           a == SomeAccepting(p.nfa, T)
<1>0. ~CellWon(FalseCell, V)
  BY DEF CellWon, FalseCell
<1>1. CASE l \in Agreeing(p, key.q) /\ T # {}
  <2>1. cell = FusedCell(p, key, l, index)
    BY <1>1, FusedVocabulary
  <2>2. cell = StateCell(j, a)
    BY <2>1 DEF FusedCell
  <2> HIDE DEF cell, j, a, T
  <2>3. CellWon(cell, V) <=> a \/ j \in V
    BY <2>2 DEF StateCell, CellWon
  <2> QED
    BY <1>1, <2>3 DEF cell, j, a, T
<1>2. CASE l \in Agreeing(p, key.q) /\ T = {}
  <2>1. cell = FalseCell
    BY <1>2, FusedVocabulary
  <2> QED
    BY <1>0, <1>2, <2>1
<1>3. CASE l \notin Agreeing(p, key.q)
  <2>1. cell = FalseCell
    BY <1>3, FusedVocabulary
  <2> QED
    BY <1>0, <1>3, <2>1
<1> QED
  BY <1>1, <1>2, <1>3

\* To win the row of a key from the roots V is to answer by stopping, or by moving to a
\* key numbered in V.
LEMMA FusedAnswers ==
  ASSUME NEW p \in Problems, NEW key \in FusedKeys(p), NEW index, NEW V, NEW i \in IFree
  PROVE  (\E l \in Letter : l.i = i /\ CellWon(Mtnfa!RowOf(p, key, index)[l], V))
           <=> \/ Stops(p, KeyPos(key), i)
               \/ \E k \in Mtnfa!Successors(p, key) : KeyPos(k) \in Moves(p, KeyPos(key), i) /\ index[k] \in V
<1> DEFINE A == Agreeing(p, key.q)
           Goes(l) == NfaSuccessors(p.nfa, key.S, l) # {}
           RowAccepts(l) == SomeAccepting(p.nfa, NfaSuccessors(p.nfa, key.S, l))
           Won(l) == CellWon(Mtnfa!RowOf(p, key, index)[l], V)
           To(l) == FusedNext(p, key, l)
           S == Mtnfa!Successors(p, key)
<1>1. A \subseteq Letter
  BY DEF Agreeing, Emitted
<1>2. \A l \in Letter : Won(l) <=> l \in A /\ Goes(l) /\ (RowAccepts(l) \/ index[To(l)] \in V)
  BY FusedCellMeans
<1>3. /\ Stops(p, KeyPos(key), i) <=> \E l \in A : l.i = i /\ Goes(l) /\ RowAccepts(l)
      /\ \A r : r \in Moves(p, KeyPos(key), i) <=> \E l \in A : l.i = i /\ Goes(l) /\ r = KeyPos(To(l))
  <2>1. Stops(p, KeyPos(key), i) <=>
          \E l \in A :
            /\ l.i = i /\ NfaSuccessors(p.nfa, key.S, l) # {}
            /\ SomeAccepting(p.nfa, NfaSuccessors(p.nfa, key.S, l))
    BY FusedPosition
  <2>2. \A r : r \in Moves(p, KeyPos(key), i) <=>
          \E l \in A : l.i = i /\ NfaSuccessors(p.nfa, key.S, l) # {} /\ r = KeyPos(FusedNext(p, key, l))
    <3>1. \A j, r : r \in Moves(p, KeyPos(key), j) <=>
            \E l \in Agreeing(p, key.q) :
              l.i = j /\ NfaSuccessors(p.nfa, key.S, l) # {} /\ r = KeyPos(FusedNext(p, key, l))
      BY FusedPosition
    <3> QED
      BY <3>1
  <2> QED
    BY <2>1, <2>2
<1>4. S = {To(l) : l \in {m \in A : Goes(m)}} /\ S \subseteq FusedKeys(p)
  BY FusedVocabulary, FusedSuccessors
<1>5. \A k, m \in FusedKeys(p) : KeyPos(k) = KeyPos(m) => k = m
  <2> SUFFICES ASSUME NEW k \in FusedKeys(p), NEW m \in FusedKeys(p), KeyPos(k) = KeyPos(m)
               PROVE  k = m
    OBVIOUS
  <2>1. k = Mtnfa!Key(k.S, k.q) /\ m = Mtnfa!Key(m.S, m.q)
    BY FusedKeyMeans
  <2>2. k.S = m.S /\ k.q = m.q
    BY DEF KeyPos
  <2> QED
    BY <2>1, <2>2
<1> HIDE DEF A, Goes, RowAccepts, Won, To, S
<1>6. ASSUME NEW l \in Letter, l.i = i, Won(l)
      PROVE  Stops(p, KeyPos(key), i) \/ \E k \in S : KeyPos(k) \in Moves(p, KeyPos(key), i) /\ index[k] \in V
  BY <1>2, <1>3, <1>4, <1>6
<1>7. ASSUME Stops(p, KeyPos(key), i)
      PROVE  \E l \in Letter : l.i = i /\ Won(l)
  BY <1>1, <1>2, <1>3, <1>7
<1>8. ASSUME NEW k \in S, KeyPos(k) \in Moves(p, KeyPos(key), i), index[k] \in V
      PROVE  \E l \in Letter : l.i = i /\ Won(l)
  <2>1. PICK l \in A : l.i = i /\ Goes(l) /\ KeyPos(k) = KeyPos(To(l))
    BY <1>3, <1>8
  <2>2. k = To(l)
    BY <1>4, <1>5, <2>1
  <2> QED
    BY <1>1, <1>2, <1>8, <2>1, <2>2
<1> QED
  BY <1>6, <1>7, <1>8 DEF Won, S

\* A move from the position of a key leads to the position of a successor.
LEMMA FusedMoves ==
  ASSUME NEW p \in Problems, NEW key \in FusedKeys(p), NEW i, NEW r \in Moves(p, KeyPos(key), i)
  PROVE  \E k \in Mtnfa!Successors(p, key) : r = KeyPos(k)
<1>1. PICK l \in Agreeing(p, key.q) :
        l.i = i /\ NfaSuccessors(p.nfa, key.S, l) # {} /\ r = KeyPos(FusedNext(p, key, l))
  BY FusedPosition
<1>2. FusedNext(p, key, l) \in Mtnfa!Successors(p, key)
  BY <1>1, FusedSuccessors
<1> QED
  BY <1>1, <1>2

\* A table with an empty queue has a row for every key, and every successor.
LEMMA TableComplete ==
  ASSUME NEW p \in Problems, NEW index, NEW rs, FusedTable(p, index, <<>>, rs)
  PROVE  /\ Len(rs) \in Nat
         /\ \A key \in DOMAIN index :
              /\ key \in FusedKeys(p) /\ index[key] \in 0 .. (Len(rs) - 1)
              /\ Mtnfa!Successors(p, key) \subseteq DOMAIN index
              /\ rs[index[key] + 1] = Mtnfa!RowOf(p, key, index)
         /\ Mtnfa!InitialKey(p) \in DOMAIN index /\ index[Mtnfa!InitialKey(p)] = 0
<1> DEFINE n == Len(rs)
<1>1. /\ QueueOrder(index, <<>>, n) /\ DOMAIN index \subseteq FusedKeys(p) /\ BuiltRows(p, index, rs)
      /\ Mtnfa!InitialKey(p) \in DOMAIN index /\ index[Mtnfa!InitialKey(p)] = 0
  BY DEF FusedTable
<1>2. n \in Nat /\ \A key \in DOMAIN index : index[key] \in Nat /\ index[key] < n
  <2>1. \A x : ~Waits(<<>>, x)
    BY DEF Waits
  <2> HIDE DEF n
  <2> QED
    BY <1>1, <2>1 DEF QueueOrder
<1>3. \A key \in DOMAIN index : index[key] \in 0 .. (n - 1)
  <2> HIDE DEF n
  <2> QED
    BY <1>2
<1> QED
  BY <1>1, <1>2, <1>3 DEF BuiltRows

LEMMA InitialPos ==
  ASSUME NEW p \in Problems
  PROVE  KeyPos(Mtnfa!InitialKey(p)) = InitialPosition(p)
<1>1. Mtnfa!InitialKey(p) = [S |-> p.phi, q |-> InitialVector(p)]
  BY InitialFused, FusedVocabulary
<1> QED
  BY <1>1 DEF KeyPos, InitialPosition

LEMMA KeysReached ==
  ASSUME NEW p \in Problems, NEW index, NEW rs, FusedTable(p, index, <<>>, rs)
  PROVE  {<<key.S, key.q>> : key \in DOMAIN index} = Reachable(p)
<1> DEFINE R == {KeyPos(key) : key \in DOMAIN index}
<1>1. \A key \in DOMAIN index : key \in FusedKeys(p) /\ Mtnfa!Successors(p, key) \subseteq DOMAIN index
  BY TableComplete
<1>2. R \subseteq Reachable(p) /\ R \in SUBSET Positions(p)
  BY <1>1, FusedPosition
<1>3. InitialPosition(p) \in R
  BY TableComplete, InitialPos
<1>4. ASSUME NEW s \in R, NEW i \in IFree, NEW r \in Moves(p, s, i)
      PROVE  r \in R
  <2>1. PICK key \in DOMAIN index : s = KeyPos(key)
    OBVIOUS
  <2>2. PICK k \in Mtnfa!Successors(p, key) : r = KeyPos(k)
    BY <1>1, <2>1, FusedMoves
  <2> QED
    BY <1>1, <2>2
<1> HIDE DEF R
<1>5. Reachable(p) \subseteq R
  BY <1>2, <1>3, <1>4, ReachableLeast
<1>6. R = {<<key.S, key.q>> : key \in DOMAIN index}
  BY DEF R, KeyPos
<1> QED
  BY <1>2, <1>5, <1>6

\* The fused construction prunes exactly the positions that no word of agreeing letters
\* leads to.
THEOREM FusedIsReachable == FormsSpec => []KeysAreReachable
<1>1. FusedInv => KeysAreReachable
  <2> SUFFICES ASSUME FusedInv, mPhase = "built"
               PROVE  {<<key.S, key.q>> : key \in DOMAIN subsetIndex} = Mtnfa!Reachable(problem)
    BY DEF KeysAreReachable, Mtnfa!KeysAreReachable
  <2>1. problem \in Problems /\ FusedTable(problem, subsetIndex, <<>>, rows)
    BY DEF FusedInv
  <2> QED
    BY <2>1, KeysReached, MtnfaVocabulary
<1> QED
  BY <1>1, FusedInvariant, PTL

\* The initial root is won on the rows exactly when the system wins the game.
LEMMA FusedIsGame ==
  ASSUME NEW p \in Problems, NEW index, NEW rs, FusedTable(p, index, <<>>, rs),
         NEW n, n = Len(rs), NEW f, f = [j \in 0 .. (n - 1) |-> rs[j + 1]]
  PROVE  0 \in Winning(f) <=> SystemWins(p)
<1> DEFINE R  == 0 .. (n - 1)
           A  == Winning(f)
           K0 == Mtnfa!InitialKey(p)
           Row(key) == Mtnfa!RowOf(p, key, index)
           D  == DOMAIN index
<1>1. /\ n \in Nat
      /\ \A key \in D : /\ key \in FusedKeys(p) /\ index[key] \in R
                        /\ Mtnfa!Successors(p, key) \subseteq D /\ f[index[key]] = Row(key)
      /\ K0 \in D /\ index[K0] = 0
  BY TableComplete
<1>2. /\ A \subseteq R /\ \A j \in R : RowWon(f[j], A) => j \in A
      /\ \A V \in SUBSET R : (\A j \in R : RowWon(f[j], V) => j \in V) => A \subseteq V
  <2>1. DOMAIN f = R
    OBVIOUS
  <2>2. IsFiniteSet(R)
    BY <1>1, FS_Interval
  <2> HIDE DEF R
  <2> QED
    BY <2>1, <2>2, WinningIsLeast
<1>3. ASSUME NEW key \in D, NEW V
      PROVE  RowWon(f[index[key]], V) <=>
               \A i \in IFree :
                 \/ Stops(p, KeyPos(key), i)
                 \/ \E k \in Mtnfa!Successors(p, key) : KeyPos(k) \in Moves(p, KeyPos(key), i) /\ index[k] \in V
  <2>1. key \in FusedKeys(p) /\ f[index[key]] = Row(key)
    BY <1>1
  <2>2. ASSUME NEW i \in IFree
        PROVE  (\E l \in Letter : l.i = i /\ CellWon(Row(key)[l], V))
                 <=> \/ Stops(p, KeyPos(key), i)
                     \/ \E k \in Mtnfa!Successors(p, key) : KeyPos(k) \in Moves(p, KeyPos(key), i) /\ index[k] \in V
    BY <2>1, FusedAnswers
  <2> HIDE DEF Row
  <2>3. RowWon(f[index[key]], V) <=> \A i \in IFree : \E l \in Letter : l.i = i /\ CellWon(Row(key)[l], V)
    BY <2>1 DEF RowWon
  <2> QED
    BY <2>2, <2>3
<1>4. \A key \in D : KeyPos(key) \in Positions(p)
  BY <1>1, FusedPosition
<1>5. KeyPos(K0) = InitialPosition(p)
  BY InitialPos
<1> HIDE DEF A, R, K0, D, Row
<1>6. ASSUME 0 \in A PROVE SystemWins(p)
  <2> SUFFICES ASSUME NEW W \in SUBSET Positions(p), \A x \in Positions(p) : Forces(p, x, W) => x \in W
               PROVE  InitialPosition(p) \in W
    BY SystemWinsMeans
  <2> DEFINE V == {j \in R : \A key \in D : index[key] = j => KeyPos(key) \in W}
  <2>1. ASSUME NEW j \in R, RowWon(f[j], V), NEW key \in D, index[key] = j
        PROVE  KeyPos(key) \in W
    <3>1. ASSUME NEW i \in IFree
          PROVE  Stops(p, KeyPos(key), i) \/ \E r \in W : r \in Moves(p, KeyPos(key), i)
      <4>1. \/ Stops(p, KeyPos(key), i)
            \/ \E k \in Mtnfa!Successors(p, key) : KeyPos(k) \in Moves(p, KeyPos(key), i) /\ index[k] \in V
        <5> HIDE DEF V
        <5> QED
          BY <1>3, <2>1
      <4>2. ASSUME NEW k \in Mtnfa!Successors(p, key), index[k] \in V
            PROVE  KeyPos(k) \in W
        BY <1>1, <4>2
      <4> QED
        BY <4>1, <4>2
    <3> QED
      BY <1>4, <2>1, <3>1 DEF Forces
  <2>2. V \in SUBSET R /\ \A j \in R : RowWon(f[j], V) => j \in V
    BY <2>1
  <2>3. 0 \in V
    <3> HIDE DEF V
    <3> QED
      BY <1>2, <1>6, <2>2
  <2> QED
    BY <1>1, <1>5, <2>3
<1>7. ASSUME SystemWins(p) PROVE 0 \in A
  <2> DEFINE W == {x \in Positions(p) : \A key \in D : KeyPos(key) = x => index[key] \in A}
  <2>1. ASSUME NEW key \in D, Forces(p, KeyPos(key), W)
        PROVE  index[key] \in A
    <3>1. ASSUME NEW i \in IFree
          PROVE  \/ Stops(p, KeyPos(key), i)
                 \/ \E k \in Mtnfa!Successors(p, key) : KeyPos(k) \in Moves(p, KeyPos(key), i) /\ index[k] \in A
      <4>1. CASE Stops(p, KeyPos(key), i)
        BY <4>1
      <4>2. CASE \E r \in W : r \in Moves(p, KeyPos(key), i)
        <5>1. PICK r \in W : r \in Moves(p, KeyPos(key), i)
          <6> HIDE DEF W
          <6> QED
            BY <4>2
        <5>0. key \in FusedKeys(p) /\ Mtnfa!Successors(p, key) \subseteq D
          BY <1>1
        <5>2. PICK k \in Mtnfa!Successors(p, key) : r = KeyPos(k)
          <6> HIDE DEF W
          <6> QED
            BY <5>0, <5>1, FusedMoves
        <5>3. k \in D
          BY <5>0
        <5>4. index[k] \in A
          BY <5>1, <5>2, <5>3
        <5> QED
          BY <5>1, <5>2, <5>4
      <4> QED
        BY <2>1, <4>1, <4>2 DEF Forces
    <3> QED
      BY <1>1, <1>2, <1>3, <3>1
  <2>2. W \in SUBSET Positions(p) /\ \A x \in Positions(p) : Forces(p, x, W) => x \in W
    BY <2>1
  <2>3. InitialPosition(p) \in W
    <3> HIDE DEF W
    <3> QED
      BY <1>7, <2>2, SystemWinsMeans
  <2> QED
    BY <1>1, <1>5, <2>3
<1> QED
  BY <1>6, <1>7 DEF A

-----------------------------------------------------------------------------
(* The fused construction answers as the contract says.                      *)

LEMMA MtnfaContractGame ==
  ASSUME NEW p
  PROVE  Mtnfa!Contract!SystemWins(p) = SystemWins(p)
BY DEF SystemWins, Positions, Vectors, Stops, Moves, Agreeing, Emitted, DeltaDefined, Matching,
   Delta, First, InitialPosition, InitialVector, TrueCell, NextCell, Letter,
   Mtnfa!Contract!SystemWins, Mtnfa!Contract!Positions, Mtnfa!Contract!Vectors, Mtnfa!Contract!Stops,
   Mtnfa!Contract!Moves, Mtnfa!Contract!Agreeing, Mtnfa!Contract!Emitted, Mtnfa!Contract!DeltaDefined,
   Mtnfa!Contract!Matching, Mtnfa!Contract!Delta, Mtnfa!Contract!First, Mtnfa!Contract!InitialPosition,
   Mtnfa!Contract!InitialVector, Mtnfa!Contract!TrueCell, Mtnfa!Contract!NextCell, Mtnfa!Contract!Letter

LEMMA MtnfaContractInput ==
  ASSUME NEW p
  PROVE  Mtnfa!Contract!WellFormed(p) = WellFormed(p)
BY DEF WellFormed, IsTransducer, Transducers, Cells, FalseCell, TrueCell, NextCell, Letter,
   Mtnfa!Contract!WellFormed, Mtnfa!Contract!IsTransducer, Mtnfa!Contract!Transducers,
   Mtnfa!Contract!Cells, Mtnfa!Contract!FalseCell, Mtnfa!Contract!TrueCell, Mtnfa!Contract!NextCell,
   Mtnfa!Contract!Letter

LEMMA MtnfaContractAnswers ==
  ASSUME NEW p
  PROVE  /\ SystemWins(p) => "controller" \in Mtnfa!Contract!Answers(p)
         /\ ~SystemWins(p) => "unrealizable" \in Mtnfa!Contract!Answers(p)
         /\ \A t \in DOMAIN p.taus : \A s \in p.taus[t].states :
              Overlap(p.taus[t], s) => "runtime_error" \in Mtnfa!Contract!Answers(p)
<1>1. Mtnfa!Contract!SystemWins(p) = SystemWins(p)
  BY MtnfaContractGame
<1>2. \A tau, s : Mtnfa!Contract!Overlap(tau, s) = Overlap(tau, s)
  BY DEF Overlap, Mtnfa!Contract!Overlap
<1> QED
  BY <1>1, <1>2 DEF Mtnfa!Contract!Answers

\* Only a transducer whose delta is non-deterministic makes the construction throw.
LEMMA FusedThrowAnswers == FusedInv /\ Mtnfa!ThrowNondeterministic => Mtnfa!Contract!Answer
<1> SUFFICES ASSUME FusedInv, Mtnfa!ThrowNondeterministic PROVE Mtnfa!Contract!Answer
  OBVIOUS
<1> DEFINE key == Head(pending)
<1>1. /\ mPhase = "build" /\ pending # <<>> /\ Nondeterministic(problem, key.q)
      /\ mResult' = "runtime_error" /\ problem' = problem
  BY MtnfaVocabulary DEF Mtnfa!ThrowNondeterministic, Mtnfa!Rejects
<1>2. /\ problem \in Problems /\ mResult = "none"
      /\ DOMAIN subsetIndex \subseteq FusedKeys(problem) /\ pending \in Seq(DOMAIN subsetIndex)
  BY <1>1 DEF FusedInv, FusedTable, QueueOrder
<1>3. key \in FusedKeys(problem)
  <2> DEFINE D == DOMAIN subsetIndex
  <2> HIDE DEF D
  <2>1. key \in D
    BY <1>1, <1>2, HeadTailProperties DEF D
  <2> QED
    BY <1>2, <2>1 DEF D
<1>4. key.q \in Vectors(problem)
  BY <1>2, <1>3, FusedKeyMeans
<1>5. PICK t \in DOMAIN problem.taus : Overlap(problem.taus[t], key.q[t])
  BY <1>1 DEF Nondeterministic
<1>6. key.q[t] \in problem.taus[t].states
  BY <1>4, <1>5 DEF Vectors
<1>7. "runtime_error" \in Mtnfa!Contract!Answers(problem)
  BY <1>5, <1>6, MtnfaContractAnswers
<1> QED
  BY <1>1, <1>2, <1>7 DEF Mtnfa!Contract!Answer

LEMMA FusedSolveAnswers == FusedInv /\ Mtnfa!Solve => Mtnfa!Contract!Answer
<1> SUFFICES ASSUME FusedInv, Mtnfa!Solve PROVE Mtnfa!Contract!Answer
  OBVIOUS
<1>1. /\ mPhase = "built" /\ problem' = problem
      /\ mResult' = IF 0 \in Winning(Mtnfa!ByIndex) THEN "controller" ELSE "unrealizable"
  BY MtnfaVocabulary DEF Mtnfa!Solve
<1>2. problem \in Problems /\ mResult = "none" /\ FusedTable(problem, subsetIndex, <<>>, rows)
  BY <1>1 DEF FusedInv
<1>3. 0 \in Winning(Mtnfa!ByIndex) <=> SystemWins(problem)
  BY <1>2, FusedIsGame DEF Mtnfa!ByIndex
<1>4. mResult' \in Mtnfa!Contract!Answers(problem) /\ mResult' # "none"
  BY <1>1, <1>3, MtnfaContractAnswers
<1> QED
  BY <1>1, <1>2, <1>4 DEF Mtnfa!Contract!Answer

LEMMA FusedStutters ==
  StepNfa \/ Mtnfa!Expand \/ Mtnfa!FinishBuild \/ UNCHANGED <<vars, mVars>> => UNCHANGED <<problem, mResult>>
<1>1. StepNfa => UNCHANGED <<problem, mResult>>
  BY DEF StepNfa, mVars, Next, Complete, ThrowNondeterministic, Explore, Materialize, Determinize,
     FinishDeterminize, Solve
<1>2. Mtnfa!Expand \/ Mtnfa!FinishBuild \/ UNCHANGED <<vars, mVars>> => UNCHANGED <<problem, mResult>>
  BY DEF Mtnfa!Expand, Mtnfa!FinishBuild, mVars, vars
<1> QED
  BY <1>1, <1>2

\* The fused construction and solve_mtdfa give one answer, and a controller exactly when
\* the system wins the reference game.
THEOREM FusedMeetsContract == FormsSpec => MtnfaImplementsContract
<1>1. FormsInit => Mtnfa!Contract!Init
  BY ProblemsWellFormed, MtnfaContractInput DEF FormsInit, Init, Mtnfa!Init, Mtnfa!Contract!Init
<1>2. FusedInv /\ [StepNfa \/ StepMtnfa]_<<vars, mVars>> => [Mtnfa!Contract!Answer]_<<problem, mResult>>
  BY FusedThrowAnswers, FusedSolveAnswers, FusedStutters DEF StepMtnfa, Mtnfa!Next
<1> QED
  BY <1>1, <1>2, FusedInvariant, PTL
  DEF FormsSpec, MtnfaImplementsContract, Mtnfa!ImplementsContract, Mtnfa!Contract!Spec

-----------------------------------------------------------------------------
(* The explicit method.  First the goal it completes.                       *)

\* The states that a letter leads to from one state.
Leads(aut, s, l) == {e.dst : e \in {x \in aut[s] : l \in x.guard}}

LEMMA SuccessorsByState ==
  ASSUME NEW aut, NEW S, NEW l
  PROVE  /\ NfaSuccessors(aut, S, l) = UNION {Leads(aut, s, l) : s \in S}
         /\ \A s : NfaSuccessors(aut, {s}, l) = Leads(aut, s, l)
BY DEF NfaSuccessors, Leads

\* g is the goal of p with the missing letters led to a rejecting sink.
IsCompletion(p, g) ==
  /\ IsFiniteSet(DOMAIN g) /\ DOMAIN p.nfa \subseteq DOMAIN g /\ DOMAIN g \subseteq DOMAIN p.nfa \cup {Sink}
  /\ \A s \in DOMAIN g, l \in Letter : Leads(g, s, l) # {} /\ Leads(g, s, l) \subseteq DOMAIN g
  /\ \A s \in DOMAIN p.nfa, l \in Letter : Leads(g, s, l) \ {Sink} = Leads(p.nfa, s, l)
  /\ \A s \in DOMAIN p.nfa : StateIsAccepting(g[s]) <=> StateIsAccepting(p.nfa[s])
  /\ Sink \notin DOMAIN p.nfa
  /\ Sink \in DOMAIN g => ~StateIsAccepting(g[Sink]) /\ \A l \in Letter : Leads(g, Sink, l) = {Sink}

LEMMA CompletedMeans ==
  ASSUME NEW p \in Problems
  PROVE  IsCompletion(p, CompleteGoal(p))
<1> DEFINE nfa == p.nfa
           D == DOMAIN nfa
           g == Completed(nfa)
<1>1. /\ IsFiniteSet(D) /\ Sink \notin D
      /\ \A s \in D : nfa[s] \subseteq [dst : D, guard : SUBSET Letter, mark : BOOLEAN]
  <2>1. IsNfa(nfa)
    BY GoalNfa
  <2> QED
    BY <2>1, SinkIsNew DEF IsNfa
<1>2. \A s \in D, l \in Letter : Leads(nfa, s, l) \subseteq D
  BY <1>1 DEF Leads
<1>3. \A s \in D, l \in Letter : l \notin Uncovered(nfa[s]) => Leads(nfa, s, l) # {}
  BY DEF Uncovered, Leads
<1>4. CASE \A s \in D : Uncovered(nfa[s]) = {}
  <2>1. g = nfa
    BY <1>4 DEF Completed
  <2>2. \A s \in D, l \in Letter : Leads(nfa, s, l) # {}
    BY <1>3, <1>4
  <2> QED
    BY <1>1, <1>2, <2>1, <2>2 DEF IsCompletion, CompleteGoal
<1>5. CASE ~ \A s \in D : Uncovered(nfa[s]) = {}
  <2> DEFINE Loop == {[dst |-> Sink, guard |-> Letter, mark |-> FALSE]}
             Acc(s) == StateIsAccepting(nfa[s])
             Rest(s) == {Uncovered(nfa[s])} \ {{}}
             More(s) == {[dst |-> Sink, guard |-> u, mark |-> Acc(s)] : u \in Rest(s)}
  <2>1. g = [s \in D \cup {Sink} |-> IF s = Sink THEN Loop ELSE nfa[s] \cup More(s)]
    BY <1>5 DEF Completed
  <2>2. DOMAIN g = D \cup {Sink} /\ g[Sink] = Loop /\ \A s \in D : g[s] = nfa[s] \cup More(s)
    BY <1>1, <2>1
  <2>3. IsFiniteSet(D \cup {Sink})
    BY <1>1, FS_AddElement
  <2>4. ~StateIsAccepting(Loop) /\ \A l \in Letter : {e.dst : e \in {x \in Loop : l \in x.guard}} = {Sink}
    <3> DEFINE loop == [dst |-> Sink, guard |-> Letter, mark |-> FALSE]
    <3>1. loop.dst = Sink /\ loop.guard = Letter
      OBVIOUS
    <3>2. ~loop.mark
      OBVIOUS
    <3> HIDE DEF loop
    <3>3. ~StateIsAccepting({loop})
      BY <3>2 DEF StateIsAccepting
    <3>4. \A l \in Letter : {e.dst : e \in {x \in {loop} : l \in x.guard}} = {Sink}
      BY <3>1
    <3>5. Loop = {loop}
      BY DEF loop
    <3> HIDE DEF Loop
    <3> QED
      BY <3>3, <3>4, <3>5
  <2>5. ASSUME NEW s \in D, NEW l \in Letter
        PROVE  /\ Leads(g, s, l) # {} /\ Leads(g, s, l) \subseteq D \cup {Sink}
               /\ Leads(g, s, l) \ {Sink} = Leads(nfa, s, l)
    <3> DEFINE X == {e.dst : e \in {x \in More(s) : l \in x.guard}}
    <3>1. X \subseteq {Sink}
      OBVIOUS
    <3>2. l \in Uncovered(nfa[s]) => Sink \in X
      <4> SUFFICES ASSUME l \in Uncovered(nfa[s]) PROVE Sink \in X
        OBVIOUS
      <4> DEFINE u == Uncovered(nfa[s])
                 e == [dst |-> Sink, guard |-> u, mark |-> Acc(s)]
      <4>1. u \in Rest(s)
        OBVIOUS
      <4>2. e \in More(s)
        BY <4>1
      <4>3. e.dst = Sink /\ e.guard = u
        OBVIOUS
      <4> HIDE DEF e
      <4> QED
        BY <4>2, <4>3
    <3> HIDE DEF More
    <3>3. Leads(g, s, l) = Leads(nfa, s, l) \cup X
      BY <2>2 DEF Leads
    <3> HIDE DEF X, g
    <3> QED
      BY <1>1, <1>2, <1>3, <3>1, <3>2, <3>3
  <2>6. ASSUME NEW s \in D
        PROVE  StateIsAccepting(g[s]) <=> StateIsAccepting(nfa[s])
    <3> DEFINE b == Acc(s)
    <3>1. b <=> \E e \in nfa[s] : e.mark
      BY DEF StateIsAccepting
    <3>2. \A e \in More(s) : e.mark = b
      OBVIOUS
    <3>3. StateIsAccepting(g[s]) <=> \E e \in nfa[s] \cup More(s) : e.mark
      BY <2>2 DEF StateIsAccepting
    <3> HIDE DEF b, More, g
    <3>4. StateIsAccepting(g[s]) <=> b
      BY <3>1, <3>2, <3>3
    <3> QED
      BY <3>4 DEF b
  <2>7. \A l \in Letter : Leads(g, Sink, l) = {Sink}
    BY <2>2, <2>4 DEF Leads
  <2> HIDE DEF g, Loop, More
  <2>8. \A s \in DOMAIN g, l \in Letter : Leads(g, s, l) # {} /\ Leads(g, s, l) \subseteq DOMAIN g
    BY <2>2, <2>5, <2>7
  <2>9. ~StateIsAccepting(g[Sink])
    BY <2>2, <2>4
  <2>10. IsCompletion(p, g)
    BY <1>1, <2>2, <2>3, <2>5, <2>6, <2>7, <2>8, <2>9 DEF IsCompletion
  <2> QED
    BY <2>10 DEF g, CompleteGoal
<1> QED
  BY <1>4, <1>5

-----------------------------------------------------------------------------
(* The product of the completed goal with the transducers.                  *)

\* The product states of p: a state of the completed goal and a vector.
NfaStates(p) == [goal : DOMAIN CompleteGoal(p), taus : Vectors(p)]

\* What a letter leads to from s: nothing, unless the transducers agree on it.
Allowed(p, s, l) ==
  {t \in NondetSuccessors(p, CompleteGoal(p), s, l) : l \in Agreeing(p, s.taus)}

LEMMA InitialNfaState ==
  ASSUME NEW p \in Problems
  PROVE  NfaInitialState(p) \in NfaStates(p)
<1>1. p.init \in DOMAIN CompleteGoal(p) /\ InitialVector(p) \in Vectors(p)
  BY GoalNfa, CompletedMeans, InitialVectorType DEF IsCompletion
<1> QED
  BY <1>1 DEF NfaInitialState, NfaStates

LEMMA NondetMeans ==
  ASSUME NEW p \in Problems, NEW s \in NfaStates(p), NEW l \in Agreeing(p, s.taus)
  PROVE  /\ NondetSuccessors(p, CompleteGoal(p), s, l)
              = {[goal |-> t, taus |-> Delta(p, s.taus, l)] : t \in Leads(CompleteGoal(p), s.goal, l)}
         /\ NondetSuccessors(p, CompleteGoal(p), s, l) # {}
         /\ NondetSuccessors(p, CompleteGoal(p), s, l) \subseteq NfaStates(p)
<1> DEFINE g == CompleteGoal(p)
           r == Delta(p, s.taus, l)
           N == NondetSuccessors(p, g, s, l)
           T == Leads(g, s.goal, l)
<1>1. s.goal \in DOMAIN g /\ s.taus \in Vectors(p) /\ l \in Letter /\ WellFormed(p)
  BY GoalNfa DEF NfaStates, Agreeing, Emitted
<1>2. r \in Vectors(p)
  BY <1>1, DeltaType DEF Agreeing
<1>3. IsCompletion(p, g)
  BY CompletedMeans
<1> HIDE DEF g
<1>4. T # {} /\ T \subseteq DOMAIN g
  BY <1>1, <1>3 DEF IsCompletion
<1>5. N = {[goal |-> t, taus |-> r] : t \in T}
  BY SuccessorsByState DEF NondetSuccessors
<1> HIDE DEF r, T, N
<1>6. N # {} /\ N \subseteq [goal : DOMAIN g, taus : Vectors(p)]
  <2>1. PICK t \in T : TRUE
    BY <1>4
  <2>2. [goal |-> t, taus |-> r] \in N
    BY <1>5, <2>1
  <2>3. ASSUME NEW x \in N
        PROVE  x \in [goal : DOMAIN g, taus : Vectors(p)]
    <3>1. PICK u \in T : x = [goal |-> u, taus |-> r]
      BY <1>5
    <3>2. u \in DOMAIN g
      BY <1>4
    <3> QED
      BY ONLY <1>2, <3>1, <3>2
  <2> QED
    BY <2>2, <2>3
<1>7. NondetSuccessors(p, CompleteGoal(p), s, l)
        = {[goal |-> t, taus |-> Delta(p, s.taus, l)] : t \in Leads(CompleteGoal(p), s.goal, l)}
  BY <1>5 DEF r, T, N, g
<1>8. NondetSuccessors(p, CompleteGoal(p), s, l) # {} /\ NondetSuccessors(p, CompleteGoal(p), s, l) \subseteq NfaStates(p)
  BY <1>6 DEF N, g, NfaStates
<1> QED
  BY <1>7, <1>8

\* The guards of a node: an edge for each state that some agreeing letter leads to.
LEMMA NondetGuardsMean ==
  ASSUME NEW p \in Problems, NEW s \in NfaStates(p)
  PROVE  LET G == NondetGuards(p, CompleteGoal(p), s)
         IN  /\ \A t : t \in DOMAIN G <=> \E l \in Letter : t \in Allowed(p, s, l)
             /\ \A t \in DOMAIN G : \A l : l \in G[t] <=> l \in Letter /\ t \in Allowed(p, s, l)
             /\ DOMAIN G \subseteq NfaStates(p) /\ IsFiniteSet(DOMAIN G)
<1> DEFINE g == CompleteGoal(p)
           L == Agreeing(p, s.taus)
           N(l) == NondetSuccessors(p, g, s, l)
           to == [l \in L |-> N(l)]
           G == NondetGuards(p, g, s)
<1>1. DOMAIN G = UNION Range(to) /\ \A t \in DOMAIN G : G[t] = {l \in L : t \in N(l)}
  BY DEF NondetGuards
<1>2. Range(to) = {N(l) : l \in L}
  BY DEF Range
<1>3. L \subseteq Letter /\ IsFiniteSet(L)
  <2>1. L \subseteq Letter
    BY DEF Agreeing, Emitted
  <2> QED
    BY <2>1, LettersFinite, FS_Subset
<1>4. \A l : Allowed(p, s, l) = {t \in N(l) : l \in L}
  BY DEF Allowed
<1>5. ASSUME NEW l \in L
      PROVE  N(l) = {[goal |-> t, taus |-> Delta(p, s.taus, l)] : t \in Leads(g, s.goal, l)} /\ N(l) \subseteq NfaStates(p)
  BY NondetMeans
<1>6. IsFiniteSet(DOMAIN g) /\ \A l \in L : Leads(g, s.goal, l) \subseteq DOMAIN g
  BY <1>3, CompletedMeans DEF IsCompletion, NfaStates
<1> HIDE DEF g, N, to, G, L
<1>7. \A t : t \in DOMAIN G <=> \E l \in L : t \in N(l)
  BY <1>1, <1>2
<1>8. DOMAIN G \subseteq NfaStates(p)
  BY <1>5, <1>7
<1>9. IsFiniteSet(DOMAIN G)
  <2> DEFINE X == L \X DOMAIN g
             make == [x \in X |-> [goal |-> x[2], taus |-> Delta(p, s.taus, x[1])]]
             Y == {make[x] : x \in X}
  <2>1. IsFiniteSet(X)
    BY <1>3, <1>6, FS_Product
  <2>2. make \in Surjection(X, Y)
    <3> HIDE DEF X
    <3> QED
      BY DEF Surjection
  <2>3. IsFiniteSet(Y)
    <3> HIDE DEF X, Y, make
    <3> QED
      BY <2>1, <2>2, FS_Surjection
  <2>4. ASSUME NEW t \in DOMAIN G
        PROVE  t \in Y
    <3>1. PICK l \in L : t \in N(l)
      BY <1>7
    <3>2. PICK u \in Leads(g, s.goal, l) : t = [goal |-> u, taus |-> Delta(p, s.taus, l)]
      BY <1>5, <3>1
    <3>3. <<l, u>> \in X /\ make[<<l, u>>] = t
      BY <1>6, <3>2
    <3> HIDE DEF make, X
    <3> QED
      BY <3>3
  <2> HIDE DEF Y
  <2>5. DOMAIN G \subseteq Y
    BY <2>4
  <2> QED
    BY <2>3, <2>5, FS_Subset
<1>10. \A t : t \in DOMAIN G <=> \E l \in Letter : t \in Allowed(p, s, l)
  BY <1>3, <1>4, <1>7
<1>11. \A t \in DOMAIN G : \A l : l \in G[t] <=> l \in Letter /\ t \in Allowed(p, s, l)
  BY <1>1, <1>3, <1>4
<1> QED
  BY <1>8, <1>9, <1>10, <1>11 DEF G, g

-----------------------------------------------------------------------------
(* The graph of the build.                                                  *)

\* The node of s has an edge for each agreeing letter.
FinishedNode(p, ns, s) ==
  /\ ns[s].guards = NondetGuards(p, CompleteGoal(p), s)
  /\ DOMAIN NondetGuards(p, CompleteGoal(p), s) \subseteq DOMAIN ns

HasAcceptance(p, ns, s) ==
  ns[s] = [acc |-> StateIsAccepting(CompleteGoal(p)[s.goal]), guards |-> ns[s].guards]

\* Every node is a product state with its acceptance, and waits or has its guards.
GraphSoFar(p, ns, w) ==
  /\ IsFiniteSet(DOMAIN ns) /\ DOMAIN ns \subseteq NfaStates(p)
  /\ NfaInitialState(p) \in DOMAIN ns
  /\ w \in Seq(DOMAIN ns)
  /\ \A s \in DOMAIN ns : HasAcceptance(p, ns, s)
  /\ \A s \in DOMAIN ns : Waits(w, s) \/ FinishedNode(p, ns, s)

LEMMA GraphBegins ==
  ASSUME NEW p \in Problems, NEW ns, NEW w,
         ns = [x \in {NfaInitialState(p)} |-> FreshNode(CompleteGoal(p), NfaInitialState(p))],
         w = <<NfaInitialState(p)>>
  PROVE  GraphSoFar(p, ns, w)
<1> DEFINE s0 == NfaInitialState(p)
<1>1. s0 \in NfaStates(p)
  BY InitialNfaState
<1>2. DOMAIN ns = {s0} /\ ns[s0] = FreshNode(CompleteGoal(p), s0)
  OBVIOUS
<1> HIDE DEF s0
<1>3. IsFiniteSet({s0}) /\ {s0} \subseteq NfaStates(p)
  BY <1>1, FS_Singleton
<1>4. w \in Seq({s0}) /\ Waits(w, s0)
  BY DEF Waits, s0
<1>5. HasAcceptance(p, ns, s0)
  BY <1>2 DEF FreshNode, HasAcceptance
<1> QED
  BY <1>2, <1>3, <1>4, <1>5 DEF GraphSoFar, s0

\* The node of s after the iteration that gives s0 its guards.
NodeAfter(p, nds, s0, guards, new, s) ==
  IF s = s0 THEN [nds[s0] EXCEPT !.guards = guards]
  ELSE IF s \in new THEN FreshNode(CompleteGoal(p), s) ELSE nds[s]

\* One iteration of the build: the head of the worklist gets its guards.
LEMMA GraphGrows ==
  ASSUME NEW p \in Problems, NEW nds, NEW w, GraphSoFar(p, nds, w), w # <<>>,
         NEW guards, guards = NondetGuards(p, CompleteGoal(p), Head(w)),
         NEW new, new = DOMAIN guards \ DOMAIN nds,
         NEW ns \in Orders(new),
         NEW more, more = [s \in DOMAIN nds \cup new |-> NodeAfter(p, nds, Head(w), guards, new, s)]
  PROVE  GraphSoFar(p, more, Tail(w) \o ns)
<1> DEFINE D == DOMAIN nds
           s0 == Head(w)
           v == Tail(w) \o ns
           g == CompleteGoal(p)
<1>1. /\ IsFiniteSet(D) /\ D \subseteq NfaStates(p) /\ NfaInitialState(p) \in D /\ w \in Seq(D)
      /\ \A s \in D : HasAcceptance(p, nds, s)
      /\ \A s \in D : Waits(w, s) \/ FinishedNode(p, nds, s)
  BY DEF GraphSoFar
<1>2. s0 \in D
  BY <1>1, HeadTailProperties
<1>3. DOMAIN guards \subseteq NfaStates(p) /\ IsFiniteSet(DOMAIN guards)
  <2> DEFINE G == NondetGuards(p, CompleteGoal(p), Head(w))
  <2>1. s0 \in NfaStates(p)
    BY <1>1, <1>2
  <2> HIDE DEF s0, D
  <2>2. DOMAIN NondetGuards(p, CompleteGoal(p), s0) \subseteq NfaStates(p)
        /\ IsFiniteSet(DOMAIN NondetGuards(p, CompleteGoal(p), s0))
    BY <2>1, NondetGuardsMean
  <2> QED
    BY <2>2 DEF s0
<1>4. IsFiniteSet(new) /\ IsFiniteSet(D \cup new) /\ new \cap D = {} /\ DOMAIN guards \subseteq D \cup new
  BY <1>1, <1>3, FS_Subset, FS_Union
<1>5. DOMAIN more = D \cup new /\ D \cup new \subseteq NfaStates(p)
  BY <1>1, <1>3
<1>6. more[s0] = [acc |-> StateIsAccepting(g[s0.goal]), guards |-> guards]
  <2> DEFINE gs == nds[s0].guards
             a == StateIsAccepting(g[s0.goal])
  <2>1. nds[s0] = [acc |-> a, guards |-> gs]
    BY <1>1, <1>2 DEF HasAcceptance
  <2>2. more[s0] = [nds[s0] EXCEPT !.guards = guards]
    BY <1>2 DEF NodeAfter
  <2> HIDE DEF gs, a
  <2>3. more[s0] = [acc |-> a, guards |-> guards]
    BY <2>1, <2>2
  <2> QED
    BY <2>3 DEF a
<1>7. \A s \in new : s # s0 /\ more[s] = FreshNode(g, s)
  BY <1>2, <1>4 DEF NodeAfter
<1>8. \A s \in D : s # s0 => more[s] = nds[s]
  BY <1>4 DEF NodeAfter
<1> HIDE DEF D
<1>9. /\ v \in Seq(D \cup new)
      /\ \A x \in new : Waits(v, x)
      /\ \A x : Waits(w, x) /\ x # s0 => Waits(v, x)
  <2>1. w \in Seq(D) /\ w # <<>> /\ IsFiniteSet(new) /\ ns \in Orders(new)
    BY <1>1, <1>4
  <2>2. /\ Tail(w) \o ns \in Seq(D \cup new)
        /\ \A x \in new : Waits(Tail(w) \o ns, x)
        /\ \A x : Waits(w, x) /\ x # Head(w) => Waits(Tail(w) \o ns, x)
    BY ONLY <2>1, WorklistStep
  <2> QED
    BY <2>2
<1> HIDE DEF s0, v, g
<1>10. ASSUME NEW s \in D \cup new
       PROVE  HasAcceptance(p, more, s) /\ (Waits(v, s) \/ FinishedNode(p, more, s))
  <2>1. CASE s = s0
    <3>1. more[s].guards = guards
      BY <1>6, <2>1
    <3>2. HasAcceptance(p, more, s)
      BY <1>6, <2>1, <3>1 DEF HasAcceptance, g
    <3>3. guards = NondetGuards(p, CompleteGoal(p), s)
      BY <2>1 DEF s0
    <3> QED
      BY <1>4, <1>5, <3>1, <3>2, <3>3 DEF FinishedNode
  <2>2. CASE s \in new
    <3>1. more[s] = FreshNode(g, s)
      BY <1>7, <2>2
    <3>2. HasAcceptance(p, more, s)
      <4> DEFINE a == StateIsAccepting(g[s.goal])
      <4>1. more[s] = [acc |-> a, guards |-> <<>>]
        BY <3>1 DEF FreshNode
      <4> HIDE DEF a
      <4>2. more[s].guards = <<>>
        BY <4>1
      <4>3. more[s] = [acc |-> a, guards |-> more[s].guards]
        BY <4>1, <4>2
      <4> QED
        BY <4>3 DEF HasAcceptance, a, g
    <3> QED
      BY <1>9, <2>2, <3>2
  <2>3. CASE s \in D /\ s # s0
    <3>1. more[s] = nds[s]
      BY <1>8, <2>3
    <3>2. FinishedNode(p, nds, s) => FinishedNode(p, more, s)
      BY <1>5, <3>1 DEF FinishedNode, D
    <3>3. HasAcceptance(p, more, s)
      BY <1>1, <2>3, <3>1 DEF HasAcceptance
    <3> QED
      BY <1>1, <1>9, <2>3, <3>2, <3>3
  <2> QED
    BY <2>1, <2>2, <2>3
<1>11. NfaInitialState(p) \in DOMAIN more /\ IsFiniteSet(DOMAIN more) /\ v \in Seq(DOMAIN more) /\ DOMAIN more \subseteq NfaStates(p)
  BY <1>1, <1>4, <1>5, <1>9
<1>12. /\ \A s \in DOMAIN more : HasAcceptance(p, more, s)
       /\ \A s \in DOMAIN more : Waits(v, s) \/ FinishedNode(p, more, s)
  BY <1>5, <1>10
<1> QED
  BY <1>11, <1>12 DEF GraphSoFar, v

\* aut is the product: a letter leads from a state to what the completed goal and the
\* transducers allow, and acceptance is the goal's.
IsProduct(p, aut) ==
  /\ DOMAIN aut \subseteq NfaStates(p) /\ NfaInitialState(p) \in DOMAIN aut
  /\ \A s \in DOMAIN aut : StateIsAccepting(aut[s]) <=> StateIsAccepting(CompleteGoal(p)[s.goal])
  /\ \A s \in DOMAIN aut, l \in Letter :
       Leads(aut, s, l) = Allowed(p, s, l) /\ Allowed(p, s, l) \subseteq DOMAIN aut

\* What reading a state back says, whatever the edges that were written.
LEMMA ReadableMeans ==
  ASSUME NEW s, NEW acc \in BOOLEAN, NEW es, \A e \in es : e.mark = acc
  PROVE  /\ StateIsAccepting(Readable(s, acc, es)) <=> acc
         /\ \A e : e \in Readable(s, acc, es) /\ e.guard # {} => e \in es
         /\ es \subseteq Readable(s, acc, es)
<1>1. CASE es = {} /\ acc
  <2> DEFINE loop == [dst |-> s, guard |-> {}, mark |-> TRUE]
  <2>1. Readable(s, acc, es) = {loop}
    BY <1>1 DEF Readable
  <2>2. loop.guard = {}
    OBVIOUS
  <2>3. loop.mark
    OBVIOUS
  <2> HIDE DEF loop
  <2> QED
    BY <1>1, <2>1, <2>2, <2>3 DEF StateIsAccepting
<1>2. CASE es = {} /\ ~acc
  BY <1>2 DEF Readable, StateIsAccepting
<1>3. CASE es # {}
  BY <1>3 DEF Readable, StateIsAccepting
<1> QED
  BY <1>1, <1>2, <1>3

LEMMA GraphIsProduct ==
  ASSUME NEW p \in Problems, NEW ns, GraphSoFar(p, ns, <<>>)
  PROVE  IsProduct(p, Materialized(ns))
<1> DEFINE D == DOMAIN ns
           aut == Materialized(ns)
           Acc(s) == StateIsAccepting(CompleteGoal(p)[s.goal])
           Es(s) == {[dst |-> d, guard |-> ns[s].guards[d], mark |-> ns[s].acc] : d \in DOMAIN ns[s].guards}
<1>1. /\ D \subseteq NfaStates(p) /\ NfaInitialState(p) \in D
      /\ \A s \in D : HasAcceptance(p, ns, s) /\ FinishedNode(p, ns, s)
  BY DEF GraphSoFar, Waits
<1>2. DOMAIN aut = D /\ \A s \in D : aut[s] = Readable(s, ns[s].acc, Es(s))
  BY DEF Materialized
<1>3. ASSUME NEW s \in D
      PROVE  ns[s].acc = Acc(s)
  <2> DEFINE a == Acc(s)
             gs == ns[s].guards
  <2>1. ns[s] = [acc |-> a, guards |-> gs]
    BY <1>1 DEF HasAcceptance
  <2> HIDE DEF a, gs
  <2>2. ns[s].acc = a
    BY <2>1
  <2> QED
    BY <2>2 DEF a
<1>4. ASSUME NEW s \in D
      PROVE  /\ StateIsAccepting(aut[s]) <=> Acc(s)
             /\ \A e : e \in aut[s] /\ e.guard # {} => e \in Es(s)
             /\ Es(s) \subseteq aut[s]
  <2> DEFINE a == ns[s].acc
             es == Es(s)
  <2>1. \A e \in es : e.mark = a
    OBVIOUS
  <2>2. a = Acc(s)
    BY <1>3
  <2>3. a \in BOOLEAN
    BY <2>2 DEF StateIsAccepting
  <2>4. aut[s] = Readable(s, a, es)
    BY <1>2
  <2> HIDE DEF a, es, aut, Acc
  <2>5. /\ StateIsAccepting(Readable(s, a, es)) <=> a
        /\ \A e : e \in Readable(s, a, es) /\ e.guard # {} => e \in es
        /\ es \subseteq Readable(s, a, es)
    BY ONLY <2>1, <2>3, ReadableMeans
  <2>6. StateIsAccepting(aut[s]) <=> Acc(s)
    BY <2>2, <2>4, <2>5
  <2> QED
    BY <2>4, <2>5, <2>6 DEF es
<1>5. ASSUME NEW s \in D, NEW l \in Letter
      PROVE  Leads(aut, s, l) = Allowed(p, s, l) /\ Allowed(p, s, l) \subseteq D
  <2> DEFINE G == NondetGuards(p, CompleteGoal(p), s)
  <2>1. ns[s].guards = G /\ DOMAIN G \subseteq D
    BY <1>1 DEF FinishedNode
  <2>2. /\ \A t : t \in DOMAIN G <=> \E m \in Letter : t \in Allowed(p, s, m)
        /\ \A t \in DOMAIN G : \A m : m \in G[t] <=> m \in Letter /\ t \in Allowed(p, s, m)
    BY <1>1, NondetGuardsMean
  <2> HIDE DEF G, aut
  <2>3. Es(s) = {[dst |-> d, guard |-> G[d], mark |-> ns[s].acc] : d \in DOMAIN G}
    BY <2>1
  <2> HIDE DEF Es
  <2>4. ASSUME NEW t \in Leads(aut, s, l)
        PROVE  t \in Allowed(p, s, l)
    <3>1. PICK e \in aut[s] : l \in e.guard /\ t = e.dst
      BY DEF Leads
    <3>2. e \in Es(s)
      BY <1>4, <3>1
    <3>3. PICK d \in DOMAIN G : e = [dst |-> d, guard |-> G[d], mark |-> ns[s].acc]
      BY <2>3, <3>2
    <3>4. e.dst = d /\ e.guard = G[d]
      BY <3>3
    <3> QED
      BY <2>2, <3>1, <3>4
  <2>5. ASSUME NEW t \in Allowed(p, s, l)
        PROVE  t \in Leads(aut, s, l) /\ t \in D
    <3> DEFINE e == [dst |-> t, guard |-> G[t], mark |-> ns[s].acc]
    <3>1. t \in DOMAIN G /\ l \in G[t]
      BY <2>2
    <3>2. e.dst = t /\ e.guard = G[t]
      OBVIOUS
    <3>3. e \in Es(s)
      BY <2>3, <3>1
    <3> HIDE DEF e
    <3>4. e \in aut[s]
      BY <1>4, <3>3
    <3>5. t \in Leads(aut, s, l)
      BY <3>1, <3>2, <3>4 DEF Leads
    <3> QED
      BY <2>1, <3>1, <3>5
  <2> QED
    BY <2>4, <2>5
<1> HIDE DEF aut, D
<1> QED
  BY <1>1, <1>2, <1>4, <1>5 DEF IsProduct, aut

-----------------------------------------------------------------------------
(* The sets of product states that the subset construction meets.           *)

Pairing(T, q) == {[goal |-> t, taus |-> q] : t \in T}
GoalsOf(S) == {s.goal : s \in S}
VectorOf(S) == CHOOSE q : q \in VectorsOf(S)

\* The states of the goal that are still alive.
Living(S) == GoalsOf(S) \ {Sink}

LEMMA PairingMeans ==
  ASSUME NEW T, T # {}, NEW q
  PROVE  /\ GoalsOf(Pairing(T, q)) = T /\ VectorsOf(Pairing(T, q)) = {q} /\ VectorOf(Pairing(T, q)) = q
         /\ Pairing(T, q) # {}
<1> DEFINE S == Pairing(T, q)
<1>1. \A t \in T : [goal |-> t, taus |-> q] \in S /\ [goal |-> t, taus |-> q].goal = t
                   /\ [goal |-> t, taus |-> q].taus = q
  BY DEF Pairing
<1>2. \A s \in S : s.goal \in T /\ s.taus = q
  BY DEF Pairing
<1> HIDE DEF S
<1>3. GoalsOf(S) = T
  BY <1>1, <1>2 DEF GoalsOf
<1>4. S # {}
  BY <1>1
<1>5. VectorsOf(S) = {q}
  BY <1>2, <1>4 DEF VectorsOf
<1>6. VectorOf(S) = q
  BY <1>5 DEF VectorOf
<1> QED
  BY <1>3, <1>4, <1>5, <1>6 DEF S

\* A set of states of the product with one vector, whose living goals are a residual of
\* the goal or none.
IsSubset(p, aut, S) ==
  /\ S = Pairing(GoalsOf(S), VectorOf(S)) /\ S # {} /\ S \subseteq DOMAIN aut
  /\ VectorOf(S) \in Vectors(p)
  /\ Living(S) \in p.formulas \cup {{}}

LEMMA InitialSubset ==
  ASSUME NEW p \in Problems, NEW aut, IsProduct(p, aut)
  PROVE  LET S == {NfaInitialState(p)}
         IN  IsSubset(p, aut, S) /\ VectorOf(S) = InitialVector(p) /\ Living(S) = {p.init}
<1> DEFINE S == {NfaInitialState(p)}
           T == {p.init}
           q == InitialVector(p)
<1>1. S = Pairing(T, q)
  BY DEF NfaInitialState, Pairing
<1>2. T # {} /\ Sink \notin T /\ T \in p.formulas /\ q \in Vectors(p) /\ S \subseteq DOMAIN aut
  <2>1. p.init # Sink /\ WellFormed(p) /\ p.phi = T
    BY GoalNfa, CompletedMeans DEF IsCompletion
  <2>2. NfaInitialState(p) \in DOMAIN aut
    BY DEF IsProduct
  <2> QED
    BY <2>1, <2>2, InitialVectorType DEF WellFormed
<1> HIDE DEF S, T, q
<1>3. GoalsOf(S) = T /\ VectorOf(S) = q /\ S # {}
  BY <1>1, <1>2, PairingMeans
<1>4. Living(S) = T
  BY <1>2, <1>3 DEF Living
<1>5. IsSubset(p, aut, S)
  BY <1>1, <1>2, <1>3, <1>4 DEF IsSubset
<1> QED
  BY <1>3, <1>4, <1>5 DEF S, T, q

LEMMA SubsetMember ==
  ASSUME NEW p \in Problems, NEW aut, IsProduct(p, aut), NEW S, IsSubset(p, aut, S)
  PROVE  /\ \A s \in S : s \in DOMAIN aut /\ s \in NfaStates(p) /\ s.taus = VectorOf(S) /\ s.goal \in GoalsOf(S)
         /\ \A t \in GoalsOf(S) : \E s \in S : s.goal = t
         /\ GoalsOf(S) # {} /\ GoalsOf(S) \subseteq DOMAIN CompleteGoal(p)
<1> DEFINE T == GoalsOf(S)
           q == VectorOf(S)
<1>1. S = Pairing(T, q) /\ S # {} /\ S \subseteq DOMAIN aut /\ DOMAIN aut \subseteq NfaStates(p)
  BY DEF IsSubset, IsProduct
<1>2. \A s \in S : s.goal \in T
  BY DEF GoalsOf
<1>3. \A t \in T : \E s \in S : s.goal = t
  BY DEF GoalsOf
<1>4. \A s \in S : s.taus = q
  <2> HIDE DEF T, q
  <2> QED
    BY <1>1 DEF Pairing
<1>5. \A s \in S : s.goal \in DOMAIN CompleteGoal(p)
  BY <1>1 DEF NfaStates
<1> HIDE DEF T, q
<1>6. T # {} /\ T \subseteq DOMAIN CompleteGoal(p)
  BY <1>1, <1>2, <1>3, <1>5
<1> QED
  BY <1>1, <1>2, <1>3, <1>4, <1>6 DEF T, q

\* A set accepts when one of its living goals does.
LEMMA SubsetAccepts ==
  ASSUME NEW p \in Problems, NEW aut, IsProduct(p, aut), NEW S, IsSubset(p, aut, S)
  PROVE  SubsetAccepting(aut, S) <=> SomeAccepting(p.nfa, Living(S))
<1> DEFINE g == CompleteGoal(p)
<1>1. /\ \A s \in S : s \in DOMAIN aut /\ s.goal \in GoalsOf(S)
      /\ \A t \in GoalsOf(S) : \E s \in S : s.goal = t
      /\ GoalsOf(S) \subseteq DOMAIN g
  BY SubsetMember
<1>2. \A s \in DOMAIN aut : StateIsAccepting(aut[s]) <=> StateIsAccepting(g[s.goal])
  BY DEF IsProduct
<1>3. /\ \A t \in DOMAIN g : t = Sink \/ t \in DOMAIN p.nfa
      /\ \A t \in DOMAIN p.nfa : StateIsAccepting(g[t]) <=> StateIsAccepting(p.nfa[t])
      /\ Sink \in DOMAIN g => ~StateIsAccepting(g[Sink])
  BY CompletedMeans DEF IsCompletion
<1> HIDE DEF g
<1>4. SubsetAccepting(aut, S) <=> \E t \in GoalsOf(S) : StateIsAccepting(g[t])
  BY <1>1, <1>2 DEF SubsetAccepting, SomeAccepting
<1>5. (\E t \in GoalsOf(S) : StateIsAccepting(g[t])) <=> \E t \in Living(S) : StateIsAccepting(p.nfa[t])
  BY <1>1, <1>3 DEF Living
<1> QED
  BY <1>4, <1>5 DEF SomeAccepting

\* Reading a letter in a set of product states: the vector makes its one move, and the
\* living goals are those the NFA reaches.
LEMMA SubsetRound ==
  ASSUME NEW p \in Problems, NEW aut, IsProduct(p, aut), NEW S, IsSubset(p, aut, S), NEW l \in Letter
  PROVE  LET T == SubsetSuccessor(aut, S, l)
         IN  /\ l \notin Agreeing(p, VectorOf(S)) => T = {}
             /\ l \in Agreeing(p, VectorOf(S)) =>
                  /\ IsSubset(p, aut, T) /\ VectorOf(T) = Delta(p, VectorOf(S), l)
                  /\ Living(T) = NfaSuccessors(p.nfa, Living(S), l)
<1> DEFINE T == SubsetSuccessor(aut, S, l)
           g == CompleteGoal(p)
           q == VectorOf(S)
           r == Delta(p, q, l)
           G == GoalsOf(S)
           H == UNION {Leads(g, t, l) : t \in G}
<1>1. /\ \A s \in S : s \in DOMAIN aut /\ s \in NfaStates(p) /\ s.taus = q /\ s.goal \in G
      /\ \A t \in G : \E s \in S : s.goal = t
      /\ G # {} /\ G \subseteq DOMAIN g
  BY SubsetMember
<1>2. T = UNION {Leads(aut, s, l) : s \in S}
  BY SuccessorsByState DEF SubsetSuccessor
<1>3. \A s \in S : Leads(aut, s, l) = Allowed(p, s, l) /\ Allowed(p, s, l) \subseteq DOMAIN aut
  BY <1>1 DEF IsProduct
<1>4. IsCompletion(p, g)
  BY CompletedMeans
<1>5. q \in Vectors(p) /\ Living(S) \in p.formulas \cup {{}} /\ Living(S) = G \ {Sink}
  BY DEF IsSubset, Living
<1> HIDE DEF T, g, q, G
<1>6. ASSUME l \notin Agreeing(p, q)
      PROVE  T = {}
  <2>1. \A s \in S : Allowed(p, s, l) = {}
    BY <1>1, <1>6 DEF Allowed
  <2> QED
    BY <1>2, <1>3, <2>1
<1>7. ASSUME l \in Agreeing(p, q)
      PROVE  IsSubset(p, aut, T) /\ VectorOf(T) = r /\ Living(T) = NfaSuccessors(p.nfa, Living(S), l)
  <2>1. ASSUME NEW s \in S
        PROVE  Allowed(p, s, l) = Pairing(Leads(g, s.goal, l), r)
    <3>1. s \in NfaStates(p) /\ s.taus = q /\ l \in Agreeing(p, s.taus)
      BY <1>1, <1>7
    <3>2. NondetSuccessors(p, g, s, l) = {[goal |-> t, taus |-> Delta(p, s.taus, l)] : t \in Leads(g, s.goal, l)}
      BY <3>1, NondetMeans DEF g
    <3>3. Allowed(p, s, l) = NondetSuccessors(p, g, s, l)
      BY <3>1 DEF Allowed, g
    <3> QED
      BY <3>1, <3>2, <3>3 DEF Pairing
  <2>2. T = Pairing(H, r)
    <3>1. ASSUME NEW x \in T
          PROVE  x \in Pairing(H, r)
      <4>1. PICK s \in S : x \in Leads(aut, s, l)
        BY <1>2
      <4>2. x \in Pairing(Leads(g, s.goal, l), r)
        BY <1>3, <2>1, <4>1
      <4>3. PICK t \in Leads(g, s.goal, l) : x = [goal |-> t, taus |-> r]
        BY <4>2 DEF Pairing
      <4>4. t \in H
        BY <1>1, <4>3
      <4> HIDE DEF H, r
      <4> QED
        BY <4>3, <4>4 DEF Pairing
    <3>2. ASSUME NEW x \in Pairing(H, r)
          PROVE  x \in T
      <4>1. PICK t \in H : x = [goal |-> t, taus |-> r]
        BY DEF Pairing
      <4>2. PICK u \in G : t \in Leads(g, u, l)
        BY <4>1
      <4>3. PICK s \in S : s.goal = u
        BY <1>1
      <4>4. x \in Pairing(Leads(g, s.goal, l), r)
        BY <4>1, <4>2, <4>3 DEF Pairing
      <4>5. x \in Leads(aut, s, l)
        BY <1>3, <2>1, <4>4
      <4> QED
        BY <1>2, <4>5
    <3> QED
      BY <3>1, <3>2
  <2>3. H # {}
    <3>1. \A t \in G : Leads(g, t, l) # {}
      BY <1>1, <1>4 DEF IsCompletion
    <3> QED
      BY <1>1, <3>1
  <2>4. H \ {Sink} = NfaSuccessors(p.nfa, Living(S), l)
    <3>1. \A t \in G : t = Sink \/ t \in DOMAIN p.nfa
      BY <1>1, <1>4 DEF IsCompletion
    <3>2. \A t \in G \cap DOMAIN p.nfa : Leads(g, t, l) \ {Sink} = Leads(p.nfa, t, l)
      BY <1>4 DEF IsCompletion
    <3>3. Sink \in G => Leads(g, Sink, l) \ {Sink} = {}
      BY <1>1, <1>4 DEF IsCompletion
    <3>4. NfaSuccessors(p.nfa, Living(S), l) = UNION {Leads(p.nfa, t, l) : t \in G \ {Sink}}
      BY <1>5, SuccessorsByState
    <3>5. Sink \notin DOMAIN p.nfa
      BY <1>4 DEF IsCompletion
    <3> QED
      BY <3>1, <3>2, <3>3, <3>4, <3>5
  <2> HIDE DEF H, r
  <2>5. GoalsOf(T) = H /\ VectorOf(T) = r /\ T # {}
    BY <2>2, <2>3, PairingMeans
  <2>6. Living(T) = NfaSuccessors(p.nfa, Living(S), l)
    BY <2>4, <2>5 DEF Living
  <2>7. r \in Vectors(p)
    <3>1. WellFormed(p) /\ DeltaDefined(p, q, l)
      BY <1>7, GoalNfa DEF Agreeing
    <3> QED
      BY <1>5, <3>1, DeltaType DEF r
  <2>8. Living(T) \in p.formulas \cup {{}}
    <3>1. CASE Living(S) = {}
      <4>1. Living(T) = {}
        BY <2>6, <3>1 DEF NfaSuccessors
      <4> QED
        BY <4>1
    <3>2. CASE Living(S) \in p.formulas
      BY <2>6, <3>2, NfaProgress
    <3> QED
      BY <1>5, <3>1, <3>2
  <2>9. T \subseteq DOMAIN aut
    BY <1>2, <1>3
  <2>10. IsSubset(p, aut, T)
    BY <2>2, <2>5, <2>7, <2>8, <2>9 DEF IsSubset
  <2> QED
    BY <2>5, <2>6, <2>10
<1> QED
  BY <1>6, <1>7 DEF T, q, r

\* The state that the subset construction writes for S.
SubsetState(aut, S) == Readable(S, SubsetAccepting(aut, S), SubsetEdges(aut, S))

LEMMA SubsetEdgesMean ==
  ASSUME NEW aut, NEW S
  PROVE  /\ \A e \in SubsetEdges(aut, S) :
              /\ e.mark = SubsetAccepting(aut, S)
              /\ \E l \in Letter : e.guard = {l} /\ e.dst = SubsetSuccessor(aut, S, l) /\ SubsetSuccessor(aut, S, l) # {}
         /\ \A l \in Letter : SubsetSuccessor(aut, S, l) # {} =>
              \E e \in SubsetEdges(aut, S) : e.guard = {l} /\ e.dst = SubsetSuccessor(aut, S, l)
<1> DEFINE acc == SubsetAccepting(aut, S)
           T(l) == SubsetSuccessor(aut, S, l)
           L == {m \in Letter : T(m) # {}}
           E == SubsetEdges(aut, S)
<1>1. E = {[dst |-> T(l), guard |-> {l}, mark |-> acc] : l \in L}
  BY DEF SubsetEdges
<1>2. \A l : l \in L <=> l \in Letter /\ T(l) # {}
  OBVIOUS
<1> HIDE DEF acc, T, L, E
<1>3. ASSUME NEW e \in E
      PROVE  e.mark = acc /\ \E l \in Letter : e.guard = {l} /\ e.dst = T(l) /\ T(l) # {}
  <2>1. PICK l \in L : e = [dst |-> T(l), guard |-> {l}, mark |-> acc]
    BY <1>1
  <2>2. e.dst = T(l) /\ e.guard = {l}
    BY <2>1
  <2>3. e.mark = acc
    BY <2>1
  <2> QED
    BY <1>2, <2>2, <2>3
<1>4. ASSUME NEW l \in Letter, T(l) # {}
      PROVE  \E e \in E : e.guard = {l} /\ e.dst = T(l)
  <2> DEFINE e == [dst |-> T(l), guard |-> {l}, mark |-> acc]
  <2>1. e \in E
    BY <1>1, <1>2, <1>4
  <2>2. e.guard = {l} /\ e.dst = T(l)
    OBVIOUS
  <2> HIDE DEF e
  <2> QED
    BY <2>1, <2>2
<1> QED
  BY <1>3, <1>4 DEF acc, T, E

\* Its edges carry exactly the letters that the knowledge allows, whatever the goal.
LEMMA SubsetStateMeans ==
  ASSUME NEW p \in Problems, NEW aut, IsProduct(p, aut), NEW S, IsSubset(p, aut, S)
  PROVE  /\ StateIsAccepting(SubsetState(aut, S)) <=> SomeAccepting(p.nfa, Living(S))
         /\ UNION {e.guard : e \in SubsetState(aut, S)} = Agreeing(p, VectorOf(S))
         /\ \A l, T : (\E e \in SubsetState(aut, S) : l \in e.guard /\ e.dst = T) <=>
              l \in Agreeing(p, VectorOf(S)) /\ T = SubsetSuccessor(aut, S, l)
<1> DEFINE acc == SubsetAccepting(aut, S)
           T(l) == SubsetSuccessor(aut, S, l)
           E == SubsetEdges(aut, S)
           es == Readable(S, acc, E)
           A == Agreeing(p, VectorOf(S))
<1>1. A \subseteq Letter
  BY DEF Agreeing, Emitted
<1>2. \A l \in Letter : T(l) # {} <=> l \in A
  BY SubsetRound DEF IsSubset
<1>3. /\ \A e \in E : e.mark = acc /\ \E l \in Letter : e.guard = {l} /\ e.dst = T(l) /\ T(l) # {}
      /\ \A l \in Letter : T(l) # {} => \E e \in E : e.guard = {l} /\ e.dst = T(l)
  BY SubsetEdgesMean
<1>4. acc \in BOOLEAN
  BY DEF SubsetAccepting, SomeAccepting
<1> HIDE DEF acc, T, E, A
<1>5. /\ StateIsAccepting(es) <=> acc
      /\ \A e : e \in es /\ e.guard # {} => e \in E
      /\ E \subseteq es
  BY <1>3, <1>4, ReadableMeans
<1> HIDE DEF es
<1>6. \A l, X : (\E e \in es : l \in e.guard /\ e.dst = X) <=> l \in A /\ X = T(l)
  BY <1>1, <1>2, <1>3, <1>5
<1>7. UNION {e.guard : e \in es} = A
  <2>1. \A l : (\E e \in es : l \in e.guard) => l \in A
    BY <1>6
  <2>2. \A l \in A : \E e \in es : l \in e.guard /\ e.dst = T(l)
    BY <1>6
  <2>3. \A l : l \in UNION {e.guard : e \in es} <=> \E e \in es : l \in e.guard
    OBVIOUS
  <2> QED
    BY <2>1, <2>2, <2>3
<1>8. acc <=> SomeAccepting(p.nfa, Living(S))
  BY SubsetAccepts DEF acc
<1> QED
  BY <1>5, <1>6, <1>7, <1>8 DEF es, acc, A, T, E, SubsetState

-----------------------------------------------------------------------------
(* The table of the subset construction.                                    *)

\* Every interned set is one of them, and waits or has its state; what a state leads to
\* is interned.
SubsetsSoFar(p, aut, found, w, d) ==
  /\ IsFiniteSet(found) /\ {NfaInitialState(p)} \in found
  /\ \A S \in found : IsSubset(p, aut, S)
  /\ w \in Seq(found) /\ DOMAIN d \subseteq found
  /\ \A S \in found : Waits(w, S) \/ S \in DOMAIN d
  /\ \A S \in DOMAIN d : /\ d[S] = SubsetState(aut, S)
                         /\ \A l \in Agreeing(p, VectorOf(S)) : SubsetSuccessor(aut, S, l) \in found

LEMMA SubsetsBegin ==
  ASSUME NEW p \in Problems, NEW aut, IsProduct(p, aut)
  PROVE  SubsetsSoFar(p, aut, {{NfaInitialState(p)}}, <<{NfaInitialState(p)}>>, <<>>)
<1> DEFINE S0 == {NfaInitialState(p)}
           w == <<S0>>
<1>1. IsSubset(p, aut, S0)
  BY InitialSubset
<1> HIDE DEF S0
<1>2. w \in Seq({S0}) /\ Waits(w, S0)
  BY DEF Waits
<1>3. IsFiniteSet({S0})
  BY FS_Singleton
<1>4. DOMAIN <<>> = {}
  OBVIOUS
<1> HIDE DEF w
<1>5. SubsetsSoFar(p, aut, {S0}, w, <<>>)
  BY <1>1, <1>2, <1>3, <1>4 DEF SubsetsSoFar, S0
<1> QED
  BY <1>5 DEF S0, w

\* The sets that one iteration can intern.
LEMMA SubsetDiscovers ==
  ASSUME NEW p \in Problems, NEW aut, IsProduct(p, aut), NEW S, IsSubset(p, aut, S)
  PROVE  LET V == {e.dst : e \in SubsetEdges(aut, S)}
         IN  /\ IsFiniteSet(V) /\ \A T \in V : IsSubset(p, aut, T)
             /\ \A l \in Agreeing(p, VectorOf(S)) : SubsetSuccessor(aut, S, l) \in V
<1> DEFINE E == SubsetEdges(aut, S)
           V == {e.dst : e \in E}
           A == Agreeing(p, VectorOf(S))
           to == [l \in A |-> SubsetSuccessor(aut, S, l)]
<1>1. A \subseteq Letter
  BY DEF Agreeing, Emitted
<1>2. \A l \in Letter : l \notin A => SubsetSuccessor(aut, S, l) = {}
  BY SubsetRound
<1>3. \A l \in A : IsSubset(p, aut, SubsetSuccessor(aut, S, l)) /\ SubsetSuccessor(aut, S, l) # {}
  <2>1. \A l \in A : IsSubset(p, aut, SubsetSuccessor(aut, S, l))
    BY <1>1, SubsetRound
  <2> QED
    BY <2>1 DEF IsSubset
<1>4. /\ \A e \in E : \E l \in Letter : e.dst = SubsetSuccessor(aut, S, l) /\ SubsetSuccessor(aut, S, l) # {}
      /\ \A l \in Letter : SubsetSuccessor(aut, S, l) # {} => \E e \in E : e.dst = SubsetSuccessor(aut, S, l)
  BY SubsetEdgesMean
<1> HIDE DEF E, A
<1>5. V = {SubsetSuccessor(aut, S, l) : l \in A}
  BY <1>1, <1>2, <1>3, <1>4
<1>6. IsFiniteSet(A)
  BY <1>1, LettersFinite, FS_Subset
<1> HIDE DEF V
<1>7. to \in Surjection(A, V)
  BY <1>5 DEF Surjection
<1>8. IsFiniteSet(V)
  <2> HIDE DEF to
  <2> QED
    BY <1>6, <1>7, FS_Surjection
<1> QED
  BY <1>3, <1>5, <1>8 DEF V, E, A

\* One iteration: the head of the worklist gets its state.
LEMMA SubsetsGrow ==
  ASSUME NEW p \in Problems, NEW aut, IsProduct(p, aut),
         NEW found, NEW w, NEW d, SubsetsSoFar(p, aut, found, w, d), w # <<>>,
         NEW new, new = {e.dst : e \in SubsetEdges(aut, Head(w))} \ found,
         NEW ns \in Orders(new),
         NEW more, more = [S \in DOMAIN d \cup {Head(w)} |->
                             IF S = Head(w) THEN SubsetState(aut, Head(w)) ELSE d[S]]
  PROVE  SubsetsSoFar(p, aut, found \cup new, Tail(w) \o ns, more)
<1> DEFINE S0 == Head(w)
           v == Tail(w) \o ns
           all == found \cup new
           V == {e.dst : e \in SubsetEdges(aut, S0)}
<1>1. /\ IsFiniteSet(found) /\ {NfaInitialState(p)} \in found
      /\ \A S \in found : IsSubset(p, aut, S)
      /\ w \in Seq(found) /\ DOMAIN d \subseteq found
      /\ \A S \in found : Waits(w, S) \/ S \in DOMAIN d
      /\ \A S \in DOMAIN d : /\ d[S] = SubsetState(aut, S)
                             /\ \A l \in Agreeing(p, VectorOf(S)) : SubsetSuccessor(aut, S, l) \in found
  BY DEF SubsetsSoFar
<1>2. S0 \in found
  BY <1>1, HeadTailProperties
<1>3. DOMAIN more = DOMAIN d \cup {S0} /\ more[S0] = SubsetState(aut, S0)
      /\ \A S \in DOMAIN d : S # S0 => more[S] = d[S]
  OBVIOUS
<1>4. new = V \ found
  OBVIOUS
<1> HIDE DEF S0
<1>5. /\ IsFiniteSet(V) /\ \A T \in V : IsSubset(p, aut, T)
      /\ \A l \in Agreeing(p, VectorOf(S0)) : SubsetSuccessor(aut, S0, l) \in V
  BY <1>1, <1>2, SubsetDiscovers
<1> HIDE DEF V
<1>6. IsFiniteSet(new) /\ IsFiniteSet(all)
  BY <1>1, <1>4, <1>5, FS_Subset, FS_Union
<1>7. /\ v \in Seq(all) /\ \A x \in new : Waits(v, x)
      /\ \A x : Waits(w, x) /\ x # S0 => Waits(v, x)
  <2>1. w \in Seq(found) /\ w # <<>> /\ IsFiniteSet(new) /\ ns \in Orders(new)
    BY <1>1, <1>6
  <2>2. /\ Tail(w) \o ns \in Seq(found \cup new)
        /\ \A x \in new : Waits(Tail(w) \o ns, x)
        /\ \A x : Waits(w, x) /\ x # Head(w) => Waits(Tail(w) \o ns, x)
    BY ONLY <2>1, WorklistStep
  <2> QED
    BY <2>2 DEF S0
<1> HIDE DEF v
<1>8. \A S \in all : IsSubset(p, aut, S) /\ (Waits(v, S) \/ S \in DOMAIN more)
  <2>1. \A S \in new : IsSubset(p, aut, S) /\ Waits(v, S)
    BY <1>4, <1>5, <1>7
  <2>2. \A S \in found : Waits(v, S) \/ S \in DOMAIN more
    BY <1>1, <1>3, <1>7
  <2> QED
    BY <1>1, <2>1, <2>2
<1>9. \A S \in DOMAIN more : /\ more[S] = SubsetState(aut, S)
                             /\ \A l \in Agreeing(p, VectorOf(S)) : SubsetSuccessor(aut, S, l) \in all
  <2>1. \A l \in Agreeing(p, VectorOf(S0)) : SubsetSuccessor(aut, S0, l) \in all
    BY <1>4, <1>5
  <2>2. \A S \in DOMAIN d : S # S0 => more[S] = SubsetState(aut, S)
    BY <1>1, <1>3
  <2>3. \A S \in DOMAIN d : \A l \in Agreeing(p, VectorOf(S)) : SubsetSuccessor(aut, S, l) \in all
    BY <1>1
  <2> QED
    BY <1>3, <2>1, <2>2, <2>3
<1>10. DOMAIN more \subseteq all /\ {NfaInitialState(p)} \in all
  BY <1>1, <1>2, <1>3
<1> HIDE DEF all
<1>11. SubsetsSoFar(p, aut, all, v, more)
  BY <1>6, <1>7, <1>8, <1>9, <1>10 DEF SubsetsSoFar
<1> QED
  BY <1>11 DEF all, v

-----------------------------------------------------------------------------
(* The explicit method.                                                     *)

\* While it builds, the graph is a part of the product; from then on it has the whole
\* product and a part of its determinization.
NfaInv ==
  /\ problem \in Problems
  /\ phase \in {"complete", "build", "determinize", "determinized", "done"}
  /\ phase # "done" => result = "none"
  /\ phase \in {"complete", "build"} => dfa = <<>>
  /\ phase = "build" => goal = CompleteGoal(problem) /\ GraphSoFar(problem, nodes, worklist)
  /\ phase \in {"determinize", "determinized"} =>
       IsProduct(problem, product) /\ SubsetsSoFar(problem, product, interned, worklist, dfa)
  /\ phase = "determinized" => worklist = <<>>

LEMMA NfaInvInit == Init => NfaInv
BY DEF Init, NfaInv

LEMMA NfaInvComplete == NfaInv /\ Complete => NfaInv'
<1> SUFFICES ASSUME NfaInv, Complete PROVE NfaInv'
  OBVIOUS
<1> DEFINE s0 == NfaInitialState(problem)
<1>1. /\ problem \in Problems /\ result = "none" /\ dfa = <<>> /\ problem' = problem
      /\ result' = result /\ dfa' = dfa /\ phase' = "build" /\ goal' = CompleteGoal(problem)
      /\ nodes' = [x \in {s0} |-> FreshNode(goal', s0)] /\ worklist' = <<s0>>
  BY DEF NfaInv, Complete
<1>2. nodes' = [x \in {NfaInitialState(problem)} |-> FreshNode(CompleteGoal(problem), NfaInitialState(problem))]
  BY <1>1
<1>3. GraphSoFar(problem, nodes', worklist')
  BY <1>1, <1>2, GraphBegins
<1> QED
  BY <1>1, <1>3 DEF NfaInv

LEMMA NfaInvExplore == NfaInv /\ Explore => NfaInv'
<1> SUFFICES ASSUME NfaInv, Explore PROVE NfaInv'
  OBVIOUS
<1> DEFINE guards == NondetGuards(problem, goal, Head(worklist))
           new == DOMAIN guards \ DOMAIN nodes
<1>1. /\ problem \in Problems /\ phase = "build" /\ result = "none" /\ dfa = <<>>
      /\ goal = CompleteGoal(problem) /\ GraphSoFar(problem, nodes, worklist) /\ worklist # <<>>
  BY DEF NfaInv, Explore
<1>2. /\ UNCHANGED <<problem, phase, goal, dfa, result>>
      /\ nodes' = [s \in DOMAIN nodes \cup new |->
                     IF s = Head(worklist) THEN [nodes[Head(worklist)] EXCEPT !.guards = guards]
                     ELSE IF s \in new THEN FreshNode(goal, s) ELSE nodes[s]]
  BY DEF Explore
<1>3. PICK ns \in Orders(new) : worklist' = Tail(worklist) \o ns
  BY DEF Explore
<1>4. guards = NondetGuards(problem, CompleteGoal(problem), Head(worklist))
  BY <1>1
<1>5. new = DOMAIN guards \ DOMAIN nodes
  OBVIOUS
<1> HIDE DEF guards, new
<1>6. nodes' = [s \in DOMAIN nodes \cup new |-> NodeAfter(problem, nodes, Head(worklist), guards, new, s)]
  BY <1>1, <1>2 DEF NodeAfter
<1>7. GraphSoFar(problem, nodes', Tail(worklist) \o ns)
  <2> DEFINE p == problem
             nds == nodes
             w == worklist
             more == nodes'
  <2>1. /\ p \in Problems /\ GraphSoFar(p, nds, w) /\ w # <<>>
        /\ guards = NondetGuards(p, CompleteGoal(p), Head(w)) /\ new = DOMAIN guards \ DOMAIN nds
        /\ ns \in Orders(new)
    BY <1>1, <1>4, <1>5
  <2>2. more = [s \in DOMAIN nds \cup new |-> NodeAfter(p, nds, Head(w), guards, new, s)]
    BY <1>6
  <2> HIDE DEF p, nds, w, more
  <2>3. GraphSoFar(p, more, Tail(w) \o ns)
    BY ONLY <2>1, <2>2, GraphGrows
  <2> QED
    BY <2>3 DEF p, w, more
<1> QED
  BY <1>1, <1>2, <1>3, <1>7 DEF NfaInv

LEMMA NfaInvMaterialize == NfaInv /\ Materialize => NfaInv'
<1> SUFFICES ASSUME NfaInv, Materialize PROVE NfaInv'
  OBVIOUS
<1> DEFINE S0 == {NfaInitialState(problem)}
<1>1. /\ problem \in Problems /\ result = "none" /\ dfa = <<>> /\ GraphSoFar(problem, nodes, <<>>)
      /\ UNCHANGED <<problem, dfa, result>> /\ phase' = "determinize" /\ product' = Materialized(nodes)
      /\ interned' = {S0} /\ worklist' = <<S0>>
  BY DEF NfaInv, Materialize
<1>2. IsProduct(problem, product')
  BY <1>1, GraphIsProduct
<1>3. SubsetsSoFar(problem, product', interned', worklist', dfa')
  BY <1>1, <1>2, SubsetsBegin
<1> QED
  BY <1>1, <1>2, <1>3 DEF NfaInv

LEMMA NfaInvDeterminize == NfaInv /\ Determinize => NfaInv'
<1> SUFFICES ASSUME NfaInv, Determinize PROVE NfaInv'
  OBVIOUS
<1> DEFINE new == {e.dst : e \in SubsetEdges(product, Head(worklist))} \ interned
<1>1. /\ problem \in Problems /\ phase = "determinize" /\ result = "none" /\ IsProduct(problem, product)
      /\ SubsetsSoFar(problem, product, interned, worklist, dfa) /\ worklist # <<>>
  BY DEF NfaInv, Determinize
<1>2. /\ UNCHANGED <<problem, phase, product, result>> /\ interned' = interned \cup new
      /\ dfa' = [S \in DOMAIN dfa \cup {Head(worklist)} |->
                   IF S = Head(worklist) THEN SubsetState(product, Head(worklist)) ELSE dfa[S]]
  BY DEF Determinize, SubsetState
<1>3. PICK ns \in Orders(new) : worklist' = Tail(worklist) \o ns
  BY DEF Determinize
<1>4. new = {e.dst : e \in SubsetEdges(product, Head(worklist))} \ interned
  OBVIOUS
<1> HIDE DEF new
<1>5. SubsetsSoFar(problem, product, interned \cup new, Tail(worklist) \o ns, dfa')
  BY <1>1, <1>2, <1>4, SubsetsGrow
<1> QED
  BY <1>1, <1>2, <1>3, <1>5 DEF NfaInv

LEMMA NfaInvRest ==
  NfaInv /\ (ThrowNondeterministic \/ FinishDeterminize \/ Solve \/ UNCHANGED vars) => NfaInv'
<1>1. NfaInv /\ ThrowNondeterministic => NfaInv'
  BY DEF NfaInv, ThrowNondeterministic
<1>2. NfaInv /\ FinishDeterminize => NfaInv'
  BY DEF NfaInv, FinishDeterminize
<1>3. NfaInv /\ Solve => NfaInv'
  BY DEF NfaInv, Solve
<1>4. NfaInv /\ UNCHANGED vars => NfaInv'
  BY DEF NfaInv, vars
<1> QED
  BY <1>1, <1>2, <1>3, <1>4

\* The product the method builds and the determinization it solves are the ones of the
\* goal and the transducers, in whatever order the states are found.
THEOREM NfaInvariant == FormsSpec => []NfaInv
<1>1. FormsInit => NfaInv
  BY NfaInvInit DEF FormsInit
<1>2. NfaInv /\ [StepNfa \/ StepMtnfa]_<<vars, mVars>> => NfaInv'
  <2>1. StepNfa => Next
    BY DEF StepNfa
  <2>2. StepMtnfa \/ UNCHANGED <<vars, mVars>> => UNCHANGED vars
    BY DEF StepMtnfa
  <2> QED
    BY <2>1, <2>2, NfaInvComplete, NfaInvExplore, NfaInvMaterialize, NfaInvDeterminize, NfaInvRest DEF Next
<1> QED
  BY <1>1, <1>2, PTL DEF FormsSpec

\* The determinized product keeps an edge for every letter that the knowledge allows, also
\* when the goal is lost on it, and has none for a letter it forbids.
THEOREM LettersAreKept == FormsSpec => []AgreeingLettersKept
<1>1. NfaInv => AgreeingLettersKept
  <2> SUFFICES ASSUME NfaInv, phase = "determinized", NEW S \in DOMAIN dfa, NEW q \in VectorsOf(S)
               PROVE  UNION {e.guard : e \in dfa[S]} = Agreeing(problem, q)
    BY DEF AgreeingLettersKept
  <2>1. /\ problem \in Problems /\ IsProduct(problem, product) /\ IsSubset(problem, product, S)
        /\ dfa[S] = SubsetState(product, S)
    BY DEF NfaInv, SubsetsSoFar
  <2>2. q = VectorOf(S)
    BY <2>1, SubsetMember DEF VectorsOf
  <2>3. UNION {e.guard : e \in SubsetState(product, S)} = Agreeing(problem, VectorOf(S))
    BY <2>1, SubsetStateMeans
  <2> QED
    BY <2>1, <2>2, <2>3
<1> QED
  BY <1>1, NfaInvariant, PTL

-----------------------------------------------------------------------------
(* The game on the determinized product.                                    *)

\* A finished determinization: every set has its state, and leads to such sets.
IsDeterminized(p, aut, d) ==
  /\ IsFiniteSet(DOMAIN d) /\ {NfaInitialState(p)} \in DOMAIN d
  /\ \A S \in DOMAIN d :
       /\ IsSubset(p, aut, S) /\ d[S] = SubsetState(aut, S)
       /\ \A l \in Agreeing(p, VectorOf(S)) : SubsetSuccessor(aut, S, l) \in DOMAIN d

LEMMA SubsetsComplete ==
  ASSUME NEW p, NEW aut, NEW found, NEW d, SubsetsSoFar(p, aut, found, <<>>, d)
  PROVE  IsDeterminized(p, aut, d)
<1>1. /\ IsFiniteSet(found) /\ {NfaInitialState(p)} \in found
      /\ \A S \in found : IsSubset(p, aut, S)
      /\ DOMAIN d \subseteq found
      /\ \A S \in found : S \in DOMAIN d
      /\ \A S \in DOMAIN d : /\ d[S] = SubsetState(aut, S)
                             /\ \A l \in Agreeing(p, VectorOf(S)) : SubsetSuccessor(aut, S, l) \in found
  BY DEF SubsetsSoFar, Waits
<1>2. DOMAIN d = found
  BY <1>1
<1> QED
  BY <1>1, <1>2 DEF IsDeterminized

\* An edge of the arena stands for a letter of an edge of the automaton.
LEMMA ArenaLetters ==
  ASSUME NEW d, NEW S, NEW i, NEW W
  PROVE  (\E e \in ArenaEdges(d, S) : e.i = i /\ e.dst \in W) <=>
           \E b \in d[S] : \E l \in b.guard : l.i = i /\ b.dst \in W
<1>1. ASSUME NEW e \in ArenaEdges(d, S), e.i = i, e.dst \in W
      PROVE  \E b \in d[S] : \E l \in b.guard : l.i = i /\ b.dst \in W
  <2>1. PICK b \in d[S] : e \in {[i |-> x[1], o |-> x[2], dst |-> b.dst] : x \in FreePart(b.guard)}
    BY DEF ArenaEdges
  <2>2. PICK x \in FreePart(b.guard) : e = [i |-> x[1], o |-> x[2], dst |-> b.dst]
    BY <2>1
  <2>3. PICK l \in b.guard : x = <<l.i, l.o>>
    BY DEF FreePart
  <2>4. e.i = l.i /\ e.dst = b.dst
    BY <2>2, <2>3
  <2> QED
    BY <1>1, <2>4
<1>2. ASSUME NEW b \in d[S], NEW l \in b.guard, l.i = i, b.dst \in W
      PROVE  \E e \in ArenaEdges(d, S) : e.i = i /\ e.dst \in W
  <2> DEFINE x == <<l.i, l.o>>
             e == [i |-> x[1], o |-> x[2], dst |-> b.dst]
  <2>1. x \in FreePart(b.guard)
    BY DEF FreePart
  <2>2. e \in {[i |-> y[1], o |-> y[2], dst |-> b.dst] : y \in FreePart(b.guard)}
    BY <2>1
  <2>3. e \in ArenaEdges(d, S)
    BY <2>2 DEF ArenaEdges
  <2>4. e.i = i /\ e.dst \in W
    BY <1>2
  <2> QED
    BY <2>3, <2>4
<1> QED
  BY <1>1, <1>2

LEMMA DeterminizedMeans ==
  ASSUME NEW p \in Problems, NEW aut, IsProduct(p, aut), NEW d, IsDeterminized(p, aut, d)
  PROVE  /\ Final(d) = {S \in DOMAIN d : SomeAccepting(p.nfa, Living(S))}
         /\ \A S \in DOMAIN d : \A W :
              Draws(d, S, W) <=>
                \A i \in IFree : \E l \in Agreeing(p, VectorOf(S)) : l.i = i /\ SubsetSuccessor(aut, S, l) \in W
<1>1. ASSUME NEW S \in DOMAIN d
      PROVE  /\ StateIsAccepting(d[S]) <=> SomeAccepting(p.nfa, Living(S))
             /\ \A l, T : (\E e \in d[S] : l \in e.guard /\ e.dst = T) <=>
                  l \in Agreeing(p, VectorOf(S)) /\ T = SubsetSuccessor(aut, S, l)
  <2>1. IsSubset(p, aut, S) /\ d[S] = SubsetState(aut, S)
    BY DEF IsDeterminized
  <2> QED
    BY <2>1, SubsetStateMeans
<1>2. Final(d) = {S \in DOMAIN d : SomeAccepting(p.nfa, Living(S))}
  BY <1>1 DEF Final
<1>3. ASSUME NEW S \in DOMAIN d, NEW i, NEW W
      PROVE  (\E e \in ArenaEdges(d, S) : e.i = i /\ e.dst \in W) <=>
               \E l \in Agreeing(p, VectorOf(S)) : l.i = i /\ SubsetSuccessor(aut, S, l) \in W
  <2>1. (\E e \in ArenaEdges(d, S) : e.i = i /\ e.dst \in W) <=>
          \E b \in d[S] : \E l \in b.guard : l.i = i /\ b.dst \in W
    BY ArenaLetters
  <2>2. (\E b \in d[S] : \E l \in b.guard : l.i = i /\ b.dst \in W) <=>
          \E l \in Agreeing(p, VectorOf(S)) : l.i = i /\ SubsetSuccessor(aut, S, l) \in W
    BY <1>1
  <2> QED
    BY <2>1, <2>2
<1>4. \A S \in DOMAIN d : \A W :
        Draws(d, S, W) <=>
          \A i \in IFree : \E l \in Agreeing(p, VectorOf(S)) : l.i = i /\ SubsetSuccessor(aut, S, l) \in W
  BY <1>3 DEF Draws
<1> QED
  BY <1>2, <1>4

\* The position that a set stands for while its goal is alive.
PositionOf(S) == <<Living(S), VectorOf(S)>>

\* The choices of that position, in terms of the sets.
LEMMA SubsetPlay ==
  ASSUME NEW p \in Problems, NEW aut, IsProduct(p, aut), NEW S, IsSubset(p, aut, S), Living(S) # {}
  PROVE  /\ PositionOf(S) \in Positions(p)
         /\ \A i : Stops(p, PositionOf(S), i) <=>
              \E l \in Agreeing(p, VectorOf(S)) :
                l.i = i /\ SomeAccepting(p.nfa, Living(SubsetSuccessor(aut, S, l)))
         /\ \A i, r : r \in Moves(p, PositionOf(S), i) <=>
              \E l \in Agreeing(p, VectorOf(S)) :
                /\ l.i = i /\ Living(SubsetSuccessor(aut, S, l)) # {}
                /\ r = PositionOf(SubsetSuccessor(aut, S, l))
<1> DEFINE psi == Living(S)
           q == VectorOf(S)
           T(l) == SubsetSuccessor(aut, S, l)
           N(l) == NfaSuccessors(p.nfa, psi, l)
<1>1. psi \in p.formulas /\ q \in Vectors(p) /\ PositionOf(S) = <<psi, q>>
  BY DEF IsSubset, PositionOf
<1>2. Agreeing(p, q) \subseteq Letter
  BY DEF Agreeing, Emitted
<1>3. \A l \in Agreeing(p, q) : Living(T(l)) = N(l) /\ VectorOf(T(l)) = Delta(p, q, l)
  BY <1>2, SubsetRound
<1>4. \A l \in Agreeing(p, q) : PositionOf(T(l)) = <<N(l), Delta(p, q, l)>>
  BY <1>3 DEF PositionOf
<1>5. \A l : SomeAccepting(p.nfa, N(l)) => N(l) # {}
  BY DEF SomeAccepting
<1> HIDE DEF psi, q, T
<1>6. /\ <<psi, q>> \in Positions(p)
      /\ \A i : Stops(p, <<psi, q>>, i) <=>
           \E l \in Agreeing(p, q) : /\ l.i = i /\ NfaSuccessors(p.nfa, psi, l) # {}
                                     /\ SomeAccepting(p.nfa, NfaSuccessors(p.nfa, psi, l))
      /\ \A i, r : r \in Moves(p, <<psi, q>>, i) <=>
           \E l \in Agreeing(p, q) : /\ l.i = i /\ NfaSuccessors(p.nfa, psi, l) # {}
                                     /\ r = <<NfaSuccessors(p.nfa, psi, l), Delta(p, q, l)>>
  BY <1>1, GoalPosition
<1> HIDE DEF N
<1>7. \A i : Stops(p, PositionOf(S), i) <=>
        \E l \in Agreeing(p, q) : l.i = i /\ SomeAccepting(p.nfa, Living(T(l)))
  <2>1. \A i : Stops(p, <<psi, q>>, i) <=>
          \E l \in Agreeing(p, q) : l.i = i /\ N(l) # {} /\ SomeAccepting(p.nfa, N(l))
    BY <1>6 DEF N
  <2>2. \A l \in Agreeing(p, q) : SomeAccepting(p.nfa, Living(T(l))) <=> N(l) # {} /\ SomeAccepting(p.nfa, N(l))
    BY <1>3, <1>5
  <2> QED
    BY <1>1, <2>1, <2>2
<1>8. \A i, r : r \in Moves(p, PositionOf(S), i) <=>
        \E l \in Agreeing(p, q) : l.i = i /\ Living(T(l)) # {} /\ r = PositionOf(T(l))
  <2>1. \A i, r : r \in Moves(p, <<psi, q>>, i) <=>
          \E l \in Agreeing(p, q) : l.i = i /\ N(l) # {} /\ r = <<N(l), Delta(p, q, l)>>
    BY <1>6 DEF N
  <2>2. \A l \in Agreeing(p, q) : Living(T(l)) = N(l) /\ PositionOf(T(l)) = <<N(l), Delta(p, q, l)>>
    BY <1>3, <1>4
  <2> QED
    BY <1>1, <2>1, <2>2
<1> QED
  BY <1>1, <1>6, <1>7, <1>8 DEF q, T

\* The arena gives the initial set to the system exactly when the system wins the
\* reference game.
LEMMA DeterminizedIsGame ==
  ASSUME NEW p \in Problems, NEW aut, IsProduct(p, aut), NEW d, IsDeterminized(p, aut, d)
  PROVE  WinsArena(d, {NfaInitialState(p)}) <=> SystemWins(p)
<1> DEFINE D  == DOMAIN d
           A  == Attractor(d, Cardinality(DOMAIN d))
           S0 == {NfaInitialState(p)}
           T(S, l) == SubsetSuccessor(aut, S, l)
           Acc(S) == SomeAccepting(p.nfa, Living(S))
           L(S) == Agreeing(p, VectorOf(S))
           Alive(S) == Living(S) # {}
<1>1. /\ IsFiniteSet(D) /\ S0 \in D
      /\ \A S \in D : IsSubset(p, aut, S) /\ \A l \in L(S) : T(S, l) \in D
  BY DEF IsDeterminized
<1>2. /\ Final(d) = {S \in D : Acc(S)}
      /\ \A S \in D : \A W : Draws(d, S, W) <=> \A i \in IFree : \E l \in L(S) : l.i = i /\ T(S, l) \in W
  BY DeterminizedMeans
<1>3. /\ A \subseteq D /\ Absorbs(d, A)
      /\ \A V \in SUBSET D : Absorbs(d, V) => A \subseteq V
  BY <1>1, AttractorIsLeast
<1>4. WinsArena(d, S0) <=> S0 \in A
  BY DEF WinsArena
<1>5. /\ Alive(S0) /\ ~Acc(S0) /\ PositionOf(S0) = InitialPosition(p) /\ InitialPosition(p) \in Positions(p)
  <2>1. VectorOf(S0) = InitialVector(p) /\ Living(S0) = {p.init}
    BY InitialSubset
  <2>2. p.phi = {p.init} /\ ~StateIsAccepting(p.nfa[p.init]) /\ WellFormed(p)
    BY GoalNfa
  <2>3. PositionOf(S0) = InitialPosition(p)
    BY <2>1, <2>2 DEF PositionOf, InitialPosition
  <2>4. InitialPosition(p) \in Positions(p)
    BY <2>2, InitialReachable DEF Reachable
  <2> QED
    BY <2>1, <2>2, <2>3, <2>4 DEF SomeAccepting
<1>6. ASSUME NEW S \in D, Alive(S)
      PROVE  /\ PositionOf(S) \in Positions(p)
             /\ \A i : Stops(p, PositionOf(S), i) <=> \E l \in L(S) : l.i = i /\ Acc(T(S, l))
             /\ \A i, r : r \in Moves(p, PositionOf(S), i) <=>
                  \E l \in L(S) : l.i = i /\ Alive(T(S, l)) /\ r = PositionOf(T(S, l))
  <2>1. IsSubset(p, aut, S) /\ Living(S) # {}
    BY <1>1, <1>6
  <2> QED
    BY <2>1, SubsetPlay
<1>7. ASSUME NEW S \in D, ~Alive(S), NEW l \in L(S)
      PROVE  ~Alive(T(S, l)) /\ ~Acc(T(S, l))
  <2>1. IsSubset(p, aut, S) /\ l \in Letter /\ l \in Agreeing(p, VectorOf(S))
    BY <1>1 DEF Agreeing, Emitted
  <2>2. Living(T(S, l)) = NfaSuccessors(p.nfa, Living(S), l)
    BY <2>1, SubsetRound
  <2>3. NfaSuccessors(p.nfa, {}, l) = {}
    BY DEF NfaSuccessors
  <2> QED
    BY <1>7, <2>2, <2>3 DEF SomeAccepting
<1> HIDE DEF A, S0, D, T, Acc, L, Alive
<1>8. ASSUME S0 \in A PROVE SystemWins(p)
  <2> SUFFICES ASSUME NEW W \in SUBSET Positions(p), \A x \in Positions(p) : Forces(p, x, W) => x \in W
               PROVE  InitialPosition(p) \in W
    BY SystemWinsMeans
  <2> DEFINE V == {S \in D : Acc(S) \/ IFree = {} \/ (Alive(S) /\ PositionOf(S) \in W)}
  <2>1. Final(d) \subseteq V
    BY <1>2
  <2>2. ASSUME NEW S \in D \ Final(d), Draws(d, S, V), IFree # {}
        PROVE  S \in V
    <3>1. S \in D /\ ~Acc(S)
      BY <1>2, <2>2
    <3>2. \A i \in IFree : \E l \in L(S) : l.i = i /\ T(S, l) \in V
      <4> HIDE DEF V
      <4> QED
        BY <1>2, <2>2, <3>1
    <3>3. Alive(S)
      <4> SUFFICES ASSUME ~Alive(S) PROVE FALSE
        OBVIOUS
      <4>1. PICK i \in IFree : TRUE
        BY <2>2
      <4>2. PICK l \in L(S) : T(S, l) \in V
        BY <3>2, <4>1
      <4> QED
        BY <1>7, <2>2, <3>1, <4>2
    <3>4. ASSUME NEW i \in IFree
          PROVE  Stops(p, PositionOf(S), i) \/ \E r \in W : r \in Moves(p, PositionOf(S), i)
      <4>1. PICK l \in L(S) : l.i = i /\ T(S, l) \in V
        BY <3>2
      <4>2. CASE Acc(T(S, l))
        BY <1>6, <3>1, <3>3, <4>1, <4>2
      <4>3. CASE Alive(T(S, l)) /\ PositionOf(T(S, l)) \in W
        BY <1>6, <3>1, <3>3, <4>1, <4>3
      <4> QED
        BY <2>2, <4>1, <4>2, <4>3
    <3>5. PositionOf(S) \in W
      <4>1. Forces(p, PositionOf(S), W)
        BY <3>4 DEF Forces
      <4> QED
        BY <1>6, <3>1, <3>3, <4>1
    <3> QED
      BY <3>1, <3>3, <3>5
  <2>3. Absorbs(d, V)
    <3>1. IFree = {} => D \subseteq V
      OBVIOUS
    <3> HIDE DEF V
    <3> QED
      BY <2>1, <2>2, <3>1 DEF Absorbs, D
  <2>4. S0 \in V
    <3>1. V \in SUBSET D
      OBVIOUS
    <3> HIDE DEF V
    <3> QED
      BY <1>3, <1>8, <2>3, <3>1
  <2>5. CASE IFree = {}
    <3>1. Forces(p, InitialPosition(p), W)
      BY <2>5 DEF Forces
    <3> QED
      BY <1>5, <3>1
  <2> QED
    BY <1>5, <2>4, <2>5
<1>9. ASSUME SystemWins(p) PROVE S0 \in A
  <2> DEFINE W == {x \in Positions(p) : \A S \in D : Alive(S) /\ ~Acc(S) /\ PositionOf(S) = x => S \in A}
  <2>1. ASSUME NEW x \in Positions(p), Forces(p, x, W),
               NEW S \in D, Alive(S), ~Acc(S), PositionOf(S) = x
        PROVE  S \in A
    <3>1. ASSUME NEW i \in IFree
          PROVE  \E l \in L(S) : l.i = i /\ T(S, l) \in A
      <4>1. CASE Stops(p, x, i)
        <5>1. PICK l \in L(S) : l.i = i /\ Acc(T(S, l))
          BY <1>6, <2>1, <4>1
        <5>2. T(S, l) \in Final(d)
          BY <1>1, <1>2, <5>1
        <5> QED
          BY <1>3, <5>1, <5>2 DEF Absorbs
      <4>2. CASE \E r \in W : r \in Moves(p, x, i)
        <5>1. PICK r \in W : r \in Moves(p, x, i)
          BY <4>2
        <5>2. PICK l \in L(S) : l.i = i /\ Alive(T(S, l)) /\ r = PositionOf(T(S, l))
          <6> HIDE DEF W
          <6> QED
            BY <1>6, <2>1, <5>1
        <5>3. T(S, l) \in D
          BY <1>1
        <5>4. CASE Acc(T(S, l))
          BY <1>2, <1>3, <5>2, <5>3, <5>4 DEF Absorbs
        <5>5. CASE ~Acc(T(S, l))
          BY <5>1, <5>2, <5>3, <5>5
        <5> QED
          BY <5>4, <5>5
      <4> QED
        BY <2>1, <4>1, <4>2 DEF Forces
    <3>2. Draws(d, S, A)
      BY <1>2, <3>1
    <3>3. S \notin Final(d)
      BY <1>2, <2>1
    <3> QED
      BY <1>3, <3>2, <3>3 DEF Absorbs, D
  <2>2. InitialPosition(p) \in W
    <3>1. \A x \in Positions(p) : Forces(p, x, W) => x \in W
      BY <2>1
    <3>2. W \in SUBSET Positions(p)
      OBVIOUS
    <3> HIDE DEF W
    <3> QED
      BY <1>9, <3>1, <3>2, SystemWinsMeans
  <2> QED
    BY <1>1, <1>5, <2>2
<1> QED
  BY <1>4, <1>8, <1>9 DEF S0

-----------------------------------------------------------------------------
(* The contract.                                                            *)

LEMMA NfaContractGame ==
  ASSUME NEW p
  PROVE  Contract!SystemWins(p) = SystemWins(p)
BY DEF SystemWins, Positions, Vectors, Stops, Moves, Agreeing, Emitted, DeltaDefined, Matching,
   Delta, First, InitialPosition, InitialVector, TrueCell, NextCell, Letter,
   Contract!SystemWins, Contract!Positions, Contract!Vectors, Contract!Stops, Contract!Moves,
   Contract!Agreeing, Contract!Emitted, Contract!DeltaDefined, Contract!Matching, Contract!Delta,
   Contract!First, Contract!InitialPosition, Contract!InitialVector, Contract!TrueCell,
   Contract!NextCell, Contract!Letter

LEMMA NfaContractInput ==
  ASSUME NEW p
  PROVE  Contract!WellFormed(p) = WellFormed(p)
BY DEF WellFormed, IsTransducer, Transducers, Cells, FalseCell, TrueCell, NextCell, Letter,
   Contract!WellFormed, Contract!IsTransducer, Contract!Transducers, Contract!Cells,
   Contract!FalseCell, Contract!TrueCell, Contract!NextCell, Contract!Letter

LEMMA NfaContractAnswers ==
  ASSUME NEW p
  PROVE  /\ SystemWins(p) => "controller" \in Contract!Answers(p)
         /\ ~SystemWins(p) => "unrealizable" \in Contract!Answers(p)
         /\ \A t \in DOMAIN p.taus : \A s \in p.taus[t].states :
              Overlap(p.taus[t], s) => "runtime_error" \in Contract!Answers(p)
<1>1. Contract!SystemWins(p) = SystemWins(p)
  BY NfaContractGame
<1>2. \A tau, s : Contract!Overlap(tau, s) = Overlap(tau, s)
  BY DEF Overlap, Contract!Overlap
<1> QED
  BY <1>1, <1>2 DEF Contract!Answers

\* delta throws only where two edges of one state of one transducer overlap.
LEMMA ThrowMeansOverlap ==
  ASSUME NEW p, WellFormed(p), NEW s, s.taus \in Vectors(p), NEW l, ThrowsOn(p, s, l)
  PROVE  \E t \in DOMAIN p.taus : s.taus[t] \in p.taus[t].states /\ Overlap(p.taus[t], s.taus[t])
<1>1. PICK t \in DOMAIN p.taus : Cardinality(Matching(p.taus[t], s.taus[t], l)) > 1
  BY DEF ThrowsOn
<1> DEFINE tau == p.taus[t]
           q == s.taus[t]
           M == Matching(tau, q, l)
           n == Len(tau.edges[q])
<1>2. q \in tau.states /\ IsTransducer(tau)
  BY <1>1 DEF Vectors, WellFormed
<1>3. tau.edges[q] \in Seq([guard : SUBSET Letter, dst : tau.states])
  BY <1>2 DEF IsTransducer, Transducers
<1>4. n \in Nat /\ DOMAIN tau.edges[q] = 1 .. n
  BY <1>3, LenProperties
<1> HIDE DEF tau, q
<1>5. M \subseteq 1 .. n /\ \A m \in M : m \in DOMAIN tau.edges[q] /\ l \in tau.edges[q][m].guard
  BY <1>4 DEF Matching
<1>6. Cardinality(M) > 1
  BY <1>1 DEF tau, q
<1> HIDE DEF M, n
<1>7. PICK a \in M, b \in M : a # b
  <2> SUFFICES ASSUME \A a, b \in M : a = b PROVE FALSE
    OBVIOUS
  <2>1. CASE M = {}
    <3>1. Cardinality(M) = 0
      BY <2>1, FS_EmptySet
    <3> QED
      BY <1>6, <3>1
  <2>2. CASE M # {}
    <3>1. PICK a \in M : M = {a}
      BY <2>2
    <3>2. Cardinality(M) = 1
      BY <3>1, FS_Singleton
    <3> QED
      BY <1>6, <3>2
  <2> QED
    BY <2>1, <2>2
<1>8. a < b \/ b < a
  BY <1>4, <1>5, <1>7
<1>9. Overlap(tau, q)
  BY <1>5, <1>7, <1>8 DEF Overlap
<1> QED
  BY <1>1, <1>2, <1>9 DEF tau, q

LEMMA NfaThrowAnswers == NfaInv /\ ThrowNondeterministic => Contract!Answer
<1> SUFFICES ASSUME NfaInv, ThrowNondeterministic PROVE Contract!Answer
  OBVIOUS
<1> DEFINE s == Head(worklist)
<1>1. /\ problem \in Problems /\ WellFormed(problem) /\ result = "none" /\ worklist # <<>>
      /\ GraphSoFar(problem, nodes, worklist) /\ Throws(s)
      /\ result' = "runtime_error" /\ problem' = problem
  BY ProblemsWellFormed DEF NfaInv, ThrowNondeterministic
<1>2. s \in NfaStates(problem)
  BY <1>1, HeadTailProperties DEF GraphSoFar
<1>3. PICK l \in Letter : ThrowsOn(problem, s, l)
  BY <1>1 DEF Throws
<1>4. s.taus \in Vectors(problem)
  BY <1>2 DEF NfaStates
<1> HIDE DEF s
<1>5. \E t \in DOMAIN problem.taus : s.taus[t] \in problem.taus[t].states /\ Overlap(problem.taus[t], s.taus[t])
  BY <1>1, <1>3, <1>4, ThrowMeansOverlap
<1>6. "runtime_error" \in Contract!Answers(problem)
  BY <1>5, NfaContractAnswers
<1> QED
  BY <1>1, <1>6 DEF Contract!Answer

LEMMA NfaSolveAnswers == NfaInv /\ Solve => Contract!Answer
<1> SUFFICES ASSUME NfaInv, Solve PROVE Contract!Answer
  OBVIOUS
<1>1. /\ problem \in Problems /\ result = "none" /\ problem' = problem
      /\ IsProduct(problem, product) /\ SubsetsSoFar(problem, product, interned, <<>>, dfa)
      /\ result' = IF WinsArena(dfa, {NfaInitialState(problem)}) THEN "controller" ELSE "unrealizable"
  BY DEF NfaInv, Solve
<1>2. WinsArena(dfa, {NfaInitialState(problem)}) <=> SystemWins(problem)
  BY <1>1, SubsetsComplete, DeterminizedIsGame
<1>3. result' \in Contract!Answers(problem) /\ result' # "none"
  BY <1>1, <1>2, NfaContractAnswers
<1> QED
  BY <1>1, <1>3 DEF Contract!Answer

\* The explicit Method 1 gives one answer, and a controller exactly when the system wins
\* the reference game; so its two forms agree wherever neither throws.
THEOREM NfaMeetsContract == FormsSpec => ImplementsContract
<1>1. FormsInit => Contract!Init
  BY ProblemsWellFormed, NfaContractInput DEF FormsInit, Init, Contract!Init
<1>2. NfaInv /\ [StepNfa \/ StepMtnfa]_<<vars, mVars>> => [Contract!Answer]_<<problem, result>>
  <2>1. StepNfa => Next
    BY DEF StepNfa
  <2>2. StepMtnfa \/ UNCHANGED <<vars, mVars>> => UNCHANGED <<problem, result>>
    BY DEF StepMtnfa, vars
  <2>3. Complete \/ Explore \/ Materialize \/ Determinize \/ FinishDeterminize => UNCHANGED <<problem, result>>
    BY DEF Complete, Explore, Materialize, Determinize, FinishDeterminize
  <2> QED
    BY <2>1, <2>2, <2>3, NfaThrowAnswers, NfaSolveAnswers DEF Next
<1> QED
  BY <1>1, <1>2, NfaInvariant, PTL DEF FormsSpec, ImplementsContract, Contract!Spec

-----------------------------------------------------------------------------
(* Recursion over formulas.                                                  *)

\* A step of a recursion with values in V uses what it has for the operands only.
LocalStep(V, step) ==
  /\ step \in [[Formulas -> V] -> [Formulas -> V]]
  /\ \A g, h \in [Formulas -> V], x \in Formulas :
       (\A m \in DOMAIN x.args : g[x.args[m]] = h[x.args[m]]) => step[g][x] = step[h][x]

\* What h has for the formulas less deep than n is final.
FinalBelow(step, h, n) == \A x \in Formulas : Depth[x] < n => h[x] = step[h][x]

\* The operands are formulas, and less deep.
LEMMA OperandsAreFormulas ==
  ASSUME NEW x \in Formulas, NEW m \in DOMAIN x.args
  PROVE  x.args[m] \in Formulas /\ Depth[x.args[m]] \in Nat /\ Depth[x] \in Nat /\ Depth[x.args[m]] < Depth[x]
BY FormulasAreTrees

\* Two functions final below one depth agree below it.
LEMMA FinalIsUnique ==
  ASSUME NEW V, NEW step, LocalStep(V, step), NEW g \in [Formulas -> V], NEW h \in [Formulas -> V],
         NEW n \in Nat, FinalBelow(step, g, n), FinalBelow(step, h, n)
  PROVE  \A x \in Formulas : Depth[x] < n => g[x] = h[x]
<1> DEFINE S == {k \in Nat : \A x \in Formulas : Depth[x] < k /\ Depth[x] < n => g[x] = h[x]}
<1>1. 0 \in S
  BY FormulasAreTrees
<1>2. ASSUME NEW k \in Nat, k \in S
      PROVE  k + 1 \in S
  <2> SUFFICES ASSUME NEW x \in Formulas, Depth[x] < k + 1, Depth[x] < n
               PROVE  g[x] = h[x]
    OBVIOUS
  <2>1. ASSUME NEW m \in DOMAIN x.args
        PROVE  g[x.args[m]] = h[x.args[m]]
    <3>1. x.args[m] \in Formulas /\ Depth[x.args[m]] < k /\ Depth[x.args[m]] < n
      BY OperandsAreFormulas
    <3> QED
      BY <1>2, <3>1
  <2>2. step[g][x] = step[h][x]
    BY <2>1 DEF LocalStep
  <2> QED
    BY <2>2 DEF FinalBelow
<1>3. Nat \subseteq S
  <2> HIDE DEF S
  <2> QED
    BY <1>1, <1>2, SetInduction
<1> QED
  BY <1>3

\* Below every depth one is final: the step makes it final one depth further.
LEMMA FinalExists ==
  ASSUME NEW V, NEW a \in V, NEW step, LocalStep(V, step)
  PROVE  \A n \in Nat : \E h \in [Formulas -> V] : FinalBelow(step, h, n)
<1> DEFINE S == {n \in Nat : \E h \in [Formulas -> V] : FinalBelow(step, h, n)}
<1>1. 0 \in S
  <2>1. [x \in Formulas |-> a] \in [Formulas -> V]
    OBVIOUS
  <2>2. FinalBelow(step, [x \in Formulas |-> a], 0)
    BY FormulasAreTrees DEF FinalBelow
  <2> QED
    BY <2>1, <2>2
<1>2. ASSUME NEW n \in Nat, n \in S
      PROVE  n + 1 \in S
  <2>1. PICK h \in [Formulas -> V] : FinalBelow(step, h, n)
    BY <1>2
  <2>2. step[h] \in [Formulas -> V]
    BY DEF LocalStep
  <2>3. FinalBelow(step, step[h], n + 1)
    <3> SUFFICES ASSUME NEW x \in Formulas, Depth[x] < n + 1
                 PROVE  step[h][x] = step[step[h]][x]
      BY DEF FinalBelow
    <3>1. ASSUME NEW m \in DOMAIN x.args
          PROVE  h[x.args[m]] = step[h][x.args[m]]
      <4>1. x.args[m] \in Formulas /\ Depth[x.args[m]] < n
        BY OperandsAreFormulas
      <4> QED
        BY <2>1, <4>1 DEF FinalBelow
    <3> QED
      BY <2>2, <3>1 DEF LocalStep
  <2> QED
    BY <2>2, <2>3
<1>3. Nat \subseteq S
  <2> HIDE DEF S
  <2> QED
    BY <1>1, <1>2, SetInduction
<1> QED
  BY <1>3

\* Such a recursion defines a function.
LEMMA TreeRecursion ==
  ASSUME NEW V, NEW a \in V, NEW step, LocalStep(V, step)
  PROVE  \E h \in [Formulas -> V] : h = step[h]
<1> DEFINE upTo(n) == CHOOSE h \in [Formulas -> V] : FinalBelow(step, h, n)
           all == [x \in Formulas |-> upTo(Depth[x] + 1)[x]]
<1>1. ASSUME NEW n \in Nat
      PROVE  upTo(n) \in [Formulas -> V] /\ FinalBelow(step, upTo(n), n)
  <2>1. \E h \in [Formulas -> V] : FinalBelow(step, h, n)
    BY FinalExists
  <2> QED
    BY <2>1
<1> HIDE DEF upTo
<1>2. all \in [Formulas -> V]
  BY <1>1, FormulasAreTrees
<1>3. ASSUME NEW x \in Formulas
      PROVE  all[x] = step[all][x]
  <2> DEFINE n == Depth[x] + 1
             h == upTo(n)
  <2>1. n \in Nat /\ Depth[x] \in Nat
    BY FormulasAreTrees
  <2>2. h \in [Formulas -> V] /\ FinalBelow(step, h, n)
    BY <1>1, <2>1
  <2>3. ASSUME NEW m \in DOMAIN x.args
        PROVE  all[x.args[m]] = h[x.args[m]]
    <3> DEFINE y == x.args[m]
               k == Depth[y] + 1
    <3>1. y \in Formulas /\ k \in Nat /\ Depth[y] < k /\ k <= n /\ Depth[y] \in Nat
      BY OperandsAreFormulas
    <3>2. upTo(k) \in [Formulas -> V] /\ FinalBelow(step, upTo(k), k)
      BY <1>1, <3>1
    <3>3. FinalBelow(step, h, k)
      BY <2>1, <2>2, <3>1, FormulasAreTrees DEF FinalBelow
    <3> HIDE DEF h, k
    <3>4. upTo(k)[y] = h[y]
      BY <2>2, <3>1, <3>2, <3>3, FinalIsUnique
    <3> QED
      BY <3>1, <3>4 DEF k
  <2> HIDE DEF h
  <2>4. step[all][x] = step[h][x]
    BY <1>2, <2>2, <2>3 DEF LocalStep
  <2>5. step[h][x] = h[x]
    BY <2>1, <2>2 DEF FinalBelow
  <2>6. all[x] = h[x]
    BY DEF h
  <2> QED
    BY <2>4, <2>5, <2>6
<1>4. step[all] \in [Formulas -> V]
  BY <1>2 DEF LocalStep
<1> HIDE DEF all
<1>5. all = step[all]
  BY <1>2, <1>3, <1>4
<1> QED
  BY <1>2, <1>5

-----------------------------------------------------------------------------
(* The mirror image.                                                         *)

\* The values of the two recursions are sets of positions, whatever the operands'.
LEMMA FutureIsPositions ==
  ASSUME NEW x, NEW w, NEW P
  PROVE  Future(x, w, P) \in SUBSET Pos(w)
<1>1. Combine(x, w, P) \in SUBSET Pos(w)
  BY DEF Combine
<1> QED
  BY <1>1 DEF Future

\* ... and of the clause of one.
LEMMA PastIsPositions ==
  ASSUME NEW x, NEW w, NEW P
  PROVE  Past(x, w, P) \in SUBSET Pos(w)
<1>1. Combine(x, w, P) \in SUBSET Pos(w)
  BY DEF Combine
<1> QED
  BY <1>1 DEF Past

\* h has the positions at which each formula holds in w; likewise each clause.
HoldsEverywhere(w, h) == h = [x \in Formulas |-> Future(x, w, [m \in DOMAIN x.args |-> h[x.args[m]]])]
ClausesHold(w, h) == h = [x \in Formulas |-> Past(x, w, [m \in DOMAIN x.args |-> h[x.args[m]]])]

\* The meaning of goals is a function that obeys its recursion at every formula.
LEMMA HoldsIsDefined ==
  ASSUME NEW w
  PROVE  \E h \in [Formulas -> SUBSET Pos(w)] :
           HoldsEverywhere(w, h) /\ \A x \in Formulas : HoldsAt(x, w) = h[x]
<1> DEFINE V == SUBSET Pos(w)
           next(h) == [x \in Formulas |-> Future(x, w, [m \in DOMAIN x.args |-> h[x.args[m]]])]
           step == [h \in [Formulas -> V] |-> next(h)]
<1>1. \A h : next(h) \in [Formulas -> V]
  BY FutureIsPositions
<1>2. LocalStep(V, step)
  <2>1. step \in [[Formulas -> V] -> [Formulas -> V]]
    <3> HIDE DEF next, V
    <3> QED
      BY <1>1
  <2>2. ASSUME NEW g \in [Formulas -> V], NEW h \in [Formulas -> V], NEW x \in Formulas,
               \A m \in DOMAIN x.args : g[x.args[m]] = h[x.args[m]]
        PROVE  step[g][x] = step[h][x]
    <3>1. [m \in DOMAIN x.args |-> g[x.args[m]]] = [m \in DOMAIN x.args |-> h[x.args[m]]]
      BY <2>2
    <3>2. next(g)[x] = next(h)[x]
      BY <3>1
    <3>3. step[g] = next(g) /\ step[h] = next(h)
      OBVIOUS
    <3> QED
      BY <3>2, <3>3
  <2> HIDE DEF step, V
  <2> QED
    BY <2>1, <2>2 DEF LocalStep
<1>3. {} \in V
  OBVIOUS
<1>4. \E h \in [Formulas -> V] : h = step[h]
  <2> HIDE DEF step, V
  <2> QED
    BY <1>2, <1>3, TreeRecursion
<1> DEFINE holds == CHOOSE h : h = next(h)
<1>5. holds = next(holds)
  <2>1. \E h : h = next(h)
    <3>1. PICK h \in [Formulas -> V] : h = step[h]
      BY <1>4
    <3>2. h = next(h)
      BY <3>1
    <3> HIDE DEF next
    <3> QED
      BY <3>2
  <2> HIDE DEF next
  <2> QED
    BY <2>1
<1>6. \A x : HoldsAt(x, w) = holds[x]
  BY DEF HoldsAt
<1>7. holds \in [Formulas -> V]
  <2> HIDE DEF next, V, holds
  <2> QED
    BY <1>1, <1>5
<1> HIDE DEF holds
<1>8. HoldsEverywhere(w, holds)
  BY <1>5 DEF HoldsEverywhere
<1> QED
  BY <1>6, <1>7, <1>8

\* So are the clauses of encode_mirror.
LEMMA ClausesAreDefined ==
  ASSUME NEW w
  PROVE  \E h \in [Formulas -> SUBSET Pos(w)] :
           ClausesHold(w, h) /\ \A x \in Formulas : Trans(x, w) = h[x]
<1> DEFINE V == SUBSET Pos(w)
           next(h) == [x \in Formulas |-> Past(x, w, [m \in DOMAIN x.args |-> h[x.args[m]]])]
           step == [h \in [Formulas -> V] |-> next(h)]
<1>1. \A h : next(h) \in [Formulas -> V]
  BY PastIsPositions
<1>2. LocalStep(V, step)
  <2>1. step \in [[Formulas -> V] -> [Formulas -> V]]
    <3> HIDE DEF next, V
    <3> QED
      BY <1>1
  <2>2. ASSUME NEW g \in [Formulas -> V], NEW h \in [Formulas -> V], NEW x \in Formulas,
               \A m \in DOMAIN x.args : g[x.args[m]] = h[x.args[m]]
        PROVE  step[g][x] = step[h][x]
    <3>1. [m \in DOMAIN x.args |-> g[x.args[m]]] = [m \in DOMAIN x.args |-> h[x.args[m]]]
      BY <2>2
    <3>2. next(g)[x] = next(h)[x]
      BY <3>1
    <3>3. step[g] = next(g) /\ step[h] = next(h)
      OBVIOUS
    <3> QED
      BY <3>2, <3>3
  <2> HIDE DEF step, V
  <2> QED
    BY <2>1, <2>2 DEF LocalStep
<1>3. {} \in V
  OBVIOUS
<1>4. \E h \in [Formulas -> V] : h = step[h]
  <2> HIDE DEF step, V
  <2> QED
    BY <1>2, <1>3, TreeRecursion
<1> DEFINE holds == CHOOSE h : h = next(h)
<1>5. holds = next(holds)
  <2>1. \E h : h = next(h)
    <3>1. PICK h \in [Formulas -> V] : h = step[h]
      BY <1>4
    <3>2. h = next(h)
      BY <3>1
    <3> HIDE DEF next
    <3> QED
      BY <3>2
  <2> HIDE DEF next
  <2> QED
    BY <2>1
<1>6. \A x : Trans(x, w) = holds[x]
  BY DEF Trans
<1>7. holds \in [Formulas -> V]
  <2> HIDE DEF next, V, holds
  <2> QED
    BY <1>1, <1>5
<1> HIDE DEF holds
<1>8. ClausesHold(w, holds)
  BY <1>5 DEF ClausesHold
<1> QED
  BY <1>6, <1>7, <1>8

\* A and B are sets of positions below n, each the other's mirror image.
Mirrored(n, A, B) ==
  /\ A \subseteq 0 .. (n - 1) /\ B \subseteq 0 .. (n - 1)
  /\ \A p \in 0 .. (n - 1) : p \in A <=> n - 1 - p \in B

Until(n, P1, P2, p) == \E j \in p .. (n - 1) : j \in P2 /\ \A k \in p .. (j - 1) : k \in P1
Release(n, P1, P2, p) == \A j \in p .. (n - 1) : j \in P2 \/ \E k \in p .. (j - 1) : k \in P1
StrongRelease(n, P1, P2, p) == \E j \in p .. (n - 1) : j \in P1 /\ p .. j \subseteq P2
Always(n, P, p) == p .. (n - 1) \subseteq P

\* X and strong_X against TransWeakYesterday and TransStrongYesterday.
LEMMA StepsMirror ==
  ASSUME NEW n \in Nat, NEW A, NEW B, Mirrored(n, A, B), NEW p \in 0 .. (n - 1)
  PROVE  /\ (p + 1 \in 0 .. (n - 1) => p + 1 \in A) <=> WeakYesterday(B, n - 1 - p)
         /\ p + 1 \in A <=> StrongYesterday(B, n - 1 - p)
<1>1. p + 1 \in 0 .. (n - 1) => (p + 1 \in A <=> n - 1 - (p + 1) \in B)
  BY DEF Mirrored
<1>2. n - 1 - (p + 1) = n - 1 - p - 1 /\ (p + 1 \in 0 .. (n - 1) <=> n - 1 - p # 0)
  OBVIOUS
<1>3. p + 1 \in A => p + 1 \in 0 .. (n - 1)
  BY DEF Mirrored
<1> QED
  BY <1>1, <1>2, <1>3 DEF WeakYesterday, StrongYesterday

\* G and F against TransHistorically and TransOnce.
LEMMA AlwaysMirrors ==
  ASSUME NEW n \in Nat, NEW A, NEW B, Mirrored(n, A, B), NEW p \in 0 .. (n - 1)
  PROVE  /\ Always(n, A, p) <=> Historically(B, n - 1 - p)
         /\ ~Always(n, 0 .. (n - 1) \ A, p) <=> Once(B, n - 1 - p)
<1> USE DEF Mirrored
<1>1. ASSUME NEW j \in p .. (n - 1)
      PROVE  /\ j \in 0 .. (n - 1) /\ n - 1 - j \in 0 .. (n - 1 - p)
             /\ j \in A <=> n - 1 - j \in B
  OBVIOUS
<1>2. ASSUME NEW j \in 0 .. (n - 1 - p)
      PROVE  n - 1 - j \in p .. (n - 1) /\ n - 1 - j \in 0 .. (n - 1) /\ (n - 1 - j \in A <=> j \in B)
  <2>1. n - 1 - j \in p .. (n - 1) /\ n - 1 - j \in 0 .. (n - 1) /\ n - 1 - (n - 1 - j) = j
    OBVIOUS
  <2> QED
    BY <2>1
<1>3. Always(n, A, p) <=> Historically(B, n - 1 - p)
  BY <1>1, <1>2 DEF Always, Historically
<1>4. ~Always(n, 0 .. (n - 1) \ A, p) <=> \E j \in p .. (n - 1) : j \in A
  BY <1>1 DEF Always
<1>5. (\E j \in p .. (n - 1) : j \in A) <=> Once(B, n - 1 - p)
  BY <1>1, <1>2 DEF Once
<1> QED
  BY <1>3, <1>4, <1>5

\* U against TransSince.
LEMMA UntilMirrors ==
  ASSUME NEW n \in Nat, NEW A1, NEW B1, Mirrored(n, A1, B1), NEW A2, NEW B2, Mirrored(n, A2, B2), NEW p \in 0 .. (n - 1)
  PROVE  Until(n, A1, A2, p) <=> Since(B1, B2, n - 1 - p)
<1> USE DEF Mirrored
<1>1. ASSUME NEW j \in p .. (n - 1), j \in A2, \A k \in p .. (j - 1) : k \in A1
      PROVE  Since(B1, B2, n - 1 - p)
  <2>1. n - 1 - j \in 0 .. (n - 1 - p) /\ n - 1 - j \in B2
    BY <1>1
  <2>2. ASSUME NEW k \in (n - 1 - j + 1) .. (n - 1 - p)
        PROVE  k \in B1
    <3>1. n - 1 - k \in p .. (j - 1) /\ n - 1 - k \in 0 .. (n - 1) /\ n - 1 - (n - 1 - k) = k
      OBVIOUS
    <3> QED
      BY <1>1, <3>1
  <2> QED
    BY <2>1, <2>2 DEF Since
<1>2. ASSUME NEW j \in 0 .. (n - 1 - p), j \in B2, \A k \in (j + 1) .. (n - 1 - p) : k \in B1
      PROVE  Until(n, A1, A2, p)
  <2>1. n - 1 - j \in p .. (n - 1) /\ n - 1 - j \in 0 .. (n - 1) /\ n - 1 - (n - 1 - j) = j
    OBVIOUS
  <2>2. n - 1 - j \in A2
    BY <1>2, <2>1
  <2>3. ASSUME NEW k \in p .. (n - 1 - j - 1)
        PROVE  k \in A1
    <3>1. n - 1 - k \in (j + 1) .. (n - 1 - p) /\ k \in 0 .. (n - 1)
      OBVIOUS
    <3> QED
      BY <1>2, <3>1
  <2> QED
    BY <2>1, <2>2, <2>3 DEF Until
<1> QED
  BY <1>1, <1>2 DEF Until, Since

\* R against TransTrigger.
LEMMA ReleaseMirrors ==
  ASSUME NEW n \in Nat, NEW A1, NEW B1, Mirrored(n, A1, B1), NEW A2, NEW B2, Mirrored(n, A2, B2), NEW p \in 0 .. (n - 1)
  PROVE  Release(n, A1, A2, p) <=> Trigger(B1, B2, n - 1 - p)
<1> USE DEF Mirrored
<1>1. ASSUME Release(n, A1, A2, p), NEW j \in 0 .. (n - 1 - p)
      PROVE  j \in B2 \/ \E k \in (j + 1) .. (n - 1 - p) : k \in B1
  <2>1. n - 1 - j \in p .. (n - 1) /\ n - 1 - j \in 0 .. (n - 1) /\ n - 1 - (n - 1 - j) = j
    OBVIOUS
  <2>2. CASE n - 1 - j \in A2
    BY <2>1, <2>2
  <2>3. CASE n - 1 - j \notin A2
    <3>1. PICK k \in p .. (n - 1 - j - 1) : k \in A1
      BY <1>1, <2>1, <2>3 DEF Release
    <3>2. n - 1 - k \in (j + 1) .. (n - 1 - p) /\ k \in 0 .. (n - 1)
      OBVIOUS
    <3>3. n - 1 - k \in B1
      BY <3>1, <3>2
    <3> QED
      BY <3>2, <3>3
  <2> QED
    BY <2>2, <2>3
<1>2. ASSUME Trigger(B1, B2, n - 1 - p), NEW j \in p .. (n - 1)
      PROVE  j \in A2 \/ \E k \in p .. (j - 1) : k \in A1
  <2>1. n - 1 - j \in 0 .. (n - 1 - p) /\ j \in 0 .. (n - 1)
    OBVIOUS
  <2>2. CASE n - 1 - j \in B2
    BY <2>1, <2>2
  <2>3. CASE n - 1 - j \notin B2
    <3>1. PICK k \in (n - 1 - j + 1) .. (n - 1 - p) : k \in B1
      BY <1>2, <2>1, <2>3 DEF Trigger
    <3>2. n - 1 - k \in p .. (j - 1) /\ n - 1 - k \in 0 .. (n - 1) /\ n - 1 - (n - 1 - k) = k
      OBVIOUS
    <3>3. n - 1 - k \in A1
      BY <3>1, <3>2
    <3> QED
      BY <3>2, <3>3
  <2> QED
    BY <2>2, <2>3
<1> QED
  BY <1>1, <1>2 DEF Release, Trigger

\* M against TransStrongTrigger.
LEMMA StrongReleaseMirrors ==
  ASSUME NEW n \in Nat, NEW A1, NEW B1, Mirrored(n, A1, B1), NEW A2, NEW B2, Mirrored(n, A2, B2), NEW p \in 0 .. (n - 1)
  PROVE  StrongRelease(n, A1, A2, p) <=> StrongTrigger(B1, B2, n - 1 - p)
<1> USE DEF Mirrored
<1>1. ASSUME NEW j \in p .. (n - 1), j \in A1, p .. j \subseteq A2
      PROVE  StrongTrigger(B1, B2, n - 1 - p)
  <2>1. n - 1 - j \in 0 .. (n - 1 - p) /\ n - 1 - j \in B1
    BY <1>1
  <2>2. ASSUME NEW k \in (n - 1 - j) .. (n - 1 - p)
        PROVE  k \in B2
    <3>1. n - 1 - k \in p .. j /\ n - 1 - k \in 0 .. (n - 1) /\ n - 1 - (n - 1 - k) = k
      OBVIOUS
    <3>2. n - 1 - k \in A2
      BY <1>1, <3>1
    <3> QED
      BY <3>1, <3>2
  <2> QED
    BY <2>1, <2>2 DEF StrongTrigger
<1>2. ASSUME NEW j \in 0 .. (n - 1 - p), j \in B1, \A k \in j .. (n - 1 - p) : k \in B2
      PROVE  StrongRelease(n, A1, A2, p)
  <2>1. n - 1 - j \in p .. (n - 1) /\ n - 1 - j \in 0 .. (n - 1) /\ n - 1 - (n - 1 - j) = j
    OBVIOUS
  <2>2. n - 1 - j \in A1
    BY <1>2, <2>1
  <2>3. ASSUME NEW k \in p .. (n - 1 - j)
        PROVE  k \in A2
    <3>1. n - 1 - k \in j .. (n - 1 - p) /\ k \in 0 .. (n - 1)
      OBVIOUS
    <3>2. n - 1 - k \in B2
      BY <1>2, <3>1
    <3> QED
      BY <3>1, <3>2
  <2> QED
    BY <2>1, <2>2, <2>3 DEF StrongRelease
<1> QED
  BY <1>1, <1>2 DEF StrongRelease, StrongTrigger

\* The word r is w read from its end.
Backwards(w, r) ==
  /\ Len(w) \in Nat /\ Len(r) = Len(w)
  /\ \A p \in 0 .. (Len(w) - 1) : w[p + 1] = r[(Len(w) - 1 - p) + 1]

\* The operands of x hold in w where their clauses do, from the other end.
OperandsMirror(x, n, P, Q) ==
  /\ DOMAIN P = DOMAIN x.args /\ DOMAIN Q = DOMAIN x.args
  /\ \A m \in DOMAIN x.args : Mirrored(n, P[m], Q[m])

\* The operands that an operator has.
LEMMA Operands ==
  ASSUME NEW x \in Formulas
  PROVE  /\ x.op \in Unary => 1 \in DOMAIN x.args
         /\ x.op \in Binary => 1 \in DOMAIN x.args /\ 2 \in DOMAIN x.args
BY FormulasAreTrees

\* The Boolean operators do not look at the order.
LEMMA CombineMirrors ==
  ASSUME NEW x \in Formulas, NEW w, NEW r, Backwards(w, r), NEW P, NEW Q, OperandsMirror(x, Len(w), P, Q),
         NEW p \in Pos(w), x.op \notin Temporal
  PROVE  p \in Combine(x, w, P) <=> Len(w) - 1 - p \in Combine(x, r, Q)
<1> DEFINE n == Len(w)
           q == n - 1 - p
<1>1. n \in Nat /\ Pos(w) = 0 .. (n - 1) /\ Pos(r) = 0 .. (n - 1) /\ p \in 0 .. (n - 1) /\ q \in 0 .. (n - 1)
  BY DEF Pos, Backwards
<1>2. w[p + 1] = r[q + 1]
  BY <1>1 DEF Backwards
<1>3. \A m \in DOMAIN x.args : p \in P[m] <=> q \in Q[m]
  BY <1>1 DEF OperandsMirror, Mirrored
<1>4. DOMAIN P = DOMAIN x.args /\ DOMAIN Q = DOMAIN x.args
  BY DEF OperandsMirror
<1>5. p \in Pos(w) /\ q \in Pos(r)
  BY <1>1
<1>6. x.op = "Not" => 1 \in DOMAIN x.args
  BY Operands DEF Unary
<1>7. x.op \in {"Xor", "Implies", "Equiv"} => 1 \in DOMAIN x.args /\ 2 \in DOMAIN x.args
  BY Operands DEF Binary
<1>8. SUFFICES p \in Combine(x, w, P) <=> q \in Combine(x, r, Q)
  OBVIOUS
<1> HIDE DEF q
<1>11. CASE x.op = "ap"
  <2>1. Combine(x, w, P) = {j \in Pos(w) : x.name \in w[j + 1]}
    BY <1>11 DEF Combine
  <2>2. Combine(x, r, Q) = {j \in Pos(r) : x.name \in r[j + 1]}
    BY <1>11 DEF Combine
  <2> QED
    BY <1>2, <1>5, <1>11, <2>1, <2>2
<1>12. CASE x.op = "tt"
  <2>1. Combine(x, w, P) = Pos(w)
    BY <1>12 DEF Combine
  <2>2. Combine(x, r, Q) = Pos(r)
    BY <1>12 DEF Combine
  <2> QED
    BY <1>5, <1>12, <2>1, <2>2
<1>13. CASE x.op = "Not"
  <2>1. Combine(x, w, P) = Pos(w) \ P[1]
    BY <1>13 DEF Combine
  <2>2. Combine(x, r, Q) = Pos(r) \ Q[1]
    BY <1>13 DEF Combine
  <2> QED
    BY <1>3, <1>5, <1>6, <1>13, <2>1, <2>2
<1>14. CASE x.op = "And"
  <2>1. Combine(x, w, P) = {j \in Pos(w) : \A m \in DOMAIN P : j \in P[m]}
    BY <1>14 DEF Combine
  <2>2. Combine(x, r, Q) = {j \in Pos(r) : \A m \in DOMAIN Q : j \in Q[m]}
    BY <1>14 DEF Combine
  <2> QED
    BY <1>3, <1>4, <1>5, <1>14, <2>1, <2>2
<1>15. CASE x.op = "Or"
  <2>1. Combine(x, w, P) = {j \in Pos(w) : \E m \in DOMAIN P : j \in P[m]}
    BY <1>15 DEF Combine
  <2>2. Combine(x, r, Q) = {j \in Pos(r) : \E m \in DOMAIN Q : j \in Q[m]}
    BY <1>15 DEF Combine
  <2> QED
    BY <1>3, <1>4, <1>5, <1>15, <2>1, <2>2
<1>16. CASE x.op = "Xor"
  <2>1. Combine(x, w, P) = {j \in Pos(w) : ~(j \in P[1] <=> j \in P[2])}
    BY <1>16 DEF Combine
  <2>2. Combine(x, r, Q) = {j \in Pos(r) : ~(j \in Q[1] <=> j \in Q[2])}
    BY <1>16 DEF Combine
  <2> QED
    BY <1>3, <1>5, <1>7, <1>16, <2>1, <2>2
<1>17. CASE x.op = "Implies"
  <2>1. Combine(x, w, P) = {j \in Pos(w) : j \in P[1] => j \in P[2]}
    BY <1>17 DEF Combine
  <2>2. Combine(x, r, Q) = {j \in Pos(r) : j \in Q[1] => j \in Q[2]}
    BY <1>17 DEF Combine
  <2> QED
    BY <1>3, <1>5, <1>7, <1>17, <2>1, <2>2
<1>18. CASE x.op = "Equiv"
  <2>1. Combine(x, w, P) = {j \in Pos(w) : j \in P[1] <=> j \in P[2]}
    BY <1>18 DEF Combine
  <2>2. Combine(x, r, Q) = {j \in Pos(r) : j \in Q[1] <=> j \in Q[2]}
    BY <1>18 DEF Combine
  <2> QED
    BY <1>3, <1>5, <1>7, <1>18, <2>1, <2>2
<1>19. CASE x.op \notin {"ap", "tt", "Not", "And", "Or", "Xor", "Implies", "Equiv"}
  <2>1. Combine(x, w, P) = {} /\ Combine(x, r, Q) = {}
    BY <1>19 DEF Combine
  <2> QED
    BY <2>1
<1> QED
  BY <1>11, <1>12, <1>13, <1>14, <1>15, <1>16, <1>17, <1>18, <1>19

\* Nor does a clause, read on the mirror image, say anything else.
LEMMA ClauseMirrors ==
  ASSUME NEW x \in Formulas, NEW w, NEW r, Backwards(w, r), NEW P, NEW Q, OperandsMirror(x, Len(w), P, Q),
         NEW p \in Pos(w)
  PROVE  p \in Future(x, w, P) <=> Len(w) - 1 - p \in Past(x, r, Q)
<1> DEFINE n == Len(w)
           q == n - 1 - p
<1>1. n \in Nat /\ Pos(w) = 0 .. (n - 1) /\ Pos(r) = 0 .. (n - 1) /\ p \in 0 .. (n - 1) /\ q \in 0 .. (n - 1)
  BY DEF Pos, Backwards
<1>2. p \in Pos(w) /\ q \in Pos(r)
  BY <1>1
<1>3. \A m \in DOMAIN x.args : Mirrored(n, P[m], Q[m])
  BY DEF OperandsMirror
<1>11. ASSUME x.op \in {"X", "strong_X", "F", "G"}
       PROVE  p \in Future(x, w, P) <=> q \in Past(x, r, Q)
  <2>1. Mirrored(n, P[1], Q[1])
    BY <1>3, <1>11, Operands DEF Unary
  <2>2. /\ (p + 1 \in 0 .. (n - 1) => p + 1 \in P[1]) <=> WeakYesterday(Q[1], q)
        /\ p + 1 \in P[1] <=> StrongYesterday(Q[1], q)
    BY <1>1, <2>1, StepsMirror
  <2>3. /\ Always(n, P[1], p) <=> Historically(Q[1], q)
        /\ ~Always(n, 0 .. (n - 1) \ P[1], p) <=> Once(Q[1], q)
    BY <1>1, <2>1, AlwaysMirrors
  <2> HIDE DEF q
  <2>4. CASE x.op = "X"
    <3>1. p \in Future(x, w, P) <=> (p + 1 \in 0 .. (n - 1) => p + 1 \in P[1])
      BY <1>1, <1>2, <2>4 DEF Future
    <3>2. q \in Past(x, r, Q) <=> WeakYesterday(Q[1], q)
      BY <1>2, <2>4 DEF Past
    <3> QED
      BY <2>2, <3>1, <3>2
  <2>5. CASE x.op = "strong_X"
    <3>1. p \in Future(x, w, P) <=> p + 1 \in P[1]
      BY <1>2, <2>5 DEF Future
    <3>2. q \in Past(x, r, Q) <=> StrongYesterday(Q[1], q)
      BY <1>2, <2>5 DEF Past
    <3> QED
      BY <2>2, <3>1, <3>2
  <2>6. CASE x.op = "F"
    <3>1. p \in Future(x, w, P) <=> ~Always(n, 0 .. (n - 1) \ P[1], p)
      BY <1>1, <1>2, <2>6 DEF Future, Always
    <3>2. q \in Past(x, r, Q) <=> Once(Q[1], q)
      BY <1>2, <2>6 DEF Past
    <3> QED
      BY <2>3, <3>1, <3>2
  <2>7. CASE x.op = "G"
    <3>1. p \in Future(x, w, P) <=> Always(n, P[1], p)
      BY <1>1, <1>2, <2>7 DEF Future, Always
    <3>2. q \in Past(x, r, Q) <=> Historically(Q[1], q)
      BY <1>2, <2>7 DEF Past
    <3> QED
      BY <2>3, <3>1, <3>2
  <2> QED
    BY <1>11, <2>4, <2>5, <2>6, <2>7
<1>12. ASSUME x.op \in {"U", "R", "W", "M"}
       PROVE  p \in Future(x, w, P) <=> q \in Past(x, r, Q)
  <2>1. Mirrored(n, P[1], Q[1]) /\ Mirrored(n, P[2], Q[2])
    BY <1>3, <1>12, Operands DEF Binary
  <2>2. Until(n, P[1], P[2], p) <=> Since(Q[1], Q[2], q)
    BY <1>1, <2>1, UntilMirrors
  <2>3. Release(n, P[1], P[2], p) <=> Trigger(Q[1], Q[2], q)
    BY <1>1, <2>1, ReleaseMirrors
  <2>4. StrongRelease(n, P[1], P[2], p) <=> StrongTrigger(Q[1], Q[2], q)
    BY <1>1, <2>1, StrongReleaseMirrors
  <2>5. Always(n, P[1], p) <=> Historically(Q[1], q)
    BY <1>1, <2>1, AlwaysMirrors
  <2> HIDE DEF q
  <2>6. CASE x.op = "U"
    <3>1. p \in Future(x, w, P) <=> Until(n, P[1], P[2], p)
      BY <1>1, <1>2, <2>6 DEF Future, Until
    <3>2. q \in Past(x, r, Q) <=> Since(Q[1], Q[2], q)
      BY <1>2, <2>6 DEF Past
    <3> QED
      BY <2>2, <3>1, <3>2
  <2>7. CASE x.op = "R"
    <3>1. p \in Future(x, w, P) <=> Release(n, P[1], P[2], p)
      BY <1>1, <1>2, <2>7 DEF Future, Release
    <3>2. q \in Past(x, r, Q) <=> Trigger(Q[1], Q[2], q)
      BY <1>2, <2>7 DEF Past
    <3> QED
      BY <2>3, <3>1, <3>2
  <2>8. CASE x.op = "W"
    <3>1. p \in Future(x, w, P) <=> Until(n, P[1], P[2], p) \/ Always(n, P[1], p)
      BY <1>1, <1>2, <2>8 DEF Future, Until, Always
    <3>2. q \in Past(x, r, Q) <=> Since(Q[1], Q[2], q) \/ Historically(Q[1], q)
      BY <1>2, <2>8 DEF Past
    <3> QED
      BY <2>2, <2>5, <3>1, <3>2
  <2>9. CASE x.op = "M"
    <3>1. p \in Future(x, w, P) <=> StrongRelease(n, P[1], P[2], p)
      BY <1>1, <1>2, <2>9 DEF Future, StrongRelease
    <3>2. q \in Past(x, r, Q) <=> StrongTrigger(Q[1], Q[2], q)
      BY <1>2, <2>9 DEF Past
    <3> QED
      BY <2>4, <3>1, <3>2
  <2> QED
    BY <1>12, <2>6, <2>7, <2>8, <2>9
<1>13. ASSUME x.op \notin Temporal
       PROVE  p \in Future(x, w, P) <=> q \in Past(x, r, Q)
  <2>1. Future(x, w, P) = Combine(x, w, P)
    BY <1>13 DEF Future, Temporal
  <2>2. Past(x, r, Q) = Combine(x, r, Q)
    BY <1>13 DEF Past, Temporal
  <2> QED
    BY <1>13, <2>1, <2>2, CombineMirrors
<1> QED
  BY <1>11, <1>12, <1>13 DEF Temporal

\* encode_mirror: the goal holds at a position of the word where its clause holds at
\* the mirrored position of the reversed word.
LEMMA GoalMirrors ==
  ASSUME NEW w, NEW r, Backwards(w, r), NEW f \in Formulas, NEW p \in Pos(w)
  PROVE  p \in HoldsAt(f, w) <=> Len(w) - 1 - p \in Trans(f, r)
<1> DEFINE n == Len(w)
<1>1. PICK g \in [Formulas -> SUBSET Pos(w)] : HoldsEverywhere(w, g) /\ \A x \in Formulas : HoldsAt(x, w) = g[x]
  BY HoldsIsDefined
<1>2. PICK h \in [Formulas -> SUBSET Pos(r)] : ClausesHold(r, h) /\ \A x \in Formulas : Trans(x, r) = h[x]
  BY ClausesAreDefined
<1>3. n \in Nat /\ Pos(w) = 0 .. (n - 1) /\ Pos(r) = 0 .. (n - 1)
  BY DEF Backwards, Pos
<1> DEFINE S == {k \in Nat : \A x \in Formulas : Depth[x] < k => Mirrored(n, g[x], h[x])}
<1>4. 0 \in S
  BY FormulasAreTrees
<1>5. ASSUME NEW k \in Nat, k \in S
      PROVE  k + 1 \in S
  <2> SUFFICES ASSUME NEW x \in Formulas, Depth[x] < k + 1
               PROVE  Mirrored(n, g[x], h[x])
    OBVIOUS
  <2> DEFINE P == [m \in DOMAIN x.args |-> g[x.args[m]]]
             Q == [m \in DOMAIN x.args |-> h[x.args[m]]]
  <2>1. ASSUME NEW m \in DOMAIN x.args
        PROVE  Mirrored(n, P[m], Q[m])
    <3>1. x.args[m] \in Formulas /\ Depth[x.args[m]] < k
      BY OperandsAreFormulas
    <3> QED
      BY <1>5, <3>1
  <2>2. OperandsMirror(x, n, P, Q)
    BY <2>1 DEF OperandsMirror
  <2>3. g[x] = Future(x, w, P) /\ h[x] = Past(x, r, Q)
    BY <1>1, <1>2 DEF HoldsEverywhere, ClausesHold
  <2> HIDE DEF P, Q
  <2>4. \A j \in Pos(w) : j \in g[x] <=> n - 1 - j \in h[x]
    BY <2>2, <2>3, ClauseMirrors
  <2>5. g[x] \subseteq Pos(w) /\ h[x] \subseteq Pos(r)
    BY <1>1, <1>2
  <2> QED
    BY <1>3, <2>4, <2>5 DEF Mirrored
<1>6. Nat \subseteq S
  <2> HIDE DEF S
  <2> QED
    BY <1>4, <1>5, SetInduction
<1>7. Mirrored(n, g[f], h[f])
  <2>1. Depth[f] \in Nat
    BY FormulasAreTrees
  <2>2. Depth[f] + 1 \in S /\ Depth[f] < Depth[f] + 1
    BY <1>6, <2>1
  <2> QED
    BY <2>2
<1> QED
  BY <1>1, <1>2, <1>3, <1>7 DEF Mirrored

\* encode_mirror, with the wrapping formula: it says of the word read from its end
\* that the word satisfies the goal.
LEMMA MirrorIsEncoded ==
  ASSUME NEW w, NEW r, Backwards(w, r), w # <<>>, Len(w) > 0, NEW f \in Formulas
  PROVE  Satisfies(w, f) <=> Encoded(f, r)
<1>1. Len(w) \in Nat /\ Pos(r) = 0 .. (Len(w) - 1) /\ 0 \in Pos(w)
  BY DEF Backwards, Pos
<1>2. 0 \in HoldsAt(f, w) <=> Len(w) - 1 \in Trans(f, r)
  BY <1>1, GoalMirrors
<1>3. Encoded(f, r) <=> Len(w) - 1 \in Trans(f, r)
  BY <1>1 DEF Encoded
<1> QED
  BY <1>2, <1>3 DEF Satisfies

-----------------------------------------------------------------------------
(* The table and its automaton.                                              *)

\* What a letter says of the propositions in A.
Reading(A, l) == {name \in A : l \in Region[name]}

\* A letter leads from s to t.
Goes(g, s, l, t) == \E e \in g.edges : e.src = s /\ e.dst = t /\ l \in e.guard

\* In a state, a valuation is read by one move only.
LEMMA TargetIsMove ==
  ASSUME NEW m, NEW vals, IsAutomaton(m, vals), NEW u \in m.states, NEW v \in vals
  PROVE  /\ Target(m, u, v) \in m.states
         /\ \E x \in m.moves : x.src = u /\ x.reads = v /\ x.dst = Target(m, u, v)
         /\ \A x \in m.moves : x.src = u /\ x.reads = v => x.dst = Target(m, u, v)
<1>1. PICK x \in m.moves : \A y \in m.moves : y.src = u /\ y.reads = v <=> y = x
  BY DEF IsAutomaton
<1>2. x.src = u /\ x.reads = v
  BY <1>1
<1> DEFINE z == CHOOSE y \in m.moves : y.src = u /\ y.reads = v
<1>3. z \in m.moves /\ z.src = u /\ z.reads = v
  BY <1>2
<1>4. z = x
  BY <1>1, <1>3
<1>5. x.dst \in m.states
  BY DEF IsAutomaton
<1>6. Target(m, u, v) = z.dst
  BY DEF Target
<1> QED
  BY <1>1, <1>2, <1>4, <1>5, <1>6

\* The order of the declared variables is an enumeration of A.
Enumerates(order, A) == order \in Seq(A) /\ Range(order) = A

\* A line of "X" is read as every letter, one of "0" and "1" as the letters of its valuation.
LEMMA GuardsMean ==
  ASSUME NEW A, NEW order, Enumerates(order, A)
  PROVE  /\ GuardOf(order, AnyBits(order)) = Letter
         /\ \A v \in SUBSET A : GuardOf(order, BitsOf(order, v)) = {l \in Letter : Reading(A, l) = v}
<1>1. GuardOf(order, AnyBits(order)) = Letter
  BY DEF GuardOf, AnyBits
<1>2. ASSUME NEW v \in SUBSET A
      PROVE  GuardOf(order, BitsOf(order, v)) = {l \in Letter : Reading(A, l) = v}
  <2>1. ASSUME NEW n \in DOMAIN order
        PROVE  BitsOf(order, v)[n] # "X" /\ (BitsOf(order, v)[n] = "1" <=> order[n] \in v)
    BY DEF BitsOf
  <2>2. GuardOf(order, BitsOf(order, v)) = {l \in Letter : \A n \in DOMAIN order : order[n] \in v <=> l \in Region[order[n]]}
    BY <2>1 DEF GuardOf
  <2>3. \A name : name \in A <=> \E n \in DOMAIN order : name = order[n]
    BY DEF Enumerates, Range
  <2>4. ASSUME NEW l \in Letter
        PROVE  (\A n \in DOMAIN order : order[n] \in v <=> l \in Region[order[n]]) <=> Reading(A, l) = v
    BY <2>3 DEF Reading
  <2> QED
    BY <2>2, <2>4
<1> QED
  BY <1>1, <1>2

\* The automaton g has the moves of m, and the state Prelude before its initial one.
TableDfa(g, m, A) ==
  /\ g.init = Prelude /\ g.states = m.states \cup {Prelude}
  /\ \A e \in g.edges : e.src \in m.states \cup {Prelude} /\ e.dst \in m.states /\ (e.mark <=> e.src \in m.accepting)
  /\ \A u \in m.states, l \in Letter : \A t : Goes(g, u, l, t) <=> t = Target(m, u, Reading(A, l))
  /\ \E e \in g.edges : e.src = Prelude
  /\ \A e \in g.edges : e.src = Prelude => e.dst = m.init

\* The lines of a state: one for all letters when they lead to the same state.
LinesMean(m, order, A, u) ==
  /\ \A x \in MonaLines(m, order, u) : x.src = u /\ x.dst \in m.states
  /\ \A l \in Letter : \A t : (\E x \in MonaLines(m, order, u) : x.dst = t /\ l \in GuardOf(order, x.bits))
                             <=> t = Target(m, u, Reading(A, l))

\* MONA's shortest lines of a state and one line to a valuation are the same moves.
LEMMA LinesOfState ==
  ASSUME NEW A, NEW order, Enumerates(order, A), NEW m, IsAutomaton(m, SUBSET A), NEW u \in m.states
  PROVE  LinesMean(m, order, A, u)
<1> DEFINE out == {x \in m.moves : x.src = u}
           D == {x.dst : x \in out}
<1>0. \A l : Reading(A, l) \in SUBSET A
  BY DEF Reading
<1>a. ASSUME NEW v \in SUBSET A
      PROVE  (\E x \in out : x.reads = v) /\ \A x \in out : x.reads = v => x.dst = Target(m, u, v)
  <2>1. /\ \E x \in m.moves : x.src = u /\ x.reads = v /\ x.dst = Target(m, u, v)
        /\ \A x \in m.moves : x.src = u /\ x.reads = v => x.dst = Target(m, u, v)
    BY TargetIsMove
  <2> QED
    BY <2>1
<1>b. \A x \in out : x.reads \in SUBSET A /\ x.dst \in m.states
  BY DEF IsAutomaton
<1>1. \A x \in out : x.reads \in SUBSET A /\ x.dst \in m.states /\ x.dst = Target(m, u, x.reads)
  <2> HIDE DEF out
  <2> QED
    BY <1>a, <1>b
<1>2. CASE Cardinality(D) = 1
  <2>1. IsFiniteSet(D)
    BY <1>1, FS_Subset DEF IsAutomaton
  <2>2. PICK d : D = {d}
    BY <1>2, <2>1, FS_Singleton
  <2>3. PICK y \in out : y.dst = d
    BY <2>2
  <2>4. \A x \in out : x.dst = d
    BY <2>2
  <2>5. MonaLines(m, order, u) = {Line(u, AnyBits(order), x.dst) : x \in out}
    BY <1>2 DEF MonaLines
  <2>6. MonaLines(m, order, u) = {Line(u, AnyBits(order), d)}
    BY <2>3, <2>4, <2>5
  <2>7. \A v \in SUBSET A : Target(m, u, v) = d
    BY <1>a, <2>4
  <2>8. d \in m.states
    BY <1>1, <2>3
  <2> QED
    BY <1>0, <2>6, <2>7, <2>8, GuardsMean DEF Line, LinesMean
<1>3. CASE Cardinality(D) # 1
  <2>1. MonaLines(m, order, u) = {Line(u, BitsOf(order, x.reads), x.dst) : x \in out}
    BY <1>3 DEF MonaLines
  <2>2. \A x \in out : Line(u, BitsOf(order, x.reads), x.dst).src = u /\ Line(u, BitsOf(order, x.reads), x.dst).dst = x.dst
                       /\ Line(u, BitsOf(order, x.reads), x.dst).bits = BitsOf(order, x.reads)
    BY DEF Line
  <2>3. ASSUME NEW l \in Letter, NEW t
        PROVE  (\E x \in MonaLines(m, order, u) : x.dst = t /\ l \in GuardOf(order, x.bits)) <=> t = Target(m, u, Reading(A, l))
    <3>1. (\E x \in MonaLines(m, order, u) : x.dst = t /\ l \in GuardOf(order, x.bits))
            <=> \E x \in out : x.dst = t /\ l \in GuardOf(order, BitsOf(order, x.reads))
      <4> HIDE DEF out
      <4> QED
        BY <2>1, <2>2
    <3>2. \A x \in out : l \in GuardOf(order, BitsOf(order, x.reads)) <=> Reading(A, l) = x.reads
      BY <1>1, GuardsMean
    <3> HIDE DEF out
    <3>3. \E x \in out : x.reads = Reading(A, l)
      BY <1>0, <1>a
    <3> QED
      BY <1>1, <3>1, <3>2, <3>3
  <2>4. \A x \in MonaLines(m, order, u) : x.src = u /\ x.dst \in m.states
    <3> HIDE DEF out
    <3> QED
      BY <1>1, <2>1, <2>2
  <2> QED
    BY <2>3, <2>4 DEF LinesMean
<1> QED
  BY <1>2, <1>3

\* mona_output_to_dfa: the table is read as it is meant.
LEMMA TableIsDfa ==
  ASSUME NEW A, NEW order, Enumerates(order, A), NEW m, IsAutomaton(m, SUBSET A)
  PROVE  TableDfa(Parsed(order, MonaTable(m, order)), m, A)
<1> DEFINE first == Line(Prelude, AnyBits(order), m.init)
           rest == UNION {MonaLines(m, order, u) : u \in m.states}
           g == Parsed(order, MonaTable(m, order))
           edge(x) == [src |-> x.src, dst |-> x.dst, guard |-> GuardOf(order, x.bits), mark |-> x.src \in m.accepting]
<1>1. m.init \in m.states /\ Prelude \notin m.states /\ m.accepting \subseteq m.states
  BY DEF IsAutomaton
<1>2. /\ MonaTable(m, order).lines = {first} \cup rest
      /\ MonaTable(m, order).init = Prelude
      /\ MonaTable(m, order).accepting = m.accepting
      /\ MonaTable(m, order).states = m.states \cup {Prelude}
  BY DEF MonaTable
<1>3. /\ g.init = Prelude /\ g.states = m.states \cup {Prelude}
      /\ g.edges = {edge(x) : x \in {first} \cup rest}
  <2> HIDE DEF first, rest
  <2> QED
    BY <1>2 DEF Parsed
<1>4. first.src = Prelude /\ first.dst = m.init /\ first.bits = AnyBits(order)
  BY DEF Line
<1>5. \A x \in rest : \E u \in m.states : x \in MonaLines(m, order, u)
  OBVIOUS
<1>6. \A u \in m.states : MonaLines(m, order, u) \subseteq rest
  OBVIOUS
<1>7. \A u \in m.states : LinesMean(m, order, A, u)
  BY LinesOfState
<1> HIDE DEF first, rest, g
<1>8. \A x \in rest : x.src \in m.states /\ x.dst \in m.states /\ x \in MonaLines(m, order, x.src)
  BY <1>5, <1>7 DEF LinesMean
<1>9. \A x : edge(x).src = x.src /\ edge(x).dst = x.dst /\ edge(x).guard = GuardOf(order, x.bits)
             /\ (edge(x).mark <=> x.src \in m.accepting)
  OBVIOUS
<1> HIDE DEF edge
<1>11. \A e \in g.edges : e.src \in m.states \cup {Prelude} /\ e.dst \in m.states /\ (e.mark <=> e.src \in m.accepting)
  BY <1>1, <1>3, <1>4, <1>8, <1>9
<1>12. ASSUME NEW u \in m.states, NEW l \in Letter, NEW t
       PROVE  Goes(g, u, l, t) <=> t = Target(m, u, Reading(A, l))
  <2>1. Goes(g, u, l, t) <=> \E x \in {first} \cup rest : x.src = u /\ x.dst = t /\ l \in GuardOf(order, x.bits)
    BY <1>3, <1>9 DEF Goes
  <2>2. (\E x \in {first} \cup rest : x.src = u /\ x.dst = t /\ l \in GuardOf(order, x.bits))
          <=> \E x \in MonaLines(m, order, u) : x.dst = t /\ l \in GuardOf(order, x.bits)
    <3>1. \A x \in MonaLines(m, order, u) : x \in rest /\ x.src = u
      BY <1>6, <1>7 DEF LinesMean
    <3>2. \A x \in {first} \cup rest : x.src = u => x \in MonaLines(m, order, u)
      BY <1>1, <1>4, <1>8
    <3>3. MonaLines(m, order, u) = {x \in {first} \cup rest : x.src = u}
      BY <3>1, <3>2
    <3> QED
      BY <3>3
  <2>3. (\E x \in MonaLines(m, order, u) : x.dst = t /\ l \in GuardOf(order, x.bits)) <=> t = Target(m, u, Reading(A, l))
    <3>1. LinesMean(m, order, A, u)
      BY <1>7
    <3> QED
      BY <3>1, Zenon DEF LinesMean
  <2> QED
    BY <2>1, <2>2, <2>3
<1>13. (\E e \in g.edges : e.src = Prelude) /\ \A e \in g.edges : e.src = Prelude => e.dst = m.init
  <2>1. edge(first) \in g.edges
    BY <1>3
  <2>2. \A e \in g.edges : e.src = Prelude => e = edge(first)
    BY <1>1, <1>3, <1>8, <1>9
  <2> QED
    BY <1>4, <1>9, <2>1, <2>2
<1> QED
  BY <1>3, <1>11, <1>12, <1>13 DEF TableDfa, g

\* Every proposition fails in some letter.
Separated(A) == \A v \in SUBSET A : \E l \in Letter : Reading(A, l) = v

\* What MONA may print instead of the table is refused: by the parser, or when its
\* leading state is dropped.
LEMMA OnlyTheTable ==
  ASSUME NEW A, NEW order, Enumerates(order, A), Separated(A), NEW m, IsAutomaton(m, SUBSET A),
         NEW t \in {MonaTable(m, order)} \cup (IF Len(order) < 2 THEN {} ELSE {MonaTable(m, Reverse(order))})
                     \cup (IF order = <<>> THEN {} ELSE FrontEnd!Unlike(MonaTable(m, order))),
         Accepts(order, t), HasPrelude(Parsed(order, t))
  PROVE  t = MonaTable(m, order)
<1>1. CASE t = MonaTable(m, Reverse(order))
  <2>1. t.vars = Reverse(order)
    BY <1>1 DEF MonaTable
  <2>2. order = Reverse(order)
    BY <2>1 DEF Accepts
  <2> QED
    BY <1>1, <2>2
<1>2. CASE order # <<>> /\ t \in FrontEnd!Unlike(MonaTable(m, order))
  <2> DEFINE T == MonaTable(m, order)
             first == Line(Prelude, AnyBits(order), m.init)
             rest == {x \in T.lines : x.src # Prelude}
             odd == {[x EXCEPT !.bits[1] = "1"] : x \in {y \in T.lines : y.src = Prelude}}
             g == Parsed(order, t)
  <2>1. 1 \in DOMAIN order /\ order[1] \in A
    BY <1>2, LenProperties, EmptySeq DEF Enumerates
  <2>2. T.lines = {first} \cup UNION {MonaLines(m, order, u) : u \in m.states} /\ T.init = Prelude /\ T.accepting = m.accepting
    BY DEF MonaTable
  <2>3. t \in {[T EXCEPT !.lines = rest \cup odd], [T EXCEPT !.lines = rest]}
    BY <1>2 DEF FrontEnd!Unlike, FrontEnd!Prelude, Prelude
  <2>4. t.init = Prelude
    BY <2>2, <2>3 DEF MonaTable
  <2>5. first.src = Prelude /\ first.dst = m.init /\ first.bits = AnyBits(order)
    BY DEF Line
  <2>6. g.init = Prelude /\ g.edges = {[src |-> x.src, dst |-> x.dst, guard |-> GuardOf(order, x.bits), mark |-> x.src \in t.accepting] :
                                        x \in t.lines}
    BY <2>4 DEF Parsed
  <2> HIDE DEF g
  <2>7. PICK one \in Out(g, Prelude) : one.guard = Letter
    BY <2>6 DEF HasPrelude, g
  <2>8. PICK e \in g.edges : e.src = Prelude /\ e.guard = Letter
    <3>1. PICK e \in {z \in g.edges : z.src = Prelude} :
            one = [dst |-> e.dst, guard |-> e.guard, mark |-> e.mark]
      BY <2>7 DEF Out
    <3> QED
      BY <2>7, <3>1
  <2>9. PICK x \in t.lines : x.src = Prelude /\ GuardOf(order, x.bits) = Letter
    <3>1. PICK x \in t.lines : e = [src |-> x.src, dst |-> x.dst, guard |-> GuardOf(order, x.bits), mark |-> x.src \in t.accepting]
      BY <2>6
    <3> QED
      BY <2>8, <3>1
  <2>10. PICK y \in T.lines : y.src = Prelude /\ x = [y EXCEPT !.bits[1] = "1"]
    BY <2>3, <2>9 DEF MonaTable
  <2>11. ASSUME NEW u \in m.states
         PROVE  \A z \in MonaLines(m, order, u) : z.src = u
    <3>1. LinesMean(m, order, A, u)
      BY LinesOfState
    <3> QED
      BY <3>1 DEF LinesMean
  <2>12. y = first
    BY <2>2, <2>10, <2>11 DEF IsAutomaton
  <2>13. x.bits = [AnyBits(order) EXCEPT ![1] = "1"]
    BY <2>5, <2>10, <2>12 DEF Line
  <2>14. x.bits[1] = "1"
    BY <2>1, <2>13 DEF AnyBits
  <2>15. \A l \in Letter : l \in Region[order[1]]
    BY <2>1, <2>9, <2>14 DEF GuardOf
  <2>16. PICK l \in Letter : Reading(A, l) = {}
    BY DEF Separated
  <2> QED
    BY <2>1, <2>15, <2>16 DEF Reading
<1> QED
  BY <1>1, <1>2

-----------------------------------------------------------------------------
(* The passes.                                                               *)

\* S is the least set of states with init that the edges do not leave.
Closed(g, init, S) == init \in S /\ \A e \in g.edges : e.src \in S => e.dst \in S

Reached(g, init, p) ==
  /\ p.states \subseteq g.states /\ Closed(g, init, p.states)
  /\ \A S \in SUBSET g.states : Closed(g, init, S) => p.states \subseteq S
  /\ p.edges = {e \in g.edges : e.src \in p.states /\ e.dst \in p.states}

\* An automaton under construction, with its initial state.
HasFields(g, fields) == fields \subseteq DOMAIN g

\* The purge keeps what the initial state reaches, with its edges.
LEMMA PurgeReaches ==
  ASSUME NEW g, HasFields(g, {"states", "edges"}), NEW init \in g.states, \A e \in g.edges : e.dst \in g.states
  PROVE  /\ Reached(g, init, PurgeUnreachable(g, init))
         /\ DOMAIN PurgeUnreachable(g, init) = DOMAIN g
         /\ "init" \in DOMAIN g => PurgeUnreachable(g, init).init = g.init
<1> DEFINE closed == {S \in SUBSET g.states : init \in S /\ \A e \in g.edges : e.src \in S => e.dst \in S}
           R == {s \in g.states : \A S \in closed : s \in S}
           p == [g EXCEPT !.states = R, !.edges = {e \in @ : e.src \in R /\ e.dst \in R}]
<1>1. PurgeUnreachable(g, init) = p
  BY DEF PurgeUnreachable, Keep
<1>2. \A S : S \in closed <=> S \in SUBSET g.states /\ Closed(g, init, S)
  BY DEF Closed
<1>3. R \in SUBSET g.states /\ \A S \in SUBSET g.states : Closed(g, init, S) => R \subseteq S
  BY <1>2
<1>4. Closed(g, init, R)
  <2>1. init \in R
    OBVIOUS
  <2>2. ASSUME NEW e \in g.edges, e.src \in R
        PROVE  e.dst \in R
    BY <2>2
  <2> QED
    BY <2>1, <2>2 DEF Closed
<1> HIDE DEF R
<1>5. p.states = R /\ p.edges = {e \in g.edges : e.src \in R /\ e.dst \in R} /\ DOMAIN p = DOMAIN g
      /\ ("init" \in DOMAIN g => p.init = g.init)
  BY DEF HasFields
<1> HIDE DEF p
<1> QED
  BY <1>1, <1>3, <1>4, <1>5 DEF Reached

\* The DFA d moves as m does, between states that it reaches.
ReadsAs(d, m, A) ==
  /\ d.init = m.init /\ d.init \in d.states /\ d.states \subseteq m.states
  /\ \A e \in d.edges : e.src \in d.states /\ e.dst \in d.states /\ (e.mark <=> e.src \in m.accepting)
  /\ \A u \in d.states, l \in Letter : \A t : Goes(d, u, l, t) <=> t = Target(m, u, Reading(A, l))
  /\ \A q \in d.states : q # d.init => \E e \in d.edges : e.dst = q

\* StripMonaPreludeState: without its leading state the table's automaton is MONA's,
\* as far as it is reachable.
LEMMA StrippedReads ==
  ASSUME NEW m, NEW A, IsAutomaton(m, SUBSET A), NEW g, TableDfa(g, m, A), HasFields(g, {"init", "states", "edges"})
  PROVE  ReadsAs(Stripped(g), m, A)
<1> DEFINE out == Out(g, g.init)
           s == (CHOOSE e \in out : TRUE).dst
           h == [g EXCEPT !.init = s]
           d == PurgeUnreachable(h, s)
<1>1. s = m.init
  <2>1. PICK e \in g.edges : e.src = Prelude
    BY DEF TableDfa
  <2>2. [dst |-> e.dst, guard |-> e.guard, mark |-> e.mark] \in out
    BY <2>1 DEF Out, TableDfa
  <2>3. (CHOOSE x \in out : TRUE) \in out
    BY <2>2
  <2>4. \A x \in out : x.dst = m.init
    BY DEF Out, TableDfa
  <2> QED
    BY <2>3, <2>4
<1>2. Stripped(g) = d
  BY DEF Stripped
<1> HIDE DEF s
<1>3. h.init = s /\ h.states = g.states /\ h.edges = g.edges /\ DOMAIN h = DOMAIN g
  BY DEF HasFields
<1>4. m.init \in m.states /\ Prelude \notin m.states /\ m.states \subseteq g.states
  BY DEF IsAutomaton, TableDfa
<1>5. \A e \in g.edges : e.src \in m.states \cup {Prelude} /\ e.dst \in m.states /\ (e.mark <=> e.src \in m.accepting)
  BY DEF TableDfa
<1> HIDE DEF h
<1>6. Reached(h, s, d) /\ DOMAIN d = DOMAIN h /\ ("init" \in DOMAIN h => d.init = h.init)
  <2>1. HasFields(h, {"states", "edges"}) /\ s \in h.states /\ \A e \in h.edges : e.dst \in h.states
    BY <1>1, <1>3, <1>4, <1>5 DEF HasFields
  <2> QED
    BY <2>1, PurgeReaches
<1>7. d.init = m.init /\ d.init \in d.states
  BY <1>1, <1>3, <1>6 DEF HasFields, Reached, Closed
<1>8. d.states \subseteq m.states
  <2>1. Closed(h, s, m.states)
    BY <1>1, <1>3, <1>4, <1>5 DEF Closed
  <2> QED
    BY <1>3, <1>4, <1>6, <2>1 DEF Reached
<1>9. d.edges = {e \in g.edges : e.src \in d.states} /\ \A e \in d.edges : e.dst \in d.states
  BY <1>3, <1>6 DEF Reached, Closed
<1> HIDE DEF d
<1>10. \A e \in d.edges : e.src \in d.states /\ e.dst \in d.states /\ (e.mark <=> e.src \in m.accepting)
  BY <1>5, <1>9
<1>11. \A u \in d.states, l \in Letter : \A t : Goes(d, u, l, t) <=> t = Target(m, u, Reading(A, l))
  <2>1. \A u \in m.states, l \in Letter : \A t : Goes(g, u, l, t) <=> t = Target(m, u, Reading(A, l))
    BY DEF TableDfa
  <2>2. \A u \in d.states : \A l, t : Goes(d, u, l, t) <=> Goes(g, u, l, t)
    BY <1>9 DEF Goes
  <2> QED
    BY <1>8, <2>1, <2>2
<1>12. ASSUME NEW q \in d.states, q # d.init
       PROVE  \E e \in d.edges : e.dst = q
  <2> SUFFICES ASSUME \A e \in d.edges : e.dst # q
               PROVE  FALSE
    OBVIOUS
  <2> DEFINE S == d.states \ {q}
  <2>1. Closed(h, s, S)
    BY <1>1, <1>3, <1>7, <1>9, <1>12 DEF Closed
  <2>2. S \in SUBSET h.states
    BY <1>6 DEF Reached
  <2>3. d.states \subseteq S
    BY <1>6, <2>1, <2>2 DEF Reached
  <2> QED
    BY <2>3
<1> QED
  BY <1>2, <1>7, <1>8, <1>10, <1>11, <1>12 DEF ReadsAs

\* The NFA g reads words from their end as the DFA d does: from its fresh state it
\* goes where d accepts the letter, elsewhere against d's moves, and the initial
\* state of d accepts.
ReadsBackwards(g, d, m, A) ==
  /\ HasFields(g, {"states", "edges"}) /\ FreshInit \in g.states /\ g.states \subseteq d.states \cup {FreshInit}
  /\ \A e \in g.edges : e.src \in g.states /\ e.dst \in g.states \ {FreshInit} /\ (e.mark <=> e.src = d.init)
  /\ \A s \in g.states \ {FreshInit}, l \in Letter : \A t :
       Goes(g, s, l, t) <=> t \in d.states /\ Target(m, t, Reading(A, l)) = s
  /\ \A l \in Letter : \A t :
       Goes(g, FreshInit, l, t) <=> t \in d.states /\ Target(m, t, Reading(A, l)) \in m.accepting
  /\ \A s \in g.states \ {FreshInit} : \E e \in g.edges : e.src = s

\* A state is accepting when an edge of it has the mark: Spot has no other place for it.
LEMMA EdgesShowAcceptance ==
  ASSUME NEW g, NEW s
  PROVE  StateIsAccepting(Out(g, s)) <=> \E e \in g.edges : e.src = s /\ e.mark
<1> DEFINE seen(e) == [dst |-> e.dst, guard |-> e.guard, mark |-> e.mark]
<1>1. \A e : seen(e).mark <=> e.mark
  BY Zenon
<1>2. Out(g, s) = {seen(e) : e \in {x \in g.edges : x.src = s}}
  BY DEF Out
<1> HIDE DEF seen
<1>3. ASSUME NEW o \in Out(g, s), o.mark
      PROVE  \E e \in g.edges : e.src = s /\ e.mark
  <2>1. PICK e \in {x \in g.edges : x.src = s} : o = seen(e)
    BY <1>2
  <2>2. seen(e).mark
    BY <1>3, <2>1, Zenon
  <2> QED
    BY <1>1, <2>1, <2>2, Zenon
<1>4. ASSUME NEW e \in g.edges, e.src = s, e.mark
      PROVE  \E o \in Out(g, s) : o.mark
  <2>1. seen(e) \in Out(g, s)
    BY <1>2, <1>4
  <2>2. seen(e).mark
    BY <1>1, <1>4, Zenon
  <2> QED
    BY <2>1, <2>2, Zenon
<1> QED
  BY <1>3, <1>4, Zenon DEF StateIsAccepting

\* In the stripped DFA the states that Spot takes for accepting are MONA's.
LEMMA AcceptanceIsRead ==
  ASSUME NEW m, NEW A, Separated(A), NEW d, ReadsAs(d, m, A), NEW u \in d.states
  PROVE  StateIsAccepting(Out(d, u)) <=> u \in m.accepting
<1>1. StateIsAccepting(Out(d, u)) <=> \E e \in d.edges : e.src = u /\ e.mark
  BY EdgesShowAcceptance
<1>2. PICK l \in Letter : Reading(A, l) = {}
  BY DEF Separated
<1>3. Goes(d, u, l, Target(m, u, Reading(A, l)))
  BY DEF ReadsAs
<1>4. \E e \in d.edges : e.src = u
  BY <1>3 DEF Goes
<1> QED
  BY <1>1, <1>4 DEF ReadsAs

\* The loop of reverse_dfa_to_nfa, and ensure_acceptance_readable.
LEMMA ReversedReads ==
  ASSUME NEW m, NEW A, IsAutomaton(m, SUBSET A), FreshInit \notin m.states, Separated(A), NEW d, ReadsAs(d, m, A)
  PROVE  ReadsBackwards(EnsureInit(d, Reversed(d)), d, m, A)
<1> DEFINE g == Reversed(d)
           h == EnsureInit(d, g)
           turned == {Turned(e, e.dst, e.dst = d.init) : e \in d.edges}
           loop == [src |-> d.init, dst |-> d.init, guard |-> {}, mark |-> TRUE]
           old == {e \in g.edges : e.src # d.init}
           new == {EdgeOf(d.init, e) : e \in Readable(d.init, TRUE, Out(g, d.init))}
<1>1. d.init \in d.states /\ d.states \subseteq m.states /\ FreshInit \notin d.states /\ d.init # FreshInit
  BY DEF ReadsAs
<1>2. \A e \in d.edges : e.src \in d.states /\ e.dst \in d.states
  BY DEF ReadsAs
<1>3. g.states = d.states \cup {FreshInit} /\ g.edges = turned \cup FreshEdges(d) /\ DOMAIN g = {"states", "edges"}
  BY DEF Reversed
<1>4. h.states = g.states /\ h.edges = old \cup new /\ DOMAIN h = {"states", "edges"}
  <2> HIDE DEF g, new
  <2>1. h = [g EXCEPT !.edges = old \cup new]
    BY DEF EnsureInit, new
  <2> QED
    BY <1>3, <2>1
<1> HIDE DEF g, h
<1>5. ASSUME NEW e \in turned
      PROVE  \E x \in d.edges : e.src = x.dst /\ e.dst = x.src /\ e.guard = x.guard /\ (e.mark <=> x.dst = d.init)
  <2>1. PICK x \in d.edges : e = Turned(x, x.dst, x.dst = d.init)
    OBVIOUS
  <2>2. e.src = x.dst /\ e.dst = x.src /\ e.guard = x.guard /\ (e.mark <=> x.dst = d.init)
    BY <2>1 DEF Turned
  <2> QED
    BY <2>2
<1>6. ASSUME NEW e \in FreshEdges(d)
      PROVE  \E x \in d.edges : /\ x.dst \in m.accepting
                                /\ e.src = FreshInit /\ e.dst = x.src /\ e.guard = x.guard /\ ~e.mark
  <2>1. PICK x \in d.edges : StateIsAccepting(Out(d, x.dst)) /\ e = Turned(x, FreshInit, FALSE)
    BY DEF FreshEdges
  <2> QED
    BY <1>2, <2>1, AcceptanceIsRead DEF Turned
<1>7. ASSUME NEW x \in d.edges
      PROVE  \E e \in turned : e.src = x.dst /\ e.dst = x.src /\ e.guard = x.guard
  <2> DEFINE e == Turned(x, x.dst, x.dst = d.init)
  <2>1. e \in turned
    OBVIOUS
  <2>2. e.src = x.dst /\ e.dst = x.src /\ e.guard = x.guard
    BY DEF Turned
  <2> QED
    BY <2>1, <2>2
<1>8. ASSUME NEW x \in d.edges, x.dst \in m.accepting
      PROVE  \E e \in FreshEdges(d) : e.src = FreshInit /\ e.dst = x.src /\ e.guard = x.guard
  <2>1. Turned(x, FreshInit, FALSE) \in FreshEdges(d)
    BY <1>2, <1>8, AcceptanceIsRead DEF FreshEdges
  <2> QED
    BY <2>1 DEF Turned
<1> HIDE DEF turned
<1>9. \A e \in g.edges : e.src \in g.states /\ e.dst \in d.states /\ (e.mark <=> e.src = d.init)
  BY <1>1, <1>2, <1>3, <1>5, <1>6
<1>10. ASSUME NEW e \in new
       PROVE  \/ e = loop /\ Out(g, d.init) = {}
              \/ \E x \in g.edges : x.src = d.init /\ e.src = d.init /\ e.dst = x.dst /\ e.guard = x.guard /\ (e.mark <=> x.mark)
  <2>1. CASE Out(g, d.init) = {}
    BY <2>1 DEF Readable, EdgeOf
  <2>2. CASE Out(g, d.init) # {}
    <3>1. PICK o \in Out(g, d.init) : e = EdgeOf(d.init, o)
      BY <2>2 DEF Readable
    <3>2. PICK x \in g.edges : x.src = d.init /\ o = [dst |-> x.dst, guard |-> x.guard, mark |-> x.mark]
      BY <3>1 DEF Out
    <3> QED
      BY <3>1, <3>2 DEF EdgeOf
  <2> QED
    BY <2>1, <2>2
<1>11. ASSUME NEW x \in g.edges, x.src = d.init
       PROVE  \E e \in new : e.src = d.init /\ e.dst = x.dst /\ e.guard = x.guard
  <2> DEFINE o == [dst |-> x.dst, guard |-> x.guard, mark |-> x.mark]
  <2>1. o \in Out(g, d.init)
    BY <1>11 DEF Out
  <2>2. EdgeOf(d.init, o) \in new
    BY <2>1 DEF Readable
  <2> QED
    BY <2>2 DEF EdgeOf
<1>12. \E e \in new : e.src = d.init
  <2>1. CASE \E x \in g.edges : x.src = d.init
    BY <1>11, <2>1
  <2>2. CASE ~\E x \in g.edges : x.src = d.init
    <3>1. Out(g, d.init) = {}
      BY <2>2 DEF Out
    <3>2. EdgeOf(d.init, [dst |-> d.init, guard |-> {}, mark |-> TRUE]) \in new
      BY <3>1 DEF Readable
    <3> QED
      BY <3>2 DEF EdgeOf
  <2> QED
    BY <2>1, <2>2
<1>13. loop.src = d.init /\ loop.dst = d.init /\ loop.guard = {} /\ loop.mark
  OBVIOUS
<1> HIDE DEF new, loop
<1>14. \A e \in h.edges : e.src \in h.states /\ e.dst \in d.states /\ (e.mark <=> e.src = d.init)
  BY <1>1, <1>3, <1>4, <1>9, <1>10, <1>13
<1>15. ASSUME NEW s, NEW l, NEW t
       PROVE  Goes(h, s, l, t) <=> Goes(g, s, l, t)
  <2>1. ASSUME NEW e \in h.edges, e.src = s, e.dst = t, l \in e.guard
        PROVE  Goes(g, s, l, t)
    BY <1>4, <1>10, <1>13, <2>1 DEF Goes
  <2>2. ASSUME NEW e \in g.edges, e.src = s, e.dst = t, l \in e.guard
        PROVE  Goes(h, s, l, t)
    BY <1>4, <1>11, <2>2 DEF Goes
  <2> QED
    BY <2>1, <2>2 DEF Goes
<1>16. ASSUME NEW s \in d.states, NEW l \in Letter, NEW t
       PROVE  Goes(g, s, l, t) <=> t \in d.states /\ Target(m, t, Reading(A, l)) = s
  <2>1. Goes(g, s, l, t) <=> Goes(d, t, l, s)
    BY <1>1, <1>3, <1>5, <1>6, <1>7 DEF Goes
  <2>2. Goes(d, t, l, s) => t \in d.states
    BY <1>2 DEF Goes
  <2>3. t \in d.states => (Goes(d, t, l, s) <=> s = Target(m, t, Reading(A, l)))
    BY DEF ReadsAs
  <2> QED
    BY <2>1, <2>2, <2>3
<1>17. ASSUME NEW l \in Letter, NEW t
       PROVE  Goes(g, FreshInit, l, t) <=> t \in d.states /\ Target(m, t, Reading(A, l)) \in m.accepting
  <2>1. Goes(g, FreshInit, l, t) <=> \E q \in m.accepting : Goes(d, t, l, q)
    BY <1>1, <1>2, <1>3, <1>5, <1>6, <1>8 DEF Goes
  <2>2. \A q : Goes(d, t, l, q) => t \in d.states
    BY <1>2 DEF Goes
  <2>3. t \in d.states => \A q : Goes(d, t, l, q) <=> q = Target(m, t, Reading(A, l))
    BY DEF ReadsAs
  <2> QED
    BY <2>1, <2>2, <2>3
<1>18. ASSUME NEW s \in d.states
       PROVE  \E e \in h.edges : e.src = s
  <2>1. CASE s = d.init
    BY <1>4, <1>12, <2>1
  <2>2. CASE s # d.init
    <3>1. PICK x \in d.edges : x.dst = s
      BY <2>2 DEF ReadsAs
    <3>2. PICK e \in turned : e.src = s
      BY <1>7, <3>1
    <3> QED
      BY <1>3, <1>4, <2>2, <3>2
  <2> QED
    BY <2>1, <2>2
<1>19. HasFields(h, {"states", "edges"}) /\ FreshInit \in h.states /\ h.states = d.states \cup {FreshInit}
       /\ h.states \ {FreshInit} = d.states
  BY <1>1, <1>3, <1>4 DEF HasFields
<1>20. ReadsBackwards(h, d, m, A)
  <2>1. \A e \in h.edges : e.src \in h.states /\ e.dst \in h.states \ {FreshInit} /\ (e.mark <=> e.src = d.init)
    BY <1>14, <1>19
  <2>2. \A s \in h.states \ {FreshInit}, l \in Letter : \A t :
          Goes(h, s, l, t) <=> t \in d.states /\ Target(m, t, Reading(A, l)) = s
    BY <1>15, <1>16, <1>19
  <2>3. \A l \in Letter : \A t :
          Goes(h, FreshInit, l, t) <=> t \in d.states /\ Target(m, t, Reading(A, l)) \in m.accepting
    BY <1>15, <1>17
  <2>4. \A s \in h.states \ {FreshInit} : \E e \in h.edges : e.src = s
    BY <1>18, <1>19
  <2> QED
    BY <1>19, <2>1, <2>2, <2>3, <2>4 DEF ReadsBackwards
<1> QED
  BY <1>20 DEF h, g

\* purge_unreachable_states: what the fresh state reaches moves as before.
LEMMA UnreachableIsIdle ==
  ASSUME NEW d, NEW m, NEW A, NEW g, ReadsBackwards(g, d, m, A)
  PROVE  ReadsBackwards(PurgeUnreachable(g, FreshInit), d, m, A)
<1> DEFINE p == PurgeUnreachable(g, FreshInit)
<1>1. FreshInit \in g.states /\ g.states \subseteq d.states \cup {FreshInit} /\ HasFields(g, {"states", "edges"})
  BY DEF ReadsBackwards
<1>2. \A e \in g.edges : e.src \in g.states /\ e.dst \in g.states \ {FreshInit} /\ (e.mark <=> e.src = d.init)
  BY DEF ReadsBackwards
<1>3. Reached(g, FreshInit, p) /\ DOMAIN p = DOMAIN g
  BY <1>1, <1>2, PurgeReaches
<1> HIDE DEF p
<1>4. HasFields(p, {"states", "edges"}) /\ FreshInit \in p.states /\ p.states \subseteq g.states
  BY <1>1, <1>3 DEF HasFields, Reached, Closed
<1>5. p.edges = {e \in g.edges : e.src \in p.states} /\ \A e \in p.edges : e.dst \in p.states
  BY <1>3 DEF Reached, Closed
<1>6. \A s \in p.states : \A l, t : Goes(p, s, l, t) <=> Goes(g, s, l, t)
  BY <1>5 DEF Goes
<1>7. \A e \in p.edges : e.src \in p.states /\ e.dst \in p.states \ {FreshInit} /\ (e.mark <=> e.src = d.init)
  BY <1>2, <1>5
<1>8. \A s \in p.states \ {FreshInit}, l \in Letter : \A t :
        Goes(p, s, l, t) <=> t \in d.states /\ Target(m, t, Reading(A, l)) = s
  <2>1. \A s \in g.states \ {FreshInit}, l \in Letter : \A t :
          Goes(g, s, l, t) <=> t \in d.states /\ Target(m, t, Reading(A, l)) = s
    BY DEF ReadsBackwards
  <2> QED
    BY <1>4, <1>6, <2>1
<1>9. \A l \in Letter : \A t :
        Goes(p, FreshInit, l, t) <=> t \in d.states /\ Target(m, t, Reading(A, l)) \in m.accepting
  <2>1. \A l \in Letter : \A t :
          Goes(g, FreshInit, l, t) <=> t \in d.states /\ Target(m, t, Reading(A, l)) \in m.accepting
    BY DEF ReadsBackwards
  <2> QED
    BY <1>4, <1>6, <2>1
<1>10. \A s \in p.states \ {FreshInit} : \E e \in p.edges : e.src = s
  <2>1. \A s \in g.states \ {FreshInit} : \E e \in g.edges : e.src = s
    BY DEF ReadsBackwards
  <2> QED
    BY <1>4, <1>5, <2>1
<1>11. p.states \subseteq d.states \cup {FreshInit}
  BY <1>1, <1>4
<1>12. ReadsBackwards(p, d, m, A)
  BY <1>4, <1>7, <1>8, <1>9, <1>10, <1>11 DEF ReadsBackwards
<1> QED
  BY <1>12 DEF p

\* purge_dead_states finds no dead state: every state has a predecessor in the DFA,
\* or is its initial state, which has an edge too.
LEMMA NothingIsDead ==
  ASSUME NEW d, NEW m, NEW A, NEW g, ReadsBackwards(g, d, m, A)
  PROVE  ReadsBackwards(PurgeDead(g), d, m, A)
<1> DEFINE alive == {S \in SUBSET g.states : \A s \in S : \E e \in g.edges : e.src = s /\ e.dst \in S}
           K == (UNION alive) \cup {FreshInit}
           live == g.states \ {FreshInit}
           p == [g EXCEPT !.states = K, !.edges = {e \in @ : e.src \in K /\ e.dst \in K}]
<1>1. /\ FreshInit \in g.states /\ HasFields(g, {"states", "edges"})
      /\ \A e \in g.edges : e.src \in g.states /\ e.dst \in live
      /\ \A s \in live : \E e \in g.edges : e.src = s
  BY DEF ReadsBackwards
<1>2. live \in alive
  BY <1>1
<1>3. K = g.states
  <2>1. live \subseteq UNION alive
    BY <1>2
  <2>2. UNION alive \subseteq g.states
    OBVIOUS
  <2> HIDE DEF alive
  <2> QED
    BY <1>1, <2>1, <2>2
<1>4. {e \in g.edges : e.src \in K /\ e.dst \in K} = g.edges
  BY <1>1, <1>3
<1> HIDE DEF K
<1>5. p.states = g.states /\ p.edges = g.edges /\ DOMAIN p = DOMAIN g
  BY <1>1, <1>3, <1>4 DEF HasFields
<1>6. PurgeDead(g) = p
  BY DEF PurgeDead, Keep, K
<1> HIDE DEF p
<1>7. \A s, l, t : Goes(p, s, l, t) <=> Goes(g, s, l, t)
  BY <1>5 DEF Goes
<1>8. ReadsBackwards(p, d, m, A)
  <2>1. HasFields(p, {"states", "edges"}) /\ FreshInit \in p.states /\ p.states \subseteq d.states \cup {FreshInit}
    BY <1>5 DEF ReadsBackwards, HasFields
  <2>2. \A e \in p.edges : e.src \in p.states /\ e.dst \in p.states \ {FreshInit} /\ (e.mark <=> e.src = d.init)
    BY <1>5 DEF ReadsBackwards
  <2>3. \A s \in p.states \ {FreshInit}, l \in Letter : \A t :
          Goes(p, s, l, t) <=> t \in d.states /\ Target(m, t, Reading(A, l)) = s
    BY <1>5, <1>7 DEF ReadsBackwards
  <2>4. \A l \in Letter : \A t :
          Goes(p, FreshInit, l, t) <=> t \in d.states /\ Target(m, t, Reading(A, l)) \in m.accepting
    BY <1>7 DEF ReadsBackwards
  <2>5. \A s \in p.states \ {FreshInit} : \E e \in p.edges : e.src = s
    BY <1>5 DEF ReadsBackwards
  <2> QED
    BY <2>1, <2>2, <2>3, <2>4, <2>5 DEF ReadsBackwards
<1> QED
  BY <1>6, <1>8

\* The goal's NFA, when MONA prints its table.
NfaOfGoal(f) ==
  LET d == Stripped(Parsed(VarOrder(f), MonaTable(MonaAutomaton[f], VarOrder(f))))
  IN  PurgeDead(PurgeUnreachable(EnsureInit(d, Reversed(d)), FreshInit))

\* Together: the front end's NFA reads MONA's automaton of the goal backwards.
LEMMA NfaReadsBackwards ==
  ASSUME NEW f \in Goals, Encodable(f)
  PROVE  \E d : ReadsAs(d, MonaAutomaton[f], Support(f)) /\ ReadsBackwards(NfaOfGoal(f), d, MonaAutomaton[f], Support(f))
<1> DEFINE A == Support(f)
           m == MonaAutomaton[f]
           g == Parsed(VarOrder(f), MonaTable(m, VarOrder(f)))
           d == Stripped(g)
<1>1. IsAutomaton(m, SUBSET A) /\ FreshInit \notin m.states
  BY MonaCompiles
<1>2. Enumerates(VarOrder(f), A)
  BY GoalsAreNamed DEF Enumerates
<1>3. Separated(A)
  <2> SUFFICES ASSUME NEW v \in SUBSET A
               PROVE  \E l \in Letter : Reading(A, l) = v
    BY DEF Separated
  <2>1. PICK l \in Letter : \A name \in A : l \in Region[name] <=> name \in v
    BY GoalsAreNamed
  <2> QED
    BY <2>1 DEF Reading
<1>4. HasFields(g, {"init", "states", "edges"})
  BY DEF Parsed, HasFields
<1>5. TableDfa(g, m, A)
  <2> HIDE DEF A, m
  <2> QED
    BY <1>1, <1>2, TableIsDfa
<1>6. NfaOfGoal(f) = PurgeDead(PurgeUnreachable(EnsureInit(d, Reversed(d)), FreshInit))
  BY DEF NfaOfGoal
<1> HIDE DEF A, m, g
<1>7. ReadsAs(d, m, A)
  BY <1>1, <1>4, <1>5, StrippedReads
<1> HIDE DEF d
<1>8. ReadsBackwards(EnsureInit(d, Reversed(d)), d, m, A)
  BY <1>1, <1>3, <1>7, ReversedReads
<1>9. ReadsBackwards(PurgeUnreachable(EnsureInit(d, Reversed(d)), FreshInit), d, m, A)
  BY <1>8, UnreachableIsIdle
<1>10. ReadsBackwards(NfaOfGoal(f), d, m, A)
  BY <1>6, <1>9, NothingIsDead
<1> QED
  BY <1>7, <1>10 DEF A, m

-----------------------------------------------------------------------------
(* The words.                                                                *)

\* The states that the NFA may be in, and the state of MONA's automaton.
NfaRun(g, x, w) ==
  /\ w[0] = {FreshInit}
  /\ \A k \in 1 .. Len(x) : w[k] \subseteq g.states \ {FreshInit}
                            /\ \A t : t \in w[k] <=> \E s \in w[k - 1] : Goes(g, s, x[k], t)

MonaRun(m, v, w) ==
  /\ w[0] = m.init
  /\ \A k \in 1 .. Len(v) : w[k] = Target(m, w[k - 1], v[k])
  /\ \A k \in 0 .. Len(v) : w[k] \in m.states

\* The NFA's acceptance of a word is that of the sets of states it goes through.
LEMMA NfaRuns ==
  ASSUME NEW d, NEW m, NEW A, ReadsBackwards(built, d, m, A), NEW x, Len(x) \in Nat
  PROVE  \E w : NfaRun(built, x, w) /\ (FrontEnd!NfaAccepts(x) <=> \E s \in w[Len(x)] : \E e \in built.edges : e.src = s /\ e.mark)
<1> DEFINE n == Len(x)
           Q == built.states
           U == SUBSET Q
           next(w) == [k \in 0 .. n |-> IF k = 0 THEN {FrontEnd!FreshInit} ELSE FrontEnd!Reach(w[k - 1], x[k])]
           step == [k \in 1 .. n |-> [S \in U |-> FrontEnd!Reach(S, x[k])]]
           after == CHOOSE w : w = next(w)
<1>1. FreshInit \in Q /\ \A e \in built.edges : e.src \in Q /\ e.dst \in Q \ {FreshInit}
  BY DEF ReadsBackwards
<1>2. ASSUME NEW S, NEW l
      PROVE  /\ FrontEnd!Reach(S, l) \subseteq Q \ {FreshInit}
             /\ \A t : t \in FrontEnd!Reach(S, l) <=> \E s \in S : Goes(built, s, l, t)
  BY <1>1 DEF FrontEnd!Reach, Goes
<1>3. FrontEnd!FreshInit = FreshInit
  BY DEF FrontEnd!FreshInit, FreshInit
<1>4. \E w : w = next(w)
  <2>1. step \in [1 .. n -> [U -> U]] /\ {FreshInit} \in U /\ n \in Nat
    BY <1>1, <1>2
  <2> HIDE DEF step, U
  <2>2. PICK w : w \in Runs(U, {FreshInit}, step, n)
    BY <2>1, RunExists
  <2>3. w \in [0 .. n -> U] /\ w[0] = {FreshInit} /\ \A k \in 1 .. n : w[k] = step[k][w[k - 1]]
    BY <2>2 DEF Runs
  <2>4. ASSUME NEW k \in 1 .. n
        PROVE  w[k] = FrontEnd!Reach(w[k - 1], x[k])
    <3>1. w[k - 1] \in U
      BY <2>1, <2>3
    <3> QED
      BY <2>3, <3>1 DEF step
  <2>5. w = next(w)
    <3>1. \A k \in 0 .. n : w[k] = next(w)[k]
      BY <1>3, <2>1, <2>3, <2>4
    <3> QED
      BY <2>3, <3>1
  <2> QED
    BY <2>5
<1> HIDE DEF next
<1>5. after = next(after)
  BY <1>4
<1>6. FrontEnd!NfaAccepts(x) <=> \E s \in after[n] : FrontEnd!StateIsAccepting(FrontEnd!Out(built, s))
  BY DEF FrontEnd!NfaAccepts, next
<1> HIDE DEF after
<1>7. NfaRun(built, x, after)
  <2>1. n \in Nat
    OBVIOUS
  <2>2. after[0] = {FreshInit}
    BY <1>3, <1>5, <2>1 DEF next
  <2>3. ASSUME NEW k \in 1 .. n
        PROVE  after[k] = FrontEnd!Reach(after[k - 1], x[k])
    <3>1. next(after)[k] = FrontEnd!Reach(after[k - 1], x[k])
      BY <2>1 DEF next
    <3> QED
      BY <1>5, <3>1
  <2> QED
    BY <1>2, <2>2, <2>3 DEF NfaRun
<1>8. \A s : FrontEnd!StateIsAccepting(FrontEnd!Out(built, s)) <=> StateIsAccepting(Out(built, s))
  BY DEF FrontEnd!StateIsAccepting, FrontEnd!Out, StateIsAccepting, Out
<1>9. FrontEnd!NfaAccepts(x) <=> \E s \in after[n] : \E e \in built.edges : e.src = s /\ e.mark
  BY <1>6, <1>8, EdgesShowAcceptance, Zenon
<1> QED
  BY <1>7, <1>9

\* And MONA's is that of the states its automaton goes through.
LEMMA MonaRuns ==
  ASSUME NEW m, NEW vals, IsAutomaton(m, vals), NEW v \in Seq(vals)
  PROVE  \E w : MonaRun(m, v, w) /\ (Recognizes(m, v) <=> w[Len(v)] \in m.accepting)
<1> DEFINE n == Len(v)
           U == m.states
           next(w) == [k \in 0 .. n |-> IF k = 0 THEN m.init ELSE Target(m, w[k - 1], v[k])]
           step == [k \in 1 .. n |-> [u \in U |-> Target(m, u, v[k])]]
           at == CHOOSE w : w = next(w)
<1>1. n \in Nat /\ \A k \in 1 .. n : v[k] \in vals
  OBVIOUS
<1>2. m.init \in U
  BY DEF IsAutomaton
<1>3. \A u \in U, k \in 1 .. n : Target(m, u, v[k]) \in U
  BY <1>1, TargetIsMove
<1> HIDE DEF n
<1>4. PICK r \in [0 .. n -> U] : r[0] = m.init /\ \A k \in 1 .. n : r[k] = Target(m, r[k - 1], v[k])
  <2>1. step \in [1 .. n -> [U -> U]]
    BY <1>3
  <2> HIDE DEF step, U
  <2>2. PICK r : r \in Runs(U, m.init, step, n)
    BY <1>1, <1>2, <2>1, RunExists
  <2>3. r \in [0 .. n -> U] /\ r[0] = m.init /\ \A k \in 1 .. n : r[k] = step[k][r[k - 1]]
    BY <2>2 DEF Runs
  <2>4. ASSUME NEW k \in 1 .. n
        PROVE  r[k] = Target(m, r[k - 1], v[k])
    <3>1. r[k - 1] \in U
      BY <1>1, <2>3
    <3> QED
      BY <2>3, <3>1 DEF step
  <2> QED
    BY <2>3, <2>4
<1>5. r = next(r)
  <2>1. \A k \in 0 .. n : r[k] = next(r)[k]
    BY <1>1, <1>4
  <2> QED
    BY <1>4, <2>1
<1> HIDE DEF next
<1>6. at = next(at)
  BY <1>5
<1>7. Recognizes(m, v) <=> at[n] \in m.accepting
  BY DEF Recognizes, next, n
<1> HIDE DEF at
<1>8. at[0] = m.init /\ \A k \in 1 .. n : at[k] = Target(m, at[k - 1], v[k])
  <2>1. at[0] = m.init
    BY <1>1, <1>6 DEF next
  <2>2. ASSUME NEW k \in 1 .. n
        PROVE  at[k] = Target(m, at[k - 1], v[k])
    <3>1. next(at)[k] = Target(m, at[k - 1], v[k])
      BY <1>1 DEF next
    <3> QED
      BY <1>6, <3>1
  <2> QED
    BY <2>1, <2>2
<1>9. \A k \in 0 .. n : at[k] \in U
  <2> DEFINE S == {k \in Nat : k <= n => at[k] \in U}
  <2>1. 0 \in S
    BY <1>2, <1>8
  <2>2. ASSUME NEW k \in Nat, k \in S
        PROVE  k + 1 \in S
    <3> SUFFICES ASSUME k + 1 <= n PROVE at[k + 1] \in U
      OBVIOUS
    <3>1. k + 1 \in 1 .. n /\ (k + 1) - 1 = k /\ k <= n
      BY <1>1
    <3>2. at[k] \in U
      BY <2>2, <3>1
    <3> QED
      BY <1>3, <1>8, <3>1, <3>2
  <2>3. Nat \subseteq S
    <3> HIDE DEF S
    <3> QED
      BY <2>1, <2>2, SetInduction
  <2> QED
    BY <1>1, <2>3
<1> QED
  BY <1>7, <1>8, <1>9 DEF MonaRun, n

\* The word v is what the letters of x say of the propositions, from the end.
ReadFromEnd(A, x, v) ==
  /\ Len(x) \in Nat /\ Len(v) = Len(x)
  /\ \A k \in 1 .. Len(x) : x[k] \in Letter /\ v[k] = Reading(A, x[Len(x) + 1 - k])

\* The two runs meet: after k letters the NFA may be where MONA's automaton is when
\* k letters are left, if and only if that one accepts in the end.
LEMMA RunsMeet ==
  ASSUME NEW m, NEW A, IsAutomaton(m, SUBSET A), FreshInit \notin m.states, NEW d, ReadsAs(d, m, A),
         NEW g, ReadsBackwards(g, d, m, A), NEW x, NEW v, ReadFromEnd(A, x, v), Len(x) > 0,
         NEW a, NfaRun(g, x, a), NEW b, MonaRun(m, v, b)
  PROVE  d.init \in a[Len(x)] <=> b[Len(v)] \in m.accepting
<1> DEFINE n == Len(x)
<1>1. n \in Nat /\ n > 0 /\ n = Len(v)
  BY DEF ReadFromEnd
<1>2. \A k \in 1 .. n : x[k] \in Letter /\ v[k] = Reading(A, x[n + 1 - k])
  BY DEF ReadFromEnd
<1>3. b[0] = m.init /\ \A k \in 1 .. n : b[k] = Target(m, b[k - 1], v[k])
  BY <1>1 DEF MonaRun
<1>4. a[0] = {FreshInit} /\ \A k \in 1 .. n : a[k] \subseteq g.states \ {FreshInit}
                                              /\ \A t : t \in a[k] <=> \E s \in a[k - 1] : Goes(g, s, x[k], t)
  BY DEF NfaRun
<1> HIDE DEF n
<1>5. ASSUME NEW u \in d.states, NEW l \in Letter
      PROVE  Target(m, u, Reading(A, l)) \in d.states
  <2>1. Goes(d, u, l, Target(m, u, Reading(A, l)))
    BY DEF ReadsAs
  <2> QED
    BY <2>1 DEF Goes, ReadsAs
<1>6. \A k \in 0 .. n : b[k] \in d.states
  <2> DEFINE S == {k \in Nat : k <= n => b[k] \in d.states}
  <2>1. 0 \in S
    BY <1>3 DEF ReadsAs
  <2>2. ASSUME NEW k \in Nat, k \in S
        PROVE  k + 1 \in S
    <3> SUFFICES ASSUME k + 1 <= n PROVE b[k + 1] \in d.states
      OBVIOUS
    <3>1. k + 1 \in 1 .. n /\ (k + 1) - 1 = k /\ k <= n /\ n + 1 - (k + 1) \in 1 .. n
      BY <1>1
    <3>2. b[k] \in d.states /\ b[k + 1] = Target(m, b[k], v[k + 1])
      BY <1>3, <2>2, <3>1
    <3>3. v[k + 1] = Reading(A, x[n + 1 - (k + 1)]) /\ x[n + 1 - (k + 1)] \in Letter
      BY <1>2, <3>1
    <3> QED
      BY <1>5, <3>2, <3>3
  <2>3. Nat \subseteq S
    <3> HIDE DEF S
    <3> QED
      BY <2>1, <2>2, SetInduction
  <2> QED
    BY <1>1, <2>3
<1> DEFINE M == {k \in Nat : k + 1 <= n => (b[n - (k + 1)] \in a[k + 1] <=> b[n] \in m.accepting)}
<1>7. 0 \in M
  <2>1. 1 \in 1 .. n /\ 1 - 1 = 0 /\ n - 1 \in 0 .. n /\ n \in 1 .. n /\ n + 1 - n = 1 /\ 0 + 1 = 1
    BY <1>1
  <2>2. b[n - 1] \in d.states /\ x[1] \in Letter /\ v[n] = Reading(A, x[1]) /\ b[n] = Target(m, b[n - 1], v[n])
    BY <1>2, <1>3, <1>6, <2>1
  <2>3. b[n - 1] \in a[1] <=> Goes(g, FreshInit, x[1], b[n - 1])
    BY <1>4, <2>1
  <2>4. Goes(g, FreshInit, x[1], b[n - 1]) <=> b[n] \in m.accepting
    BY <2>2 DEF ReadsBackwards
  <2> QED
    BY <2>1, <2>3, <2>4
<1>8. ASSUME NEW k \in Nat, k \in M
      PROVE  k + 1 \in M
  <2> SUFFICES ASSUME k + 2 <= n
               PROVE  b[n - (k + 2)] \in a[k + 2] <=> b[n] \in m.accepting
    OBVIOUS
  <2> DEFINE t == b[n - (k + 2)]
             s == b[n - (k + 1)]
  <2>1. /\ k + 2 \in 1 .. n /\ k + 1 \in 1 .. n /\ (k + 2) - 1 = k + 1 /\ k + 1 <= n
        /\ n - (k + 2) \in 0 .. n /\ n - (k + 1) \in 1 .. n /\ n - (k + 1) - 1 = n - (k + 2)
        /\ n + 1 - (n - (k + 1)) = k + 2
    BY <1>1
  <2>2. s \in a[k + 1] <=> b[n] \in m.accepting
    BY <1>8, <2>1
  <2>3. t \in d.states /\ x[k + 2] \in Letter /\ v[n - (k + 1)] = Reading(A, x[k + 2])
    BY <1>2, <1>6, <2>1
  <2>4. s = Target(m, t, Reading(A, x[k + 2]))
    BY <1>3, <2>1, <2>3
  <2>5. t \in a[k + 2] <=> \E q \in a[k + 1] : Goes(g, q, x[k + 2], t)
    BY <1>4, <2>1
  <2>6. a[k + 1] \subseteq g.states \ {FreshInit}
    BY <1>4, <2>1
  <2> HIDE DEF t, s
  <2>7. \A q \in a[k + 1] : Goes(g, q, x[k + 2], t) <=> q = s
    BY <2>3, <2>4, <2>6 DEF ReadsBackwards
  <2> QED
    BY <2>2, <2>5, <2>7 DEF t, s
<1>9. Nat \subseteq M
  <2> HIDE DEF M
  <2> QED
    BY <1>7, <1>8, SetInduction
<1>10. n - 1 \in Nat /\ (n - 1) + 1 = n /\ n - n = 0 /\ n <= n
  BY <1>1
<1>11. n - 1 \in M
  <2> HIDE DEF M
  <2> QED
    BY <1>9, <1>10
<1>12. b[0] \in a[n] <=> b[n] \in m.accepting
  BY <1>10, <1>11
<1> QED
  BY <1>1, <1>3, <1>12 DEF n, ReadsAs

\* The front end's copies of the operators.
LEMMA FrontEndVocabulary ==
  /\ \A f : FrontEnd!Support(f) = Support(f) /\ FrontEnd!VarOrder(f) = VarOrder(f)
  /\ \A f : FrontEnd!Encodable(f) <=> Encodable(f)
  /\ \A w, f : FrontEnd!Satisfies(w, f) <=> Satisfies(w, f)
  /\ \A vals, n : FrontEnd!WordsOver(vals, n) = WordsOver(vals, n)
  /\ FrontEnd!Letter = Letter
BY DEF FrontEnd!Support, Support, FrontEnd!Subformulas, Subformulas, FrontEnd!VarOrder, VarOrder, FrontEnd!Encodable, Encodable,
   FrontEnd!Boolean, Boolean, FrontEnd!Temporal, Temporal, FrontEnd!Satisfies, Satisfies, FrontEnd!HoldsAt, HoldsAt,
   FrontEnd!Future, Future, FrontEnd!Combine, Combine, FrontEnd!Pos, Pos, FrontEnd!WordsOver, WordsOver, FrontEnd!Letter, Letter

\* The letter chosen for a valuation reads as that valuation.
LEMMA LetterOfMeans ==
  ASSUME arg \in Goals, NEW v \in SUBSET Support(arg)
  PROVE  FrontEnd!LetterOf(v) \in Letter /\ Reading(Support(arg), FrontEnd!LetterOf(v)) = v
<1> DEFINE l == CHOOSE z \in Letter : \A name \in Support(arg) : z \in Region[name] <=> name \in v
<1>1. \E z \in Letter : \A name \in Support(arg) : z \in Region[name] <=> name \in v
  BY GoalsAreNamed
<1>2. l \in Letter /\ \A name \in Support(arg) : l \in Region[name] <=> name \in v
  BY <1>1
<1>3. FrontEnd!LetterOf(v) = l
  <2>1. FrontEnd!Support(arg) = Support(arg) /\ FrontEnd!Letter = Letter
    BY FrontEndVocabulary
  <2> QED
    BY <2>1 DEF FrontEnd!LetterOf
<1> HIDE DEF l
<1> QED
  BY <1>2, <1>3 DEF Reading

\* The finished NFA accepts the words that satisfy the goal.
LEMMA FinishedNfa ==
  ASSUME arg \in Goals, Encodable(arg), built = NfaOfGoal(arg), NEW w \in WordsOver(SUBSET Support(arg), MaxWord)
  PROVE  FrontEnd!NfaAccepts([j \in DOMAIN w |-> FrontEnd!LetterOf(w[j])]) <=> Satisfies(w, arg)
<1> DEFINE A == Support(arg)
           m == MonaAutomaton[arg]
           x == [j \in DOMAIN w |-> FrontEnd!LetterOf(w[j])]
           v == Reverse(w)
<1>1. PICK d : ReadsAs(d, m, A) /\ ReadsBackwards(built, d, m, A)
  BY NfaReadsBackwards
<1>2. IsAutomaton(m, SUBSET A) /\ FreshInit \notin m.states
  BY MonaCompiles
<1>3. \A z \in WordsOver(SUBSET A, MaxWord) : Recognizes(m, z) <=> Encoded(arg, z)
  BY MonaCompiles
<1> HIDE DEF m
<1>4. PICK n \in 0 .. MaxWord : w \in [1 .. n -> SUBSET A]
  BY DEF WordsOver
<1>5. n \in Nat /\ w \in Seq(SUBSET A) /\ Len(w) = n /\ DOMAIN w = 1 .. n
  BY <1>4
<1>6. \A j \in 1 .. n : x[j] \in Letter /\ Reading(A, x[j]) = w[j]
  BY <1>4, <1>5, LetterOfMeans
<1>7. x \in [1 .. n -> Letter] /\ Len(x) = n
  <2>1. x \in [1 .. n -> Letter]
    BY <1>5, <1>6
  <2> HIDE DEF x
  <2> QED
    BY <1>5, <2>1
<1>8. v \in [1 .. n -> SUBSET A] /\ Len(v) = n /\ \A j \in 1 .. n : v[j] = w[n - j + 1]
  <2>1. v = [j \in 1 .. n |-> w[n - j + 1]]
    BY <1>5 DEF Reverse
  <2>2. \A j \in 1 .. n : n - j + 1 \in 1 .. n
    BY <1>5
  <2>3. v \in [1 .. n -> SUBSET A]
    BY <1>4, <2>1, <2>2
  <2> HIDE DEF v
  <2> QED
    BY <1>5, <2>1, <2>3
<1> HIDE DEF x, v
<1>9. PICK a : NfaRun(built, x, a) /\ (FrontEnd!NfaAccepts(x) <=> \E s \in a[Len(x)] : \E e \in built.edges : e.src = s /\ e.mark)
  BY <1>1, <1>5, <1>7, NfaRuns
<1>10. \A e \in built.edges : e.mark <=> e.src = d.init
  BY <1>1 DEF ReadsBackwards
<1>11. CASE n = 0
  <2>1. a[Len(x)] = {FreshInit} /\ d.init # FreshInit
    BY <1>1, <1>2, <1>7, <1>9, <1>11 DEF NfaRun, ReadsAs
  <2>2. ~FrontEnd!NfaAccepts(x)
    BY <1>9, <1>10, <2>1
  <2>3. w = <<>>
    BY <1>5, <1>11
  <2> QED
    BY <2>2, <2>3 DEF Satisfies, x
<1>12. CASE n > 0
  <2>1. FrontEnd!NfaAccepts(x) <=> d.init \in a[n]
    <3>1. \A s \in built.states \ {FreshInit} : \E e \in built.edges : e.src = s
      BY <1>1 DEF ReadsBackwards
    <3>2. a[n] \subseteq built.states \ {FreshInit}
      BY <1>5, <1>7, <1>9, <1>12 DEF NfaRun
    <3> QED
      BY <1>7, <1>9, <1>10, <3>1, <3>2
  <2>2. v \in Seq(SUBSET A)
    BY <1>5, <1>8
  <2>3. PICK b : MonaRun(m, v, b) /\ (Recognizes(m, v) <=> b[Len(v)] \in m.accepting)
    BY <1>2, <2>2, MonaRuns
  <2>4. ReadFromEnd(A, x, v)
    <3>1. ASSUME NEW k \in 1 .. n
          PROVE  v[k] = Reading(A, x[n + 1 - k])
      <4>1. n + 1 - k \in 1 .. n /\ n - k + 1 = n + 1 - k
        BY <1>5
      <4> QED
        BY <1>6, <1>8, <4>1
    <3> QED
      BY <1>5, <1>6, <1>7, <1>8, <3>1 DEF ReadFromEnd
  <2>5. d.init \in a[Len(x)] <=> b[Len(v)] \in m.accepting
    BY <1>1, <1>2, <1>7, <1>9, <1>12, <2>3, <2>4, RunsMeet
  <2>6. v \in WordsOver(SUBSET A, MaxWord)
    BY <1>4, <1>8 DEF WordsOver
  <2>7. Satisfies(w, arg) <=> Encoded(arg, v)
    <3>1. Backwards(w, v)
      <4>1. ASSUME NEW p \in 0 .. (n - 1)
            PROVE  w[p + 1] = v[(n - 1 - p) + 1]
        <5>1. (n - 1 - p) + 1 \in 1 .. n /\ n - ((n - 1 - p) + 1) + 1 = p + 1
          BY <1>5
        <5> QED
          BY <1>8, <5>1
      <4> QED
        BY <1>5, <1>8, <4>1 DEF Backwards
    <3>2. w # <<>> /\ Len(w) > 0 /\ arg \in Formulas
      BY <1>5, <1>12, GoalsAreNamed
    <3> QED
      BY <3>1, <3>2, MirrorIsEncoded
  <2> QED
    BY <1>3, <1>7, <1>8, <2>1, <2>3, <2>5, <2>6, <2>7 DEF x
<1> QED
  BY <1>5, <1>11, <1>12

-----------------------------------------------------------------------------
(* The steps of the front end.                                               *)

\* The front end's copies of the table, its parser and the passes.
LEMMA PassVocabulary ==
  /\ \A m, order : FrontEnd!MonaTable(m, order) = MonaTable(m, order)
  /\ \A order, t : FrontEnd!Parsed(order, t) = Parsed(order, t) /\ (FrontEnd!Accepts(order, t) <=> Accepts(order, t))
  /\ \A g : FrontEnd!Stripped(g) = Stripped(g) /\ (FrontEnd!HasPrelude(g) <=> HasPrelude(g))
  /\ \A d : FrontEnd!Reversed(d) = Reversed(d)
  /\ \A d, g : FrontEnd!EnsureInit(d, g) = EnsureInit(d, g)
  /\ \A g : FrontEnd!PurgeUnreachable(g, FrontEnd!FreshInit) = PurgeUnreachable(g, FreshInit)
  /\ \A g : FrontEnd!PurgeDead(g) = PurgeDead(g)
<1>1. \A m, order : FrontEnd!MonaTable(m, order) = MonaTable(m, order)
  BY DEF FrontEnd!MonaTable, MonaTable, FrontEnd!MonaLines, MonaLines, FrontEnd!Line, Line, FrontEnd!AnyBits, AnyBits,
     FrontEnd!BitsOf, BitsOf, FrontEnd!Prelude, Prelude, FrontEnd!Cardinality, Cardinality
<1>2. \A order, t : FrontEnd!Parsed(order, t) = Parsed(order, t) /\ (FrontEnd!Accepts(order, t) <=> Accepts(order, t))
  BY DEF FrontEnd!Parsed, Parsed, FrontEnd!GuardOf, GuardOf, FrontEnd!Accepts, Accepts, FrontEnd!Letter, Letter
<1>3. \A g : FrontEnd!Stripped(g) = Stripped(g) /\ (FrontEnd!HasPrelude(g) <=> HasPrelude(g))
  BY DEF FrontEnd!Stripped, Stripped, FrontEnd!HasPrelude, HasPrelude, FrontEnd!Out, Out, FrontEnd!Letter, Letter,
     FrontEnd!PurgeUnreachable, PurgeUnreachable, FrontEnd!Keep, Keep
<1>4. \A d : FrontEnd!Reversed(d) = Reversed(d)
  BY DEF FrontEnd!Reversed, Reversed, FrontEnd!Turned, Turned, FrontEnd!FreshEdges, FreshEdges, FrontEnd!Out, Out,
     FrontEnd!StateIsAccepting, StateIsAccepting, FrontEnd!FreshInit, FreshInit
<1>5. \A d, g : FrontEnd!EnsureInit(d, g) = EnsureInit(d, g)
  BY DEF FrontEnd!EnsureInit, EnsureInit, FrontEnd!EdgeOf, EdgeOf, FrontEnd!Readable, Readable, FrontEnd!Out, Out
<1>6. \A g : FrontEnd!PurgeUnreachable(g, FrontEnd!FreshInit) = PurgeUnreachable(g, FreshInit)
  BY DEF FrontEnd!PurgeUnreachable, PurgeUnreachable, FrontEnd!Keep, Keep, FrontEnd!FreshInit, FreshInit
<1>7. \A g : FrontEnd!PurgeDead(g) = PurgeDead(g)
  BY DEF FrontEnd!PurgeDead, PurgeDead, FrontEnd!Keep, Keep, FrontEnd!FreshInit, FreshInit
<1> QED
  BY <1>1, <1>2, <1>3, <1>4, <1>5, <1>6, <1>7

\* What past_ltlf_to_dfa returns for the goal.
DfaOfGoal(f) == Stripped(Parsed(VarOrder(f), MonaTable(MonaAutomaton[f], VarOrder(f))))

\* While it runs the front end has the goal's automaton, what MONA may print, or
\* what the passes so far make of the table; the files exist while MONA needs them.
FilesInv == files # {} => fPhase \in {"out", "err", "mona", "read", "killed"}

TextInv ==
  /\ fPhase \in {"read", "parse"} => printed \in FrontEnd!MonaOutputs(mona, VarOrder(arg))
  /\ fPhase = "parse" => printed # FrontEnd!NoTable
  /\ fPhase = "strip" => \E t \in FrontEnd!MonaOutputs(mona, VarOrder(arg)) :
                           t # FrontEnd!NoTable /\ Accepts(VarOrder(arg), t) /\ past = Parsed(VarOrder(arg), t)

PassInv ==
  /\ fPhase \in {"reverse", "ensure", "unreachable", "dead"} => past = DfaOfGoal(arg)
  /\ fPhase = "ensure" => built = Reversed(past)
  /\ fPhase = "unreachable" => built = EnsureInit(past, Reversed(past))
  /\ fPhase = "dead" => built = PurgeUnreachable(EnsureInit(past, Reversed(past)), FreshInit)
  /\ fPhase = "done" => built = NfaOfGoal(arg)

FrontInv ==
  /\ arg \in Goals
  /\ fPhase = "encode" => (Encodable(arg) => mona = MonaAutomaton[arg])
  /\ fPhase \in {"source", "out", "err", "mona", "read", "parse", "strip", "reverse", "ensure", "unreachable", "dead", "done"}
       => Encodable(arg) /\ mona = MonaAutomaton[arg]
  /\ TextInv /\ PassInv /\ FilesInv

CaseNext == RunFront \/ Return \/ RunNfa \/ RunMtnfa

\* The front end starts with the automaton of its goal, and no file.
LEMMA InitFront == CaseInit => FrontInv
<1> SUFFICES ASSUME FrontEnd!Init
             PROVE  FrontInv
  BY DEF CaseInit
<1>1. Encodable(arg) => mona = MonaAutomaton[arg]
  BY FrontEndVocabulary, PassVocabulary DEF FrontEnd!Init
<1>2. arg \in Goals /\ fPhase = "encode" /\ files = {}
  BY DEF FrontEnd!Init
<1> QED
  BY <1>1, <1>2 DEF FrontInv, TextInv, PassInv, FilesInv

\* Past the check of the leading state the table was MONA's own.
LEMMA StripGivesGoalDfa ==
  ASSUME arg \in Goals, Encodable(arg), mona = MonaAutomaton[arg], HasPrelude(past),
         NEW t \in FrontEnd!MonaOutputs(mona, VarOrder(arg)), t # FrontEnd!NoTable,
         Accepts(VarOrder(arg), t), past = Parsed(VarOrder(arg), t)
  PROVE  Stripped(past) = DfaOfGoal(arg)
<1> DEFINE A == Support(arg)
           m == MonaAutomaton[arg]
           order == VarOrder(arg)
<1>1. IsAutomaton(m, SUBSET A)
  BY MonaCompiles
<1>2. Enumerates(order, A)
  BY GoalsAreNamed DEF Enumerates
<1>3. Separated(A)
  <2> SUFFICES ASSUME NEW v \in SUBSET A
               PROVE  \E l \in Letter : Reading(A, l) = v
    BY DEF Separated
  <2>1. PICK l \in Letter : \A name \in A : l \in Region[name] <=> name \in v
    BY GoalsAreNamed
  <2> QED
    BY <2>1 DEF Reading
<1>4. t \in {MonaTable(m, order)} \cup (IF Len(order) < 2 THEN {} ELSE {MonaTable(m, Reverse(order))})
              \cup (IF order = <<>> THEN {} ELSE FrontEnd!Unlike(MonaTable(m, order)))
  <2>1. FrontEnd!Reverse(order) = Reverse(order)
    BY DEF FrontEnd!Reverse, Reverse
  <2>2. \A o : FrontEnd!MonaTable(m, o) = MonaTable(m, o)
    BY PassVocabulary
  <2> HIDE DEF order, m
  <2>3. t \in FrontEnd!MonaOutputs(m, order)
    BY DEF m, order
  <2> QED
    BY <2>1, <2>2, <2>3 DEF FrontEnd!MonaOutputs
<1>5. DfaOfGoal(arg) = Stripped(Parsed(order, MonaTable(m, order)))
  BY DEF DfaOfGoal
<1>6. Accepts(order, t) /\ HasPrelude(Parsed(order, t)) /\ past = Parsed(order, t)
  OBVIOUS
<1> HIDE DEF A, m, order
<1>7. t = MonaTable(m, order)
  BY <1>1, <1>2, <1>3, <1>4, <1>6, OnlyTheTable
<1> QED
  BY <1>5, <1>6, <1>7

\* A step of the methods, or none, leaves the front end as it is.
LEMMA FrontRests == FrontInv /\ UNCHANGED fVars => FrontInv'
BY DEF FrontInv, TextInv, PassInv, FilesInv, fVars

\* An exception takes the files with it.
LEMMA ThrowKeeps == FrontInv /\ FrontEnd!Throw => FrontInv'
BY DEF FrontInv, TextInv, PassInv, FilesInv, FrontEnd!Throw

\* Every step of the front end, of the return and of the methods keeps the invariant.
LEMMA NextFront == FrontInv /\ [CaseNext]_<<fVars, vars, mVars>> => FrontInv'
<1> SUFFICES ASSUME FrontInv, [CaseNext]_<<fVars, vars, mVars>>
             PROVE  FrontInv'
  OBVIOUS
<1>1. CASE FrontEnd!Encode
  <2>1. Encodable(arg)
    BY <1>1, FrontEndVocabulary DEF FrontEnd!Encode
  <2> QED
    BY <1>1, <2>1 DEF FrontEnd!Encode, FrontInv, TextInv, PassInv, FilesInv
<1>2. CASE FrontEnd!CreateSource
  BY <1>2 DEF FrontEnd!CreateSource, FrontEnd!CreateFile, FrontInv, TextInv, PassInv, FilesInv
<1>3. CASE FrontEnd!CreateOut
  BY <1>3 DEF FrontEnd!CreateOut, FrontEnd!CreateFile, FrontInv, TextInv, PassInv, FilesInv
<1>4. CASE FrontEnd!CreateErr
  BY <1>4 DEF FrontEnd!CreateErr, FrontEnd!CreateFile, FrontInv, TextInv, PassInv, FilesInv
<1>5. CASE FrontEnd!RunMona
  <2>1. FrontEnd!VarOrder(arg) = VarOrder(arg)
    BY FrontEndVocabulary
  <2>2. printed' \in FrontEnd!MonaOutputs(mona, VarOrder(arg))
    BY <1>5, <2>1 DEF FrontEnd!RunMona
  <2> QED
    BY <1>5, <2>2 DEF FrontEnd!RunMona, FrontInv, TextInv, PassInv, FilesInv
<1>6. CASE FrontEnd!ReadOutput
  BY <1>6 DEF FrontEnd!ReadOutput, FrontInv, TextInv, PassInv, FilesInv
<1>7. CASE FrontEnd!Parse
  <2>1. /\ Accepts(VarOrder(arg), printed) /\ past' = Parsed(VarOrder(arg), printed)
        /\ printed # FrontEnd!NoTable /\ printed \in FrontEnd!MonaOutputs(mona, VarOrder(arg))
    <3>1. /\ FrontEnd!Accepts(FrontEnd!VarOrder(arg), printed)
          /\ past' = FrontEnd!Parsed(FrontEnd!VarOrder(arg), printed) /\ fPhase = "parse"
      BY <1>7 DEF FrontEnd!Parse
    <3>2. FrontEnd!VarOrder(arg) = VarOrder(arg)
      BY FrontEndVocabulary
    <3>3. (FrontEnd!Accepts(VarOrder(arg), printed) <=> Accepts(VarOrder(arg), printed))
            /\ FrontEnd!Parsed(VarOrder(arg), printed) = Parsed(VarOrder(arg), printed)
      BY PassVocabulary
    <3> QED
      BY <3>1, <3>2, <3>3 DEF FrontInv, TextInv
  <2> QED
    BY <1>7, <2>1 DEF FrontEnd!Parse, FrontInv, TextInv, PassInv, FilesInv
<1>8. CASE FrontEnd!Strip
  <2>1. HasPrelude(past) /\ past' = Stripped(past)
    <3>1. (FrontEnd!HasPrelude(past) <=> HasPrelude(past)) /\ FrontEnd!Stripped(past) = Stripped(past)
      BY PassVocabulary
    <3> QED
      BY <1>8, <3>1 DEF FrontEnd!Strip
  <2>2. /\ arg \in Goals /\ Encodable(arg) /\ mona = MonaAutomaton[arg]
        /\ \E t \in FrontEnd!MonaOutputs(mona, VarOrder(arg)) :
             t # FrontEnd!NoTable /\ Accepts(VarOrder(arg), t) /\ past = Parsed(VarOrder(arg), t)
    BY <1>8 DEF FrontEnd!Strip, FrontInv, TextInv
  <2>3. past' = DfaOfGoal(arg)
    BY <2>1, <2>2, StripGivesGoalDfa
  <2> QED
    BY <1>8, <2>3 DEF FrontEnd!Strip, FrontInv, TextInv, PassInv, FilesInv
<1>9. CASE FrontEnd!TurnEdges
  <2>1. built' = Reversed(past)
    BY <1>9, PassVocabulary DEF FrontEnd!TurnEdges, FrontEnd!Pass
  <2> QED
    BY <1>9, <2>1 DEF FrontEnd!TurnEdges, FrontEnd!Pass, FrontInv, TextInv, PassInv, FilesInv
<1>10. CASE FrontEnd!Ensure
  <2>1. built' = EnsureInit(past, built)
    BY <1>10, PassVocabulary DEF FrontEnd!Ensure, FrontEnd!Pass
  <2> QED
    BY <1>10, <2>1 DEF FrontEnd!Ensure, FrontEnd!Pass, FrontInv, TextInv, PassInv, FilesInv
<1>11. CASE FrontEnd!DropUnreachable
  <2>1. built' = PurgeUnreachable(built, FreshInit)
    BY <1>11, PassVocabulary DEF FrontEnd!DropUnreachable, FrontEnd!Pass
  <2> QED
    BY <1>11, <2>1 DEF FrontEnd!DropUnreachable, FrontEnd!Pass, FrontInv, TextInv, PassInv, FilesInv
<1>12. CASE FrontEnd!DropDead
  <2>1. built' = PurgeDead(built)
    BY <1>12, PassVocabulary DEF FrontEnd!DropDead, FrontEnd!Pass
  <2>2. built' = NfaOfGoal(arg) /\ past = DfaOfGoal(arg)
    BY <1>12, <2>1 DEF FrontEnd!DropDead, FrontEnd!Pass, FrontInv, PassInv, NfaOfGoal, DfaOfGoal
  <2> QED
    BY <1>12, <2>2 DEF FrontEnd!DropDead, FrontEnd!Pass, FrontInv, TextInv, PassInv, FilesInv
<1>13. CASE FrontEnd!Kill
  BY <1>13 DEF FrontEnd!Kill, FrontInv, TextInv, PassInv, FilesInv
<1>14. CASE FrontEnd!Throw
  BY <1>14, ThrowKeeps
<1>15. CASE Return
  BY <1>15 DEF Return, FrontInv, TextInv, PassInv, FilesInv
<1>16. CASE UNCHANGED fVars
  BY <1>16, FrontRests
<1>17. RunFront => FrontEnd!Next
  BY DEF RunFront
<1>18. FrontEnd!Next => \/ FrontEnd!Encode \/ FrontEnd!CreateSource \/ FrontEnd!CreateOut \/ FrontEnd!CreateErr
                         \/ FrontEnd!RunMona \/ FrontEnd!ReadOutput \/ FrontEnd!Parse \/ FrontEnd!Strip
                         \/ FrontEnd!TurnEdges \/ FrontEnd!Ensure \/ FrontEnd!DropUnreachable \/ FrontEnd!DropDead
                         \/ FrontEnd!Kill \/ FrontEnd!Throw
  BY DEF FrontEnd!Next, FrontEnd!EncodeThrows, FrontEnd!CreateFails, FrontEnd!MonaFails, FrontEnd!ReadThrows,
     FrontEnd!ParseThrows, FrontEnd!StripThrows
<1>19. (RunNfa \/ RunMtnfa \/ UNCHANGED <<fVars, vars, mVars>>) => UNCHANGED fVars
  BY DEF RunNfa, RunMtnfa
<1> QED
  BY <1>1, <1>2, <1>3, <1>4, <1>5, <1>6, <1>7, <1>8, <1>9, <1>10, <1>11, <1>12, <1>13, <1>14, <1>15, <1>16, <1>17, <1>18,
     <1>19 DEF CaseNext

\* At every step the front end has the goal's automaton, or what its passes so far
\* make of the only table that MONA may print and the parser lets through.
THEOREM FrontEndKeeps == CaseSpec => []FrontInv
<1>1. CaseSpec => CaseInit /\ [][CaseNext]_<<fVars, vars, mVars>>
  BY DEF CaseSpec, CaseNext
<1> QED
  BY <1>1, InitFront, NextFront, PTL

\* The NFA of a finished front end accepts exactly the words that satisfy the goal.
THEOREM LanguageHolds == CaseSpec => []GoalLanguage
<1>1. FrontInv => GoalLanguage
  <2> SUFFICES ASSUME FrontInv, fPhase = "done", NEW w \in WordsOver(SUBSET Support(arg), MaxWord)
               PROVE  FrontEnd!NfaAccepts([j \in DOMAIN w |-> FrontEnd!LetterOf(w[j])]) <=> FrontEnd!Satisfies(w, arg)
    <3>1. FrontEnd!WordsOver(SUBSET FrontEnd!Support(arg), MaxWord) = WordsOver(SUBSET Support(arg), MaxWord)
      BY FrontEndVocabulary
    <3> QED
      BY <3>1 DEF GoalLanguage, FrontEnd!GoalLanguage
  <2>1. arg \in Goals /\ Encodable(arg) /\ built = NfaOfGoal(arg)
    BY DEF FrontInv, PassInv
  <2>2. FrontEnd!Satisfies(w, arg) <=> Satisfies(w, arg)
    BY FrontEndVocabulary
  <2> QED
    BY <2>1, <2>2, FinishedNfa
<1> QED
  BY <1>1, FrontEndKeeps, PTL

\* Whatever throws, the temporary files are removed; only a kill leaves them.
THEOREM FilesAreRemoved == CaseSpec => []OnlyKillsLeaveFiles
<1>1. FrontInv => OnlyKillsLeaveFiles
  BY DEF FrontInv, FilesInv, OnlyKillsLeaveFiles, FrontEnd!OnlyKillsLeaveFiles
<1> QED
  BY <1>1, FrontEndKeeps, PTL

\* A run of a method with its front end is a run of the methods: what holds of the
\* two forms of Method 1 above holds of it.
THEOREM CaseIsForms == CaseSpec => FormsSpec
<1>1. CaseInit => FormsInit
  BY DEF CaseInit
<1>2. [CaseNext]_<<fVars, vars, mVars>> => [StepNfa \/ StepMtnfa]_<<vars, mVars>>
  BY DEF CaseNext, RunFront, Return, RunNfa, RunMtnfa
<1>3. CaseSpec => CaseInit /\ [][CaseNext]_<<fVars, vars, mVars>>
  BY DEF CaseSpec, CaseNext
<1> QED
  BY <1>1, <1>2, <1>3, PTL DEF FormsSpec
===============================================================================
