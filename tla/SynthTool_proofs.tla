--------------------------- MODULE SynthTool_proofs ---------------------------
(***************************************************************************)
(* Proofs about ltlf-ek-synth, for every problem and every order of discovery: *)
(* what solve_dfa and solve_mtdfa compute, what the two products are, that     *)
(* DfaProduct and MtdfaProduct answer as the contract of a synthesis method    *)
(* says, that the verifier of a given controller decides it, and that what a    *)
(* method synthesizes passes the verifier.                                  *)
(***************************************************************************)
EXTENDS SynthTool, SynthesisProblem_proofs

-----------------------------------------------------------------------------
(* A controller's transducer is added to the problem's.                     *)

\* s has the members 1 to n and no others.
Numbered(s, n) == s = [t \in 1 .. n |-> s[t]]

\* r is p with tc as one more transducer.
Enlarged(p, tc, r, n) ==
  /\ DOMAIN r = DOMAIN p /\ r.phi = p.phi /\ r.formulas = p.formulas /\ r.progress = p.progress
  /\ n \in Nat /\ DOMAIN p.taus = 1 .. n
  /\ Len(r.taus) = n + 1 /\ DOMAIN r.taus = 1 .. n + 1 /\ Numbered(r.taus, n + 1)
  /\ \A t \in 1 .. n : r.taus[t] = p.taus[t]
  /\ r.taus[n + 1] = tc

LEMMA WithTauMeans ==
  ASSUME NEW p, WellFormed(p), NEW tc
  PROVE  Enlarged(p, tc, WithTau(p, tc), Len(p.taus))
<1> DEFINE r == WithTau(p, tc)
           n == Len(p.taus)
           T == {p.taus[t] : t \in DOMAIN p.taus}
           U == T \cup {tc}
<1>1. /\ DOMAIN r = DOMAIN p /\ r.taus = Append(p.taus, tc)
      /\ r.phi = p.phi /\ r.formulas = p.formulas /\ r.progress = p.progress
      /\ p.taus \in Seq(T)
  BY DEF WellFormed, WithTau
<1>2. n \in Nat /\ DOMAIN p.taus = 1 .. n /\ tc \in U /\ T \subseteq U
  BY <1>1, LenProperties
<1> HIDE DEF T, U
<1>3. p.taus \in Seq(U)
  BY <1>1, <1>2, SeqMonotonic
<1>4. /\ Append(p.taus, tc) \in Seq(U) /\ Len(Append(p.taus, tc)) = n + 1
      /\ DOMAIN Append(p.taus, tc) = 1 .. n + 1
      /\ \A t \in 1 .. n : Append(p.taus, tc)[t] = p.taus[t]
      /\ Append(p.taus, tc)[n + 1] = tc
  BY <1>2, <1>3, AppendProperties, LenProperties
<1>5. Numbered(Append(p.taus, tc), n + 1)
  BY <1>4, LenProperties DEF Numbered
<1> HIDE DEF r, n
<1>6. Enlarged(p, tc, r, n)
  BY <1>1, <1>2, <1>4, <1>5 DEF Enlarged
<1> QED
  BY <1>6 DEF r, n

\* A problem with one more transducer is a problem.
LEMMA AddTau ==
  ASSUME NEW p, WellFormed(p), NEW tc, IsTransducer(tc)
  PROVE  WellFormed(WithTau(p, tc))
<1> DEFINE r == WithTau(p, tc)
           n == Len(p.taus)
           V == {r.taus[t] : t \in DOMAIN r.taus}
<1>0. Enlarged(p, tc, r, n)
  BY WithTauMeans
<1> HIDE DEF r, n, V
<1>1. /\ DOMAIN r = DOMAIN p /\ r.phi = p.phi /\ r.formulas = p.formulas /\ r.progress = p.progress
      /\ n \in Nat /\ DOMAIN p.taus = 1 .. n
      /\ DOMAIN r.taus = 1 .. n + 1 /\ Numbered(r.taus, n + 1)
      /\ \A t \in 1 .. n : r.taus[t] = p.taus[t]
      /\ r.taus[n + 1] = tc
  BY <1>0 DEF Enlarged
<1>2. \A t \in DOMAIN p.taus : IsTransducer(p.taus[t])
  BY DEF WellFormed
<1>3. \A t \in DOMAIN r.taus : IsTransducer(r.taus[t])
  <2>1. \A t \in 1 .. n + 1 : t \in 1 .. n \/ t = n + 1
    BY <1>1
  <2> QED
    BY <1>1, <1>2, <2>1
<1>4. r.taus \in Seq(V)
  <2>1. r.taus \in [1 .. n + 1 -> V] /\ n + 1 \in Nat
    BY <1>1 DEF V, Numbered
  <2> QED
    BY <2>1, SeqDef
<1>5. WellFormed(r)
  BY <1>1, <1>3, <1>4 DEF WellFormed, V
<1> QED
  BY <1>5 DEF r

-----------------------------------------------------------------------------
(* The states of the explicit product.                                      *)

\* A state that a word of agreeing letters leads to.
ReachedStates(p) ==
  {s \in [goal : Cells(p.formulas), taus : Vectors(p)] :
     s.goal.kind = "next" => <<s.goal.psi, s.taus>> \in Reachable(p)}

LEMMA CellNext ==
  ASSUME NEW F, NEW c \in Cells(F)
  PROVE  /\ c.kind \in {"false", "true", "next"}
         /\ c.kind = "false" => c = FalseCell
         /\ c.kind = "true" <=> c = TrueCell
         /\ c.kind = "next" => c.psi \in F /\ c.last \in BOOLEAN
<1>1. CASE c \in {FalseCell, TrueCell}
  BY <1>1 DEF FalseCell, TrueCell
<1>2. CASE c \in {NextCell(psi, b) : psi \in F, b \in BOOLEAN}
  BY <1>2 DEF NextCell, TrueCell
<1> QED
  BY <1>1, <1>2 DEF Cells

LEMMA NextIsCell ==
  ASSUME NEW F, NEW psi \in F, NEW b \in BOOLEAN
  PROVE  NextCell(psi, b) \in Cells(F)
<1>1. NextCell(psi, b) \in {NextCell(chi, c) : chi \in F, c \in BOOLEAN}
  OBVIOUS
<1> QED
  BY <1>1 DEF Cells

LEMMA InitialReached ==
  ASSUME NEW p, WellFormed(p)
  PROVE  /\ InitialState(p) \in ReachedStates(p)
         /\ InitialState(p).goal.kind = "next" /\ ~Accepting(InitialState(p).goal)
         /\ <<InitialState(p).goal.psi, InitialState(p).taus>> = InitialPosition(p)
<1>1. InitialPosition(p) \in Reachable(p) /\ InitialVector(p) \in Vectors(p) /\ p.phi \in p.formulas
  BY InitialReachable, InitialVectorType DEF WellFormed
<1>2. GoalInit(p) \in Cells(p.formulas)
  <2>1. \A b \in BOOLEAN : NextCell(p.phi, b) \in Cells(p.formulas)
    BY <1>1, NextIsCell
  <2> QED
    BY <2>1 DEF GoalInit
<1>3. GoalInit(p).kind = "next" /\ GoalInit(p).psi = p.phi /\ GoalInit(p).last = FALSE
  BY DEF GoalInit, NextCell
<1>4. InitialState(p).goal = GoalInit(p) /\ InitialState(p).taus = InitialVector(p)
  BY DEF InitialState
<1>5. InitialState(p) \in [goal : Cells(p.formulas), taus : Vectors(p)]
  BY <1>1, <1>2 DEF InitialState
<1> QED
  BY <1>1, <1>3, <1>4, <1>5 DEF ReachedStates, InitialPosition, Accepting

\* Agreeing letters lead from reached states to reached states.
LEMMA SuccessorReached ==
  ASSUME NEW p, WellFormed(p), NEW s \in ReachedStates(p), NEW l \in Agreeing(p, s.taus)
  PROVE  Successor(p, s, l) \in ReachedStates(p)
<1> DEFINE g == GoalDelta(p, s.goal, l)
           q == Delta(p, s.taus, l)
<1>1. s.goal \in Cells(p.formulas) /\ s.taus \in Vectors(p) /\ l \in Letter
  BY DEF ReachedStates, Agreeing, Emitted
<1>2. q \in Vectors(p)
  BY <1>1, DeltaType DEF Agreeing
<1>3. CASE s.goal.kind = "next"
  <2>1. s.goal.psi \in p.formulas /\ <<s.goal.psi, s.taus>> \in Reachable(p)
    BY <1>1, <1>3, CellNext DEF ReachedStates
  <2>2. g = p.progress[s.goal.psi][l]
    BY <1>3 DEF GoalDelta
  <2>3. g \in Cells(p.formulas)
    BY <1>1, <2>1, <2>2 DEF WellFormed
  <2>4. g.kind = "next" => <<g.psi, q>> \in Reachable(p)
    <3> DEFINE x == <<s.goal.psi, s.taus>>
    <3>1. x[1] = s.goal.psi /\ x[2] = s.taus /\ x \in Reachable(p)
      BY <2>1
    <3> HIDE DEF x
    <3> QED
      BY <2>2, <3>1, ReachableClosed
  <2> QED
    BY <1>2, <2>3, <2>4 DEF Successor, ReachedStates
<1>4. CASE s.goal.kind # "next"
  BY <1>1, <1>2, <1>4 DEF Successor, ReachedStates, GoalDelta
<1> QED
  BY <1>3, <1>4

-----------------------------------------------------------------------------
(* What the materialized product says of a complete graph.                  *)

\* The node of s has an edge for each agreeing letter.
Finished(p, ns, s) == ns[s].guards = Guards(p, s) /\ DOMAIN Guards(p, s) \subseteq DOMAIN ns

\* Every node of a graph has its acceptance and an edge for each agreeing letter.
Complete(p, ns) ==
  /\ IsFiniteSet(DOMAIN ns) /\ DOMAIN ns \subseteq ReachedStates(p)
  /\ InitialState(p) \in DOMAIN ns
  /\ \A s \in DOMAIN ns : ns[s].acc = Accepting(s.goal) /\ Finished(p, ns, s)

LEMMA MaterializedMeans ==
  ASSUME NEW p, NEW ns, Complete(p, ns)
  PROVE  LET aut == Materialized(ns)
         IN  /\ DOMAIN aut = DOMAIN ns
             /\ Final(aut) = {s \in DOMAIN ns : Accepting(s.goal)}
             /\ \A s \in DOMAIN ns : \A W :
                  Draws(aut, s, W) <=>
                    \A i \in IFree : \E l \in Agreeing(p, s.taus) : l.i = i /\ Successor(p, s, l) \in W
<1> DEFINE aut == Materialized(ns)
           Es(s) == {[dst |-> d, guard |-> ns[s].guards[d], mark |-> ns[s].acc] : d \in DOMAIN ns[s].guards}
<1>1. DOMAIN aut = DOMAIN ns
  BY DEF Materialized
<1>2. ASSUME NEW s \in DOMAIN ns
      PROVE  aut[s] = Readable(s, ns[s].acc, Es(s))
  BY DEF Materialized
<1>3. ASSUME NEW s \in DOMAIN ns
      PROVE  StateIsAccepting(aut[s]) <=> Accepting(s.goal)
  <2>1. ns[s].acc = Accepting(s.goal)
    BY DEF Complete
  <2>2. CASE Es(s) = {}
    <3> HIDE DEF Es
    <3>1. CASE Accepting(s.goal)
      <4>1. aut[s] = {[dst |-> s, guard |-> {}, mark |-> TRUE]}
        BY <1>2, <2>1, <2>2, <3>1 DEF Readable
      <4> QED
        BY <3>1, <4>1 DEF StateIsAccepting
    <3>2. CASE ~Accepting(s.goal)
      <4>1. aut[s] = {}
        BY <1>2, <2>1, <2>2, <3>2 DEF Readable
      <4> QED
        BY <3>2, <4>1 DEF StateIsAccepting
    <3> QED
      BY <3>1, <3>2
  <2>3. CASE Es(s) # {}
    <3>1. aut[s] = Es(s)
      BY <1>2, <2>3 DEF Readable
    <3>2. \A e \in Es(s) : e.mark = ns[s].acc
      OBVIOUS
    <3> QED
      BY <2>1, <2>3, <3>1, <3>2 DEF StateIsAccepting
  <2> QED
    BY <2>2, <2>3
<1>4. ASSUME NEW s \in DOMAIN ns, NEW i, NEW W
      PROVE  (\E e \in ArenaEdges(aut, s) : e.i = i /\ e.dst \in W) <=>
               \E l \in Agreeing(p, s.taus) : l.i = i /\ Successor(p, s, l) \in W
  <2> DEFINE G == Guards(p, s)
  <2>1. ns[s].guards = G
    BY DEF Complete, Finished
  <2>2. /\ DOMAIN G = {Successor(p, s, l) : l \in Agreeing(p, s.taus)}
        /\ \A d \in DOMAIN G : G[d] = {l \in Agreeing(p, s.taus) : Successor(p, s, l) = d}
    BY DEF Guards, Enabled
  <2> HIDE DEF G
  <2>3. ASSUME NEW e \in ArenaEdges(aut, s), e.i = i, e.dst \in W
        PROVE  \E l \in Agreeing(p, s.taus) : l.i = i /\ Successor(p, s, l) \in W
    <3>1. PICK b \in aut[s] : e \in {[i |-> x[1], o |-> x[2], dst |-> b.dst] : x \in FreePart(b.guard)}
      BY DEF ArenaEdges
    <3>2. PICK x \in FreePart(b.guard) : e = [i |-> x[1], o |-> x[2], dst |-> b.dst]
      BY <3>1
    <3>3. PICK l \in b.guard : x = <<l.i, l.o>>
      BY DEF FreePart
    <3>4. e.i = l.i /\ e.dst = b.dst
      BY <3>2, <3>3
    <3>5. b \in Es(s)
      <4>1. CASE Es(s) = {} /\ ns[s].acc
        <5>1. b = [dst |-> s, guard |-> {}, mark |-> TRUE]
          BY <1>2, <4>1 DEF Readable
        <5> QED
          BY <5>1
      <4>2. CASE ~ (Es(s) = {} /\ ns[s].acc)
        BY <1>2, <4>2 DEF Readable
      <4> QED
        BY <4>1, <4>2
    <3>6. PICK d \in DOMAIN G : b = [dst |-> d, guard |-> G[d], mark |-> ns[s].acc]
      BY <2>1, <3>5
    <3>7. l \in G[d] /\ b.dst = d
      BY <3>6
    <3> QED
      BY <2>2, <2>3, <3>4, <3>7
  <2>4. ASSUME NEW l \in Agreeing(p, s.taus), l.i = i, Successor(p, s, l) \in W
        PROVE  \E e \in ArenaEdges(aut, s) : e.i = i /\ e.dst \in W
    <3> DEFINE d == Successor(p, s, l)
               b == [dst |-> d, guard |-> G[d], mark |-> ns[s].acc]
               e == [i |-> l.i, o |-> l.o, dst |-> d]
    <3>1. d \in DOMAIN G /\ l \in G[d]
      BY <2>2
    <3>2. b \in Es(s)
      BY <2>1, <3>1
    <3>3. b \in aut[s]
      BY <1>2, <3>2 DEF Readable
    <3>4. <<l.i, l.o>> \in FreePart(b.guard)
      BY <3>1 DEF FreePart
    <3>5. e \in {[i |-> x[1], o |-> x[2], dst |-> b.dst] : x \in FreePart(b.guard)}
      <4>1. e = [i |-> <<l.i, l.o>>[1], o |-> <<l.i, l.o>>[2], dst |-> b.dst]
        OBVIOUS
      <4> QED
        BY <3>4, <4>1
    <3>6. e \in ArenaEdges(aut, s)
      BY <3>3, <3>5 DEF ArenaEdges
    <3> QED
      BY <2>4, <3>6
  <2> QED
    BY <2>3, <2>4
<1>5. Final(aut) = {s \in DOMAIN ns : Accepting(s.goal)}
  BY <1>1, <1>3 DEF Final
<1>6. \A s \in DOMAIN ns : \A W :
        Draws(aut, s, W) <=>
          \A i \in IFree : \E l \in Agreeing(p, s.taus) : l.i = i /\ Successor(p, s, l) \in W
  BY <1>4 DEF Draws
<1> QED
  BY <1>1, <1>5, <1>6

-----------------------------------------------------------------------------
(* The game on the product is the game on the positions.                     *)

\* The play may stop on the leaf c.
MayStop(p, c) == c = TrueCell \/ \E psi \in p.formulas : c = NextCell(psi, TRUE)

\* One round of the arena from an open state, in terms of the goal's progression.
LEMMA RoundMeans ==
  ASSUME NEW p, WellFormed(p), NEW s \in ReachedStates(p), s.goal.kind = "next",
         NEW l \in Agreeing(p, s.taus)
  PROVE  /\ s.goal.psi \in p.formulas /\ l \in Letter
         /\ Successor(p, s, l).goal = p.progress[s.goal.psi][l]
         /\ Successor(p, s, l).taus = Delta(p, s.taus, l)
         /\ Accepting(p.progress[s.goal.psi][l]) <=> MayStop(p, p.progress[s.goal.psi][l])
<1> DEFINE c == p.progress[s.goal.psi][l]
<1>1. s.goal.psi \in p.formulas /\ l \in Letter
  BY CellNext DEF ReachedStates, Agreeing, Emitted
<1>2. Successor(p, s, l).goal = c /\ Successor(p, s, l).taus = Delta(p, s.taus, l)
  BY DEF Successor, GoalDelta
<1>3. c \in Cells(p.formulas)
  BY <1>1 DEF WellFormed
<1>4. (\E psi \in p.formulas : c = NextCell(psi, TRUE)) <=> c.kind = "next" /\ c.last = TRUE
  BY <1>1, StopMeans
<1> HIDE DEF c
<1>5. c.kind = "true" <=> c = TrueCell
  BY <1>3, CellNext
<1>6. c.kind = "next" => c.last \in BOOLEAN
  BY <1>3, CellNext
<1>7. Accepting(c) <=> MayStop(p, c)
  BY <1>4, <1>5, <1>6 DEF Accepting, MayStop
<1> QED
  BY <1>1, <1>2, <1>7 DEF c

\* The choices of a position, in terms of the product.
LEMMA PlayMeans ==
  ASSUME NEW p, WellFormed(p), NEW s \in ReachedStates(p), s.goal.kind = "next", NEW i \in IFree
  PROVE  /\ Stops(p, <<s.goal.psi, s.taus>>, i) <=>
              \E l \in Agreeing(p, s.taus) : l.i = i /\ Accepting(Successor(p, s, l).goal)
         /\ \A r : r \in Moves(p, <<s.goal.psi, s.taus>>, i) <=>
              \E l \in Agreeing(p, s.taus) :
                /\ l.i = i /\ Successor(p, s, l).goal.kind = "next"
                /\ r = <<Successor(p, s, l).goal.psi, Successor(p, s, l).taus>>
<1> DEFINE Pos(q) == <<q.goal.psi, q.taus>>
           x == Pos(s)
<1>1. x[1] = s.goal.psi /\ x[2] = s.taus
  OBVIOUS
<1> HIDE DEF x
<1>2. \A l \in Agreeing(p, s.taus) :
        /\ Successor(p, s, l).goal = p.progress[x[1]][l]
        /\ Successor(p, s, l).taus = Delta(p, x[2], l)
        /\ Accepting(Successor(p, s, l).goal) <=> MayStop(p, p.progress[x[1]][l])
  <2> SUFFICES ASSUME NEW l \in Agreeing(p, s.taus)
               PROVE  /\ Successor(p, s, l).goal = p.progress[x[1]][l]
                      /\ Successor(p, s, l).taus = Delta(p, x[2], l)
                      /\ Accepting(Successor(p, s, l).goal) <=> MayStop(p, p.progress[x[1]][l])
    OBVIOUS
  <2>1. /\ Successor(p, s, l).goal = p.progress[s.goal.psi][l]
        /\ Successor(p, s, l).taus = Delta(p, s.taus, l)
    BY RoundMeans
  <2>2. Accepting(p.progress[s.goal.psi][l]) <=> MayStop(p, p.progress[s.goal.psi][l])
    BY RoundMeans
  <2> QED
    BY <1>1, <2>1, <2>2
<1>3. Stops(p, x, i) <=> \E l \in Agreeing(p, s.taus) : l.i = i /\ Accepting(Successor(p, s, l).goal)
  BY <1>1, <1>2 DEF Stops, MayStop
<1>4. ASSUME NEW r
      PROVE  r \in Moves(p, x, i) <=>
               \E l \in Agreeing(p, s.taus) : /\ l.i = i /\ Successor(p, s, l).goal.kind = "next"
                                              /\ r = Pos(Successor(p, s, l))
  BY <1>1, <1>2 DEF Moves
<1> QED
  BY <1>3, <1>4 DEF x

\* The arena gives the initial state to the system exactly when the system wins the
\* reference game.
LEMMA ArenaIsGame ==
  ASSUME NEW p, WellFormed(p), NEW ns, Complete(p, ns)
  PROVE  WinsArena(Materialized(ns), InitialState(p)) <=> SystemWins(p)
<1> DEFINE aut  == Materialized(ns)
           D    == DOMAIN ns
           A    == Attractor(aut, Cardinality(DOMAIN aut))
           Pos(s) == <<s.goal.psi, s.taus>>
<1>1. /\ DOMAIN aut = D /\ IsFiniteSet(D) /\ InitialState(p) \in D
      /\ Final(aut) = {s \in D : Accepting(s.goal)}
      /\ \A s \in D : \A W :
           Draws(aut, s, W) <=>
             \A i \in IFree : \E l \in Agreeing(p, s.taus) : l.i = i /\ Successor(p, s, l) \in W
  BY MaterializedMeans DEF Complete
<1>2. \A s \in D : s \in ReachedStates(p) /\ \A l \in Agreeing(p, s.taus) : Successor(p, s, l) \in D
  BY DEF Complete, Finished, Guards, Enabled
<1>3. /\ A \subseteq D /\ Absorbs(aut, A)
      /\ \A V \in SUBSET D : Absorbs(aut, V) => A \subseteq V
  BY <1>1, AttractorIsLeast
<1>4. WinsArena(aut, InitialState(p)) <=> InitialState(p) \in A
  BY DEF WinsArena
<1> HIDE DEF aut, A, D
<1>5. ASSUME NEW s \in D, s.goal.kind = "next", NEW i \in IFree
      PROVE  /\ Stops(p, Pos(s), i) <=> \E l \in Agreeing(p, s.taus) : l.i = i /\ Accepting(Successor(p, s, l).goal)
             /\ \A r : r \in Moves(p, Pos(s), i) <=>
                  \E l \in Agreeing(p, s.taus) : /\ l.i = i /\ Successor(p, s, l).goal.kind = "next"
                                                 /\ r = Pos(Successor(p, s, l))
  BY <1>2, <1>5, PlayMeans
<1>6. ASSUME InitialState(p) \in A PROVE SystemWins(p)
  <2> SUFFICES ASSUME NEW W \in SUBSET Positions(p), \A x \in Positions(p) : Forces(p, x, W) => x \in W
               PROVE  InitialPosition(p) \in W
    BY SystemWinsMeans
  <2> DEFINE V == {s \in D : Accepting(s.goal) \/ IFree = {} \/ (s.goal.kind = "next" /\ Pos(s) \in W)}
  <2>1. Final(aut) \subseteq V
    BY <1>1
  <2>2. ASSUME NEW s \in D \ Final(aut), Draws(aut, s, V), IFree # {}
        PROVE  s \in V
    <3>1. s \in D /\ s \in ReachedStates(p) /\ s.goal \in Cells(p.formulas) /\ ~Accepting(s.goal)
      BY <1>1, <1>2 DEF ReachedStates
    <3>2. s.goal.kind = "next"
      <4> SUFFICES ASSUME s.goal.kind # "next" PROVE FALSE
        OBVIOUS
      <4>1. PICK i \in IFree : TRUE
        BY <2>2
      <4>2. PICK l \in Agreeing(p, s.taus) : Successor(p, s, l) \in V
        BY <1>1, <2>2, <3>1, <4>1
      <4>3. Successor(p, s, l).goal = s.goal
        BY DEF Successor, GoalDelta
      <4> QED
        BY <2>2, <3>1, <4>2, <4>3
    <3>3. Pos(s) \in Positions(p)
      BY <3>1, <3>2 DEF ReachedStates, Reachable
    <3>4. ASSUME NEW i \in IFree
          PROVE  Stops(p, Pos(s), i) \/ \E r \in W : r \in Moves(p, Pos(s), i)
      <4>1. PICK l \in Agreeing(p, s.taus) : l.i = i /\ Successor(p, s, l) \in V
        <5> HIDE DEF V
        <5> QED
          BY <1>1, <2>2, <3>1
      <4>2. CASE Accepting(Successor(p, s, l).goal)
        BY <1>5, <3>1, <3>2, <4>1, <4>2
      <4>3. CASE Successor(p, s, l).goal.kind = "next" /\ Pos(Successor(p, s, l)) \in W
        BY <1>5, <3>1, <3>2, <4>1, <4>3
      <4> QED
        BY <2>2, <4>1, <4>2, <4>3
    <3> QED
      BY <2>2, <3>1, <3>2, <3>3, <3>4 DEF Forces
  <2>3. Absorbs(aut, V)
    BY <1>1, <2>1, <2>2 DEF Absorbs
  <2>4. InitialState(p) \in V
    BY <1>3, <1>6, <2>3
  <2>5. CASE IFree = {}
    <3>1. Forces(p, InitialPosition(p), W) /\ InitialPosition(p) \in Positions(p)
      BY <2>5, InitialReachable DEF Forces, Reachable
    <3> QED
      BY <3>1
  <2> QED
    BY <2>4, <2>5, InitialReached
<1>7. ASSUME SystemWins(p) PROVE InitialState(p) \in A
  <2> DEFINE W == {x \in Positions(p) :
                     \A s \in D : s.goal.kind = "next" /\ ~Accepting(s.goal) /\ Pos(s) = x => s \in A}
  <2>1. ASSUME NEW x \in Positions(p), Forces(p, x, W),
               NEW s \in D, s.goal.kind = "next", ~Accepting(s.goal), Pos(s) = x
        PROVE  s \in A
    <3>1. ASSUME NEW i \in IFree
          PROVE  \E l \in Agreeing(p, s.taus) : l.i = i /\ Successor(p, s, l) \in A
      <4>1. CASE Stops(p, x, i)
        <5>1. PICK l \in Agreeing(p, s.taus) : l.i = i /\ Accepting(Successor(p, s, l).goal)
          BY <1>5, <2>1, <4>1
        <5>2. Successor(p, s, l) \in Final(aut)
          BY <1>1, <1>2, <5>1
        <5> QED
          BY <1>3, <5>1, <5>2 DEF Absorbs
      <4>2. CASE \E r \in W : r \in Moves(p, x, i)
        <5>1. PICK r \in W : r \in Moves(p, x, i)
          BY <4>2
        <5>2. PICK l \in Agreeing(p, s.taus) :
                l.i = i /\ Successor(p, s, l).goal.kind = "next" /\ r = Pos(Successor(p, s, l))
          BY <1>5, <2>1, <5>1
        <5>3. Successor(p, s, l) \in D
          BY <1>2
        <5>4. CASE Accepting(Successor(p, s, l).goal)
          BY <1>1, <1>3, <5>2, <5>3, <5>4 DEF Absorbs
        <5>5. CASE ~Accepting(Successor(p, s, l).goal)
          BY <5>1, <5>2, <5>3, <5>5
        <5> QED
          BY <5>4, <5>5
      <4> QED
        BY <2>1, <4>1, <4>2 DEF Forces
    <3>2. Draws(aut, s, A)
      BY <1>1, <3>1
    <3>3. s \notin Final(aut)
      BY <1>1, <2>1
    <3> QED
      BY <1>1, <1>3, <3>2, <3>3 DEF Absorbs
  <2>2. InitialPosition(p) \in W
    <3>1. \A x \in Positions(p) : Forces(p, x, W) => x \in W
      BY <2>1
    <3> HIDE DEF W
    <3> QED
      <4>1. W \in SUBSET Positions(p)
        BY DEF W
      <4> QED
        BY <1>7, <3>1, <4>1, SystemWinsMeans
  <2> QED
    BY <1>1, <2>2, InitialReached
<1> QED
  BY <1>4, <1>6, <1>7 DEF aut

-----------------------------------------------------------------------------
(* The construction.                                                        *)

\* Every node belongs to the problem; until the build ends a node is waiting or
\* has its guards, and all of them lead to nodes.
DfaInv ==
  /\ problem \in Problems
  /\ phase \in {"build", "built", "materialized", "done"}
  /\ phase # "done" => result = "none"
  /\ IsFiniteSet(DOMAIN nodes) /\ DOMAIN nodes \subseteq ReachedStates(problem)
  /\ InitialState(problem) \in DOMAIN nodes
  /\ worklist \in Seq(DOMAIN nodes)
  /\ \A s \in DOMAIN nodes : nodes[s] = [acc |-> Accepting(s.goal), guards |-> nodes[s].guards]
  /\ phase = "build" => \A s \in DOMAIN nodes : Waits(worklist, s) \/ Finished(problem, nodes, s)
  /\ phase \in {"built", "materialized"} => Complete(problem, nodes)
  /\ phase = "materialized" => product = Materialized(nodes)

LEMMA InitDfaInv == Init => DfaInv
<1> SUFFICES ASSUME Init PROVE DfaInv
  OBVIOUS
<1> DEFINE s0 == InitialState(problem)
<1>1. /\ problem \in Problems /\ phase = "build" /\ result = "none"
      /\ nodes = [s \in {s0} |-> Fresh(s)] /\ worklist = <<s0>>
  BY DEF Init
<1>2. WellFormed(problem)
  BY <1>1, ProblemsWellFormed
<1>3. IsFiniteSet({s0}) /\ {s0} \subseteq ReachedStates(problem)
  <2>1. s0 \in ReachedStates(problem)
    BY <1>2, InitialReached
  <2> QED
    BY <2>1, FS_Singleton
<1> HIDE DEF s0
<1>4. DOMAIN nodes = {s0} /\ nodes[s0] = Fresh(s0)
  BY <1>1
<1>5. worklist \in Seq({s0}) /\ Waits(worklist, s0)
  BY <1>1 DEF Waits
<1> QED
  BY <1>1, <1>3, <1>4, <1>5 DEF DfaInv, Fresh, s0

\* The letters of a node lead to finitely many states, all of them reached.
LEMMA GuardsReached ==
  ASSUME NEW p, WellFormed(p), NEW s \in ReachedStates(p)
  PROVE  DOMAIN Guards(p, s) \subseteq ReachedStates(p) /\ IsFiniteSet(DOMAIN Guards(p, s))
<1> DEFINE L == Agreeing(p, s.taus)
           succ == [l \in L |-> Successor(p, s, l)]
           G == DOMAIN Guards(p, s)
<1>1. G = {Successor(p, s, l) : l \in L}
  BY DEF Guards, Enabled
<1>2. G \subseteq ReachedStates(p)
  <2> HIDE DEF G
  <2> QED
    BY <1>1, SuccessorReached
<1>3. IsFiniteSet(L)
  <2>1. L \subseteq Letter
    BY DEF Agreeing, Emitted
  <2> QED
    BY <2>1, LettersFinite, FS_Subset
<1>4. succ \in Surjection(L, G)
  <2> HIDE DEF G
  <2> QED
    BY <1>1 DEF Surjection
<1> QED
  BY <1>2, <1>3, <1>4, FS_Surjection

LEMMA ExploreDfaInv == DfaInv /\ Explore => DfaInv'
<1> SUFFICES ASSUME DfaInv, Explore PROVE DfaInv'
  OBVIOUS
<1> DEFINE D      == DOMAIN nodes
           s0     == Head(worklist)
           guards == Guards(problem, s0)
           new    == DOMAIN guards \ D
<1>1. /\ problem \in Problems /\ WellFormed(problem) /\ phase = "build"
      /\ IsFiniteSet(D) /\ D \subseteq ReachedStates(problem) /\ InitialState(problem) \in D
      /\ worklist \in Seq(D) /\ worklist # <<>> /\ result = "none"
      /\ \A s \in D : nodes[s] = [acc |-> Accepting(s.goal), guards |-> nodes[s].guards]
      /\ \A s \in D : Waits(worklist, s) \/ Finished(problem, nodes, s)
  BY ProblemsWellFormed DEF DfaInv, Explore
<1>2. /\ UNCHANGED <<problem, phase, product, result>>
      /\ nodes' = [s \in D \cup new |->
                     IF s = s0 THEN [nodes[s0] EXCEPT !.guards = guards]
                     ELSE IF s \in new THEN Fresh(s) ELSE nodes[s]]
  BY DEF Explore
<1>3. PICK ns \in Orders(new) : worklist' = Tail(worklist) \o ns
  BY DEF Explore
<1>4. s0 \in D
  BY <1>1, HeadTailProperties
<1>5. DOMAIN guards \subseteq ReachedStates(problem) /\ IsFiniteSet(DOMAIN guards)
  BY <1>1, <1>4, GuardsReached
<1>6. IsFiniteSet(new) /\ IsFiniteSet(D \cup new) /\ new \cap D = {} /\ DOMAIN guards \subseteq D \cup new
  BY <1>1, <1>5, FS_Subset, FS_Union
<1> HIDE DEF new
<1>7. /\ worklist' \in Seq(D \cup new)
      /\ \A x \in new : Waits(worklist', x)
      /\ \A x : Waits(worklist, x) /\ x # s0 => Waits(worklist', x)
  BY <1>1, <1>3, <1>6, WorklistStep
<1>8. DOMAIN nodes' = D \cup new /\ D \cup new \subseteq ReachedStates(problem)
  BY <1>1, <1>2, <1>5 DEF new
<1>9. nodes'[s0] = [acc |-> Accepting(s0.goal), guards |-> guards]
  <2> DEFINE gs == nodes[s0].guards
  <2>1. nodes[s0] = [acc |-> Accepting(s0.goal), guards |-> gs]
    BY <1>1, <1>4
  <2>2. nodes'[s0] = [nodes[s0] EXCEPT !.guards = guards]
    BY <1>2, <1>4
  <2> HIDE DEF gs, guards
  <2> QED
    BY <2>1, <2>2
<1> HIDE DEF guards, s0
<1>10. ASSUME NEW s \in D \cup new
       PROVE  /\ nodes'[s] = [acc |-> Accepting(s.goal), guards |-> nodes'[s].guards]
              /\ Waits(worklist', s) \/ Finished(problem, nodes', s)
  <2>1. CASE s = s0
    BY <1>6, <1>8, <1>9, <2>1 DEF Finished, guards
  <2>2. CASE s \in new
    <3>1. nodes'[s] = Fresh(s)
      BY <1>2, <1>4, <1>6, <2>2
    <3> QED
      BY <1>7, <2>2, <3>1 DEF Fresh
  <2>3. CASE s \in D /\ s # s0
    <3>1. nodes'[s] = nodes[s]
      BY <1>2, <1>6, <2>3
    <3>2. Finished(problem, nodes, s) => Finished(problem, nodes', s)
      BY <1>8, <3>1 DEF Finished
    <3> QED
      BY <1>1, <1>7, <2>3, <3>1, <3>2
  <2> QED
    BY <2>1, <2>2, <2>3
<1> QED
  BY <1>1, <1>2, <1>6, <1>7, <1>8, <1>10 DEF DfaInv

LEMMA RestDfaInv ==
  DfaInv /\ (ThrowNondeterministic \/ FinishBuild \/ Materialize \/ Solve \/ UNCHANGED vars) => DfaInv'
<1> SUFFICES ASSUME DfaInv, ThrowNondeterministic \/ FinishBuild \/ Materialize \/ Solve \/ UNCHANGED vars
             PROVE  DfaInv'
  OBVIOUS
<1>1. CASE ThrowNondeterministic
  <2>1. Tail(worklist) \in Seq(DOMAIN nodes)
    BY <1>1, HeadTailProperties DEF ThrowNondeterministic, DfaInv
  <2> QED
    BY <1>1, <2>1 DEF ThrowNondeterministic, DfaInv
<1>2. CASE FinishBuild
  <2>1. worklist = <<>> /\ \A s : ~ Waits(worklist, s)
    BY <1>2 DEF FinishBuild, Waits
  <2>2. Complete(problem, nodes)
    BY <1>2, <2>1 DEF FinishBuild, DfaInv, Complete
  <2> QED
    BY <1>2, <2>2 DEF FinishBuild, DfaInv
<1>3. CASE Materialize
  BY <1>3 DEF Materialize, DfaInv
<1>4. CASE Solve
  BY <1>4 DEF Solve, DfaInv
<1>5. CASE UNCHANGED vars
  BY <1>5 DEF vars, DfaInv
<1> QED
  BY <1>1, <1>2, <1>3, <1>4, <1>5

\* The explicit product is, when it is built, exactly the part of the automaton that
\* words of agreeing letters reach, with all of its edges.
THEOREM DfaInvariant == Spec => []DfaInv
<1>1. DfaInv /\ [Next]_vars => DfaInv'
  BY ExploreDfaInv, RestDfaInv DEF Next
<1> QED
  BY <1>1, InitDfaInv, PTL DEF Spec

\* The next states of a complete graph stand for the reachable positions.
LEMMA CompleteIsReachable ==
  ASSUME NEW p, WellFormed(p), NEW ns, Complete(p, ns)
  PROVE  {<<s.goal.psi, s.taus>> : s \in {t \in DOMAIN ns : t.goal.kind = "next"}} = Reachable(p)
<1> DEFINE N == {t \in DOMAIN ns : t.goal.kind = "next"}
           Pos(s) == <<s.goal.psi, s.taus>>
           S == {Pos(s) : s \in N}
<1>1. ASSUME NEW s \in N
      PROVE  s \in ReachedStates(p) /\ Pos(s) \in Reachable(p)
  BY DEF Complete, ReachedStates
<1>2. InitialPosition(p) \in S
  <2>1. InitialState(p) \in N /\ Pos(InitialState(p)) = InitialPosition(p)
    BY InitialReached DEF Complete
  <2> QED
    BY <2>1
<1>3. ASSUME NEW x \in S, NEW i \in IFree, NEW r \in Moves(p, x, i)
      PROVE  r \in S
  <2>1. PICK s \in N : x = Pos(s)
    BY <1>3
  <2>2. x[1] = s.goal.psi /\ x[2] = s.taus /\ s \in DOMAIN ns /\ s.goal.kind = "next"
    BY <2>1
  <2>3. PICK l \in Agreeing(p, s.taus) :
          /\ p.progress[s.goal.psi][l].kind = "next"
          /\ r = <<p.progress[s.goal.psi][l].psi, Delta(p, s.taus, l)>>
    BY <2>2 DEF Moves
  <2> DEFINE d == Successor(p, s, l)
  <2>4. d.goal = p.progress[s.goal.psi][l] /\ d.taus = Delta(p, s.taus, l)
    BY <2>2 DEF Successor, GoalDelta
  <2>5. d \in DOMAIN ns
    <3>1. DOMAIN Guards(p, s) \subseteq DOMAIN ns
      BY <2>2 DEF Complete, Finished
    <3> QED
      BY <3>1 DEF Guards, Enabled
  <2> HIDE DEF d
  <2> QED
    BY <2>3, <2>4, <2>5
<1>4. S \subseteq Reachable(p) /\ S \subseteq Positions(p)
  <2>1. S \subseteq Reachable(p)
    BY <1>1
  <2> HIDE DEF S
  <2> QED
    BY <2>1 DEF Reachable
<1> HIDE DEF S
<1>5. Reachable(p) \subseteq S
  BY <1>2, <1>3, <1>4, ReachableLeast
<1>6. S = Reachable(p)
  BY <1>4, <1>5
<1> QED
  BY <1>6 DEF S

\* A finished build holds the states that words of agreeing letters lead to, no
\* other one and none missing.
THEOREM ProductIsReachable == Spec => []NodesAreReachable
<1>1. DfaInv => NodesAreReachable
  BY ProblemsWellFormed, CompleteIsReachable DEF DfaInv, NodesAreReachable
<1> QED
  BY <1>1, DfaInvariant, PTL

-----------------------------------------------------------------------------
(* The contract.  Its module repeats the definitions of the problem, over its *)
(* own copies of the constants.                                             *)

LEMMA ContractGame ==
  ASSUME NEW p
  PROVE  Contract!SystemWins(p) = SystemWins(p)
BY DEF SystemWins, Positions, Vectors, Stops, Moves, Agreeing, Emitted, DeltaDefined, Matching,
   Delta, First, InitialPosition, InitialVector, TrueCell, NextCell, Letter,
   Contract!SystemWins, Contract!Positions, Contract!Vectors, Contract!Stops, Contract!Moves,
   Contract!Agreeing, Contract!Emitted, Contract!DeltaDefined, Contract!Matching, Contract!Delta,
   Contract!First, Contract!InitialPosition, Contract!InitialVector, Contract!TrueCell,
   Contract!NextCell, Contract!Letter

LEMMA ContractInput ==
  ASSUME NEW p
  PROVE  Contract!WellFormed(p) = WellFormed(p)
BY DEF WellFormed, IsTransducer, Transducers, Cells, FalseCell, TrueCell, NextCell, Letter,
   Contract!WellFormed, Contract!IsTransducer, Contract!Transducers, Contract!Cells,
   Contract!FalseCell, Contract!TrueCell, Contract!NextCell, Contract!Letter

LEMMA ContractAnswers ==
  ASSUME NEW p
  PROVE  /\ SystemWins(p) => "controller" \in Contract!Answers(p)
         /\ ~SystemWins(p) => "unrealizable" \in Contract!Answers(p)
         /\ \A t \in DOMAIN p.taus : \A s \in p.taus[t].states :
              Overlap(p.taus[t], s) => "runtime_error" \in Contract!Answers(p)
<1>1. Contract!SystemWins(p) = SystemWins(p)
  BY ContractGame
<1>2. \A tau, s : Contract!Overlap(tau, s) = Overlap(tau, s)
  BY DEF Overlap, Contract!Overlap
<1> QED
  BY <1>1, <1>2 DEF Contract!Answers

\* Only a transducer whose delta is non-deterministic makes the build throw.
LEMMA ThrowAnswers == DfaInv /\ ThrowNondeterministic => Contract!Answer
<1> SUFFICES ASSUME DfaInv, ThrowNondeterministic PROVE Contract!Answer
  OBVIOUS
<1> DEFINE s == Head(worklist)
<1>1. /\ phase = "build" /\ result = "none" /\ worklist # <<>> /\ Nondeterministic(problem, s.taus)
      /\ result' = "runtime_error" /\ problem' = problem
  BY DEF ThrowNondeterministic, DfaInv
<1>2. s \in ReachedStates(problem)
  BY <1>1, HeadTailProperties DEF DfaInv
<1>3. s.taus \in Vectors(problem)
  BY <1>2 DEF ReachedStates
<1>4. PICK t \in DOMAIN problem.taus : Overlap(problem.taus[t], s.taus[t])
  BY <1>1 DEF Nondeterministic
<1>5. s.taus[t] \in problem.taus[t].states
  BY <1>3, <1>4 DEF Vectors
<1>6. "runtime_error" \in Contract!Answers(problem)
  BY <1>4, <1>5, ContractAnswers
<1> QED
  BY <1>1, <1>6 DEF Contract!Answer

LEMMA SolveAnswers == DfaInv /\ Solve => Contract!Answer
<1> SUFFICES ASSUME DfaInv, Solve PROVE Contract!Answer
  OBVIOUS
<1>1. /\ phase = "materialized" /\ result = "none" /\ problem' = problem
      /\ WellFormed(problem) /\ Complete(problem, nodes) /\ product = Materialized(nodes)
      /\ result' = IF WinsArena(product, InitialState(problem)) THEN "controller" ELSE "unrealizable"
  BY ProblemsWellFormed DEF Solve, DfaInv
<1>2. WinsArena(product, InitialState(problem)) <=> SystemWins(problem)
  BY <1>1, ArenaIsGame
<1>3. result' \in Contract!Answers(problem) /\ result' # "none"
  BY <1>1, <1>2, ContractAnswers
<1> QED
  BY <1>1, <1>3 DEF Contract!Answer

LEMMA BuildStutters ==
  Explore \/ FinishBuild \/ Materialize \/ UNCHANGED vars => UNCHANGED <<problem, result>>
BY DEF Explore, FinishBuild, Materialize, vars

\* The explicit method answers once, and with a controller exactly when the system
\* wins the reference game, whatever order its worklist takes.
THEOREM DfaImplementsContract == Spec => ImplementsContract
<1>1. Init => Contract!Init
  BY ProblemsWellFormed, ContractInput DEF Init, Contract!Init
<1>2. DfaInv /\ [Next]_vars => [Contract!Answer]_<<problem, result>>
  BY ThrowAnswers, SolveAnswers, BuildStutters DEF Next
<1> QED
  BY <1>1, <1>2, DfaInvariant, PTL DEF Spec, ImplementsContract, Contract!Spec

-----------------------------------------------------------------------------
(* The tool runs the method and nothing that disturbs it.                   *)

\* Every step of ltlf-ek-synth is one of DfaProduct or leaves it alone: a method that
\* follows it and a model check share none of its state.
THEOREM ToolRunsDfa == ToolSpec => Spec
<1>1. ToolInit => Init
  BY DEF ToolInit, CaseInit
<1>2. [ToolNext]_<<methodVars, vVars>> => [Next]_vars
  BY DEF ToolNext, Synthesize, RunDfa, RunMtdfa, SelfCheckDfa, SelfCheckMtdfa, CheckGiven, Check,
         Verify, methodVars
<1> QED
  BY <1>1, <1>2, PTL DEF ToolSpec, Spec

\* What holds of the method holds of it in the tool.
THEOREM ToolKeepsDfaProduct == ToolSpec => []NodesAreReachable /\ ImplementsContract
BY ToolRunsDfa, ProductIsReachable, DfaImplementsContract

-----------------------------------------------------------------------------
(* The verifier's game.                                                     *)

\* The operators the verifier shares with the methods, under its own name.
LEMMA VerifierVocabulary ==
  /\ \A p : Verifier!InitialState(p) = InitialState(p)
  /\ \A p, q : Verifier!Agreeing(p, q) = Agreeing(p, q)
  /\ \A p, s, l : Verifier!Successor(p, s, l) = Successor(p, s, l)
  /\ \A c : Verifier!Accepting(c) = Accepting(c)
  /\ \A p : Verifier!SystemWins(p) = SystemWins(p)
  /\ \A S : Verifier!First(S) = First(S)
  /\ \A S : Verifier!Cardinality(S) = Cardinality(S)
<1>1. \A p : Verifier!InitialState(p) = InitialState(p)
  BY DEF InitialState, GoalInit, InitialVector, NextCell,
         Verifier!InitialState, Verifier!GoalInit, Verifier!InitialVector, Verifier!NextCell
<1>2. \A p, q : Verifier!Agreeing(p, q) = Agreeing(p, q)
  BY DEF Agreeing, Emitted, DeltaDefined, Matching, Letter,
         Verifier!Agreeing, Verifier!Emitted, Verifier!DeltaDefined, Verifier!Matching, Verifier!Letter
<1>3. \A S : Verifier!First(S) = First(S)
  BY DEF First, Verifier!First
<1>4. \A p, s, l : Verifier!Successor(p, s, l) = Successor(p, s, l)
  BY DEF Successor, GoalDelta, Delta, Matching, First,
         Verifier!Successor, Verifier!GoalDelta, Verifier!Delta, Verifier!Matching, Verifier!First
<1>5. \A c : Verifier!Accepting(c) = Accepting(c)
  BY DEF Accepting, Verifier!Accepting
<1>6. ASSUME NEW p
      PROVE  Verifier!SystemWins(p) = SystemWins(p)
  BY DEF SystemWins, Positions, Vectors, Stops, Moves, Agreeing, Emitted, DeltaDefined, Matching,
     Delta, First, InitialPosition, InitialVector, TrueCell, NextCell, Letter,
     Verifier!SystemWins, Verifier!Positions, Verifier!Vectors, Verifier!Stops, Verifier!Moves,
     Verifier!Agreeing, Verifier!Emitted, Verifier!DeltaDefined, Verifier!Matching, Verifier!Delta,
     Verifier!First, Verifier!InitialPosition, Verifier!InitialVector, Verifier!TrueCell,
     Verifier!NextCell, Verifier!Letter
<1>7. \A S : Verifier!Cardinality(S) = Cardinality(S)
  BY DEF Cardinality, Verifier!Cardinality
<1> QED
  BY <1>1, <1>2, <1>3, <1>4, <1>5, <1>6, <1>7

\* A graph of reached states that contains every successor.
Closed(p, D) ==
  /\ IsFiniteSet(D) /\ D \subseteq ReachedStates(p) /\ InitialState(p) \in D
  /\ \A s \in D : \A l \in Agreeing(p, s.taus) : Successor(p, s, l) \in D

\* For some choice of the environment nobody answers, or the answer leads into Y.
Avoids(p, s, Y) == \E i \in IFree : \A l \in Agreeing(p, s.taus) : l.i = i => Successor(p, s, l) \in Y

\* The environment can stay in Y, and Y accepts nowhere.
Trap(p, Y) == \A s \in Y : ~Accepting(s.goal) /\ Avoids(p, s, Y)

\* No trap catches the play: the system wins.
LEMMA NoTrapWins ==
  ASSUME NEW p, WellFormed(p), NEW D, Closed(p, D),
         NEW B, \A Y \in SUBSET D : Trap(p, Y) => Y \subseteq B,
         ~Avoids(p, InitialState(p), B)
  PROVE  SystemWins(p)
<1> DEFINE Pos(s) == <<s.goal.psi, s.taus>>
<1> SUFFICES ASSUME NEW W \in SUBSET Positions(p), \A x \in Positions(p) : Forces(p, x, W) => x \in W
             PROVE  InitialPosition(p) \in W
  BY SystemWinsMeans
<1>1. CASE IFree = {}
  BY <1>1, InitialReachable DEF Forces, Reachable
<1>2. CASE IFree # {}
  <2> DEFINE Y == {s \in D : ~Accepting(s.goal) /\ (s.goal.kind = "next" => Pos(s) \notin W)}
  <2>1. ASSUME NEW s \in Y
        PROVE  Avoids(p, s, Y)
    <3>1. s \in D /\ s \in ReachedStates(p) /\ ~Accepting(s.goal) /\ \A l \in Agreeing(p, s.taus) : Successor(p, s, l) \in D
      BY DEF Closed
    <3>2. CASE s.goal.kind = "next"
      <4>1. Pos(s) \in Positions(p) /\ Pos(s) \notin W
        BY <3>1, <3>2 DEF ReachedStates, Reachable
      <4>2. PICK i \in IFree : ~Stops(p, Pos(s), i) /\ ~ (\E r \in W : r \in Moves(p, Pos(s), i))
        BY <4>1 DEF Forces
      <4>3. \A l \in Agreeing(p, s.taus) : l.i = i =>
              /\ ~Accepting(Successor(p, s, l).goal)
              /\ Successor(p, s, l).goal.kind = "next" => Pos(Successor(p, s, l)) \notin W
        BY <3>1, <3>2, <4>2, PlayMeans
      <4> QED
        BY <3>1, <4>3 DEF Avoids
    <3>3. CASE s.goal.kind # "next"
      <4>1. \A l \in Agreeing(p, s.taus) : Successor(p, s, l).goal = s.goal
        BY <3>3 DEF Successor, GoalDelta
      <4> QED
        BY <1>2, <3>1, <3>3, <4>1 DEF Avoids
    <3> QED
      BY <3>2, <3>3
  <2>2. Trap(p, Y)
    <3>1. \A s \in Y : ~Accepting(s.goal)
      OBVIOUS
    <3> HIDE DEF Y
    <3> QED
      BY <2>1, <3>1 DEF Trap
  <2>3. Y \subseteq B
    BY <2>2
  <2>4. InitialState(p) \notin Y
    <3> SUFFICES ASSUME InitialState(p) \in Y PROVE Avoids(p, InitialState(p), B)
      OBVIOUS
    <3> HIDE DEF Y
    <3> QED
      BY <2>1, <2>3 DEF Avoids
  <2> QED
    BY <2>4, InitialReached DEF Closed
<1> QED
  BY <1>1, <1>2

\* From the start the environment can move into a trap: the system does not win.
LEMMA TrapLoses ==
  ASSUME NEW p, WellFormed(p), NEW D, Closed(p, D), NEW B \in SUBSET D, Trap(p, B),
         Avoids(p, InitialState(p), B)
  PROVE  ~SystemWins(p)
<1> DEFINE Pos(s) == <<s.goal.psi, s.taus>>
           W == {x \in Positions(p) : \A s \in B \cup {InitialState(p)} : s.goal.kind = "next" => Pos(s) # x}
<1>1. ASSUME NEW x \in Positions(p), x \notin W
      PROVE  ~Forces(p, x, W)
  <2>1. PICK s \in B \cup {InitialState(p)} : s.goal.kind = "next" /\ Pos(s) = x
    BY <1>1
  <2>2. s \in ReachedStates(p) /\ Avoids(p, s, B)
    BY DEF Closed, Trap
  <2>3. PICK i \in IFree : \A l \in Agreeing(p, s.taus) : l.i = i => Successor(p, s, l) \in B
    BY <2>2 DEF Avoids
  <2>4. ~Stops(p, x, i)
    BY <2>1, <2>2, <2>3, PlayMeans DEF Trap
  <2>5. \A r \in W : r \notin Moves(p, x, i)
    BY <2>1, <2>2, <2>3, PlayMeans
  <2> QED
    BY <2>4, <2>5 DEF Forces
<1>2. InitialPosition(p) \notin W
  BY InitialReached
<1>3. W \in SUBSET Positions(p)
  OBVIOUS
<1> HIDE DEF W
<1> QED
  BY <1>1, <1>2, <1>3, SystemWinsMeans

-----------------------------------------------------------------------------
(* The verifier's run.                                                      *)

\* b is the verifier's edge for the choice i in s: an agreeing letter that starts
\* with i and where it leads, or <<>> when there is none.
Bucketed(p, s, i, b) ==
  \/ b = <<>> /\ \A l \in Agreeing(p, s.taus) : l.i # i
  \/ b # <<>> /\ \E l \in Agreeing(p, s.taus) : l.i = i /\ b = <<l, Successor(p, s, l)>>

\* The verifier's reading of a graph.
InfoMeans(p, inf) ==
  \A s \in DOMAIN inf :
    /\ inf[s].acc = Accepting(s.goal)
    /\ inf[s].deadEnd <=> \E i \in IFree : inf[s].edges[i] = <<>>
    /\ \A i \in IFree : Bucketed(p, s, i, inf[s].edges[i])

\* The part of the graph that the search has finished with.
Explored(p, g, s) ==
  g[s] = {<<l, Successor(p, s, l)>> : l \in Agreeing(p, s.taus)} /\ \A e \in g[s] : e[2] \in DOMAIN g

After(p, w, n) == IF n = 0 THEN InitialState(p) ELSE w[n][2]

\* A play of agreeing letters that never leaves B.
PlaysIn(p, w, B) ==
  \A n \in DOMAIN w : /\ w[n][1] \in Agreeing(p, After(p, w, n - 1).taus)
                      /\ w[n][2] = Successor(p, After(p, w, n - 1), w[n][1])
                      /\ w[n][2] \in B

\* Such a play ends where nobody answers a choice, or it has come back.
Refutes(p, w, c) ==
  IF c = 0 THEN \E i \in IFree : \A l \in Agreeing(p, After(p, w, Len(w)).taus) : l.i # i
           ELSE c < Len(w) /\ After(p, w, c) = After(p, w, Len(w))

Checkable(p) == WellFormed(p) /\ AnswersOnce(p)

VerifierInv ==
  /\ vPhase \in {"build", "shrink", "extract", "done", "threw"}
  /\ IsFiniteSet(DOMAIN vGraph) /\ DOMAIN vGraph \subseteq ReachedStates(vProblem)
  /\ InitialState(vProblem) \in DOMAIN vGraph
  /\ vWorklist \in Seq(DOMAIN vGraph)
  /\ vPhase = "build" => \A s \in DOMAIN vGraph : Waits(vWorklist, s) \/ Explored(vProblem, vGraph, s)
  /\ vPhase \in {"build", "shrink"} => cur = InitialState(vProblem) /\ path = <<>> /\ cycleAt = 0
  /\ vPhase \in {"shrink", "extract", "done"} =>
       /\ DOMAIN info = DOMAIN vGraph /\ Closed(vProblem, DOMAIN info) /\ InfoMeans(vProblem, info)
       /\ bad \subseteq DOMAIN info /\ \A s \in bad : ~Accepting(s.goal)
       /\ \A Y \in SUBSET DOMAIN info : Trap(vProblem, Y) => Y \subseteq bad
  /\ vPhase \in {"extract", "done"} =>
       Trap(vProblem, bad) /\ (ok <=> ~Avoids(vProblem, InitialState(vProblem), bad))
  /\ vPhase = "extract" =>
       /\ ~ok /\ path \in Seq(Letter \X DOMAIN info) /\ PlaysIn(vProblem, path, bad)
       /\ cycleAt = 0 /\ cur = After(vProblem, path, Len(path))
  /\ vPhase = "done" /\ ~ok => PlaysIn(vProblem, path, bad) /\ Refutes(vProblem, path, cycleAt)

\* A check that has started is on a problem with one more transducer.
ToolInv ==
  /\ checked \in {"none", "dfa-product", "mtdfa-product", "given"}
  /\ problem \in Problems
  /\ checked = "none" => vPhase = "idle" /\ path = <<>> /\ cycleAt = 0
  /\ checked = "given" => Checkable(vProblem)
  /\ checked # "none" /\ Checkable(vProblem) => VerifierInv

LEMMA BucketMeans ==
  ASSUME NEW p, NEW s, NEW i
  PROVE  Bucketed(p, s, i, Verifier!Bucket({<<l, Successor(p, s, l)>> : l \in Agreeing(p, s.taus)}, i))
<1> DEFINE es == {<<l, Successor(p, s, l)>> : l \in Agreeing(p, s.taus)}
           here == {e \in es : e[1].i = i}
           b == Verifier!Bucket(es, i)
<1>1. b = IF here = {} THEN <<>> ELSE CHOOSE e \in here : TRUE
  BY DEF Verifier!Bucket, Verifier!NoEdge
<1>2. CASE here = {}
  <2>1. ASSUME NEW l \in Agreeing(p, s.taus)
        PROVE  l.i # i
    <3>1. <<l, Successor(p, s, l)>> \in es /\ <<l, Successor(p, s, l)>>[1] = l
      OBVIOUS
    <3> QED
      BY <1>2, <3>1
  <2> QED
    BY <1>1, <1>2, <2>1 DEF Bucketed
<1>3. CASE here # {}
  <2>1. b \in here
    BY <1>1, <1>3
  <2>2. PICK l \in Agreeing(p, s.taus) : b = <<l, Successor(p, s, l)>>
    BY <2>1
  <2>3. l.i = i /\ b # <<>>
    BY <2>1, <2>2
  <2> QED
    BY <2>2, <2>3 DEF Bucketed
<1> QED
  BY <1>2, <1>3

\* With one letter for each choice, the verifier's operator is the environment's.
LEMMA AvoidsMeans ==
  ASSUME NEW p, WellFormed(p), AnswersOnce(p), NEW inf, InfoMeans(p, inf),
         NEW s \in DOMAIN inf, s \in ReachedStates(p), NEW Y
  PROVE  inf[s].deadEnd \/ Verifier!IntoSome(inf, s, Y) <=> Avoids(p, s, Y)
<1>1. /\ inf[s].deadEnd <=> \E i \in IFree : inf[s].edges[i] = <<>>
      /\ \A i \in IFree : Bucketed(p, s, i, inf[s].edges[i])
  BY DEF InfoMeans
<1>2. Verifier!IntoSome(inf, s, Y) <=> \E i \in IFree : inf[s].edges[i] # <<>> /\ inf[s].edges[i][2] \in Y
  BY DEF Verifier!IntoSome, Verifier!NoEdge
<1>3. \A l, m \in Agreeing(p, s.taus) : l.i = m.i => l = m
  BY DEF AnswersOnce, ReachedStates
<1>4. ASSUME NEW i \in IFree
      PROVE  (\A l \in Agreeing(p, s.taus) : l.i = i => Successor(p, s, l) \in Y) <=>
               inf[s].edges[i] = <<>> \/ inf[s].edges[i][2] \in Y
  <2>1. CASE inf[s].edges[i] = <<>>
    BY <1>1, <2>1 DEF Bucketed
  <2>2. CASE inf[s].edges[i] # <<>>
    <3>1. PICK l \in Agreeing(p, s.taus) : l.i = i /\ inf[s].edges[i] = <<l, Successor(p, s, l)>>
      BY <1>1, <2>2 DEF Bucketed
    <3>2. inf[s].edges[i][2] = Successor(p, s, l)
      BY <3>1
    <3>3. \A m \in Agreeing(p, s.taus) : m.i = i => m = l
      BY <1>3, <3>1
    <3> QED
      BY <2>2, <3>1, <3>2, <3>3
  <2> QED
    BY <2>1, <2>2
<1> QED
  BY <1>1, <1>2, <1>4 DEF Avoids

LEMMA CallVerifier ==
  ASSUME NEW p, NEW tc, Verifier!Call(p, tc), path = <<>>, cycleAt = 0, WellFormed(vProblem')
  PROVE  VerifierInv'
<1> DEFINE s0 == InitialState(vProblem')
<1>1. /\ vPhase' = "build" /\ vGraph' = [s \in {s0} |-> {}] /\ vWorklist' = <<s0>>
      /\ cur' = s0 /\ path' = <<>> /\ cycleAt' = 0
  BY VerifierVocabulary DEF Verifier!Call
<1>2. s0 \in ReachedStates(vProblem')
  BY InitialReached
<1> HIDE DEF s0
<1>3. DOMAIN vGraph' = {s0} /\ IsFiniteSet({s0}) /\ vWorklist' \in Seq({s0})
  <2>1. IsFiniteSet({s0})
    BY FS_Singleton
  <2> QED
    BY <1>1, <2>1
<1>4. Waits(vWorklist', s0)
  BY <1>1 DEF Waits
<1> QED
  BY <1>1, <1>2, <1>3, <1>4 DEF VerifierInv, s0

LEMMA ExploreVerifier ==
  ASSUME VerifierInv, WellFormed(vProblem), Verifier!Explore
  PROVE  VerifierInv'
<1> DEFINE D   == DOMAIN vGraph
           s0  == Head(vWorklist)
           es  == Verifier!Edges(vProblem, s0)
           new == {e[2] : e \in es} \ D
<1>1. /\ vPhase = "build" /\ vWorklist # <<>> /\ vWorklist \in Seq(D) /\ WellFormed(vProblem)
      /\ IsFiniteSet(D) /\ D \subseteq ReachedStates(vProblem) /\ InitialState(vProblem) \in D
      /\ cur = InitialState(vProblem) /\ path = <<>> /\ cycleAt = 0
      /\ \A s \in D : Waits(vWorklist, s) \/ Explored(vProblem, vGraph, s)
  BY DEF VerifierInv, Verifier!Explore
<1>2. es = {<<l, Successor(vProblem, s0, l)>> : l \in Agreeing(vProblem, s0.taus)}
  BY VerifierVocabulary DEF Verifier!Edges
<1>3. UNCHANGED <<vProblem, vPhase, info, bad, ok, cur, path, cycleAt>>
  BY DEF Verifier!Explore, Verifier!analysis, Verifier!witness
<1>4. /\ vGraph' = [r \in D \cup new |-> IF r = s0 THEN es ELSE IF r \in new THEN {} ELSE vGraph[r]]
      /\ vWorklist' = Tail(vWorklist) \o CHOOSE ns \in [1 .. Cardinality(new) -> new] : Verifier!IsInjective(ns)
  BY VerifierVocabulary DEF Verifier!Explore
<1> HIDE DEF es
<1>5. s0 \in D /\ s0 \in ReachedStates(vProblem)
  BY <1>1, HeadTailProperties
<1>6. {e[2] : e \in es} = DOMAIN Guards(vProblem, s0)
  <2>1. DOMAIN Guards(vProblem, s0) = {Successor(vProblem, s0, l) : l \in Agreeing(vProblem, s0.taus)}
    BY DEF Guards, Enabled
  <2>2. \A e \in es : \E l \in Agreeing(vProblem, s0.taus) : e[2] = Successor(vProblem, s0, l)
    BY <1>2
  <2>3. ASSUME NEW l \in Agreeing(vProblem, s0.taus)
        PROVE  \E e \in es : e[2] = Successor(vProblem, s0, l)
    <3>1. <<l, Successor(vProblem, s0, l)>> \in es /\ <<l, Successor(vProblem, s0, l)>>[2] = Successor(vProblem, s0, l)
      BY <1>2
    <3> QED
      BY <3>1
  <2> QED
    BY <2>1, <2>2, <2>3
<1>7. {e[2] : e \in es} \subseteq ReachedStates(vProblem) /\ IsFiniteSet({e[2] : e \in es})
  BY <1>1, <1>5, <1>6, GuardsReached
<1>8. IsFiniteSet(new) /\ IsFiniteSet(D \cup new) /\ new \cap D = {} /\ \A e \in es : e[2] \in D \cup new
  BY <1>1, <1>7, FS_Subset, FS_Union
<1>9. D \cup new \subseteq ReachedStates(vProblem)
  BY <1>1, <1>7
<1> HIDE DEF new
<1>10. PICK ns \in Orders(new) : vWorklist' = Tail(vWorklist) \o ns
  <2>1. Orders(new) = {ns \in [1 .. Cardinality(new) -> new] : Verifier!IsInjective(ns)}
    BY DEF Orders, IsInjective, Verifier!IsInjective
  <2>2. \E ns \in [1 .. Cardinality(new) -> new] : Verifier!IsInjective(ns)
    BY <1>8, <2>1, OrderExists
  <2> QED
    BY <1>4, <2>1, <2>2
<1>11. /\ vWorklist' \in Seq(D \cup new)
       /\ \A x \in new : Waits(vWorklist', x)
       /\ \A x : Waits(vWorklist, x) /\ x # s0 => Waits(vWorklist', x)
  BY <1>1, <1>8, <1>10, WorklistStep
<1> HIDE DEF s0
<1>12. DOMAIN vGraph' = D \cup new /\ vGraph'[s0] = es
  BY <1>4, <1>5
<1>13. ASSUME NEW s \in D \cup new
       PROVE  Waits(vWorklist', s) \/ Explored(vProblem, vGraph', s)
  <2>1. CASE s = s0
    BY <1>2, <1>8, <1>12, <2>1 DEF Explored
  <2>2. CASE s \in D /\ s # s0
    <3>1. vGraph'[s] = vGraph[s]
      BY <1>4, <1>8, <2>2
    <3>2. Explored(vProblem, vGraph, s) => Explored(vProblem, vGraph', s)
      BY <1>12, <3>1 DEF Explored
    <3> QED
      BY <1>1, <1>11, <2>2, <3>2
  <2> QED
    BY <1>11, <2>1, <2>2
<1> HIDE DEF D
<1> QED
  BY <1>1, <1>3, <1>8, <1>9, <1>11, <1>12, <1>13 DEF VerifierInv

LEMMA BuildInfoVerifier ==
  ASSUME VerifierInv, WellFormed(vProblem), Verifier!BuildInfo
  PROVE  VerifierInv'
<1> DEFINE D == DOMAIN vGraph
<1>1. /\ vPhase = "build" /\ vWorklist = <<>>
      /\ vPhase' = "shrink" /\ UNCHANGED <<vProblem, vGraph, vWorklist, ok, cur, path, cycleAt>>
      /\ info' = [s \in D |-> Verifier!StateInfo(s, vGraph[s])]
      /\ bad' = {s \in DOMAIN info' : ~info'[s].acc}
  BY DEF Verifier!BuildInfo, Verifier!witness, Verifier!Rejecting
<1>2. \A s \in D : Explored(vProblem, vGraph, s)
  BY <1>1 DEF VerifierInv, Waits
<1>3. Closed(vProblem, D)
  <2>1. ASSUME NEW s \in D, NEW l \in Agreeing(vProblem, s.taus)
        PROVE  Successor(vProblem, s, l) \in D
    <3>1. <<l, Successor(vProblem, s, l)>> \in vGraph[s] /\ \A e \in vGraph[s] : e[2] \in D
      BY <1>2 DEF Explored
    <3> QED
      BY <3>1
  <2> QED
    BY <2>1 DEF VerifierInv, Closed
<1>4. InfoMeans(vProblem, info')
  <2> SUFFICES ASSUME NEW s \in D
               PROVE  /\ info'[s].acc = Accepting(s.goal)
                      /\ info'[s].deadEnd <=> \E i \in IFree : info'[s].edges[i] = <<>>
                      /\ \A i \in IFree : Bucketed(vProblem, s, i, info'[s].edges[i])
    BY <1>1 DEF InfoMeans
  <2> DEFINE es == vGraph[s]
  <2>1. info'[s] = [acc |-> Accepting(s.goal), deadEnd |-> \E i \in IFree : Verifier!Bucket(es, i) = <<>>,
                    edges |-> [i \in IFree |-> Verifier!Bucket(es, i)]]
    BY <1>1, VerifierVocabulary DEF Verifier!StateInfo, Verifier!NoEdge
  <2>2. \A i \in IFree : Bucketed(vProblem, s, i, Verifier!Bucket(es, i))
    BY <1>2, BucketMeans DEF Explored
  <2> HIDE DEF es
  <2> QED
    BY <2>1, <2>2
<1>5. DOMAIN info' = D /\ bad' = {s \in D : ~Accepting(s.goal)}
  BY <1>1, <1>4 DEF InfoMeans
<1>6. \A Y \in SUBSET D : Trap(vProblem, Y) => Y \subseteq bad'
  BY <1>5 DEF Trap
<1> HIDE DEF D
<1>7. bad' \subseteq D /\ \A s \in bad' : ~Accepting(s.goal)
  BY <1>5
<1> QED
  BY <1>1, <1>3, <1>4, <1>5, <1>6, <1>7 DEF VerifierInv, D

\* What the search has left behind when the verifier shrinks its candidates.
LEMMA ShrunkMeans ==
  ASSUME VerifierInv, Checkable(vProblem), vPhase = "shrink"
  PROVE  /\ Verifier!Shrunk(info, bad) = {s \in bad : Avoids(vProblem, s, bad)}
         /\ Verifier!Correct(info, bad) <=> ~Avoids(vProblem, InitialState(vProblem), bad)
<1>1. /\ WellFormed(vProblem) /\ AnswersOnce(vProblem) /\ InfoMeans(vProblem, info)
      /\ bad \subseteq DOMAIN info /\ DOMAIN info \subseteq ReachedStates(vProblem)
      /\ InitialState(vProblem) \in DOMAIN info
  BY DEF VerifierInv, Checkable, Closed
<1>2. \A s \in DOMAIN info : info[s].deadEnd \/ Verifier!IntoSome(info, s, bad) <=> Avoids(vProblem, s, bad)
  BY <1>1, AvoidsMeans
<1>3. Verifier!Start = InitialState(vProblem)
  BY VerifierVocabulary DEF Verifier!Start
<1> QED
  BY <1>1, <1>2, <1>3 DEF Verifier!Shrunk, Verifier!Correct

LEMMA ShrinkVerifier ==
  ASSUME VerifierInv, Checkable(vProblem), Verifier!Shrink
  PROVE  VerifierInv'
<1>1. /\ vPhase = "shrink" /\ bad' = Verifier!Shrunk(info, bad)
      /\ UNCHANGED <<vProblem, vPhase, vGraph, vWorklist, info, ok, cur, path, cycleAt>>
  BY DEF Verifier!Shrink, Verifier!witness
<1>2. bad' = {s \in bad : Avoids(vProblem, s, bad)}
  BY <1>1, ShrunkMeans
<1>3. ASSUME NEW Y \in SUBSET DOMAIN info, Trap(vProblem, Y)
      PROVE  Y \subseteq bad'
  <2>1. Y \subseteq bad
    BY <1>1, <1>3 DEF VerifierInv
  <2>2. \A s \in Y : Avoids(vProblem, s, bad)
    BY <1>3, <2>1 DEF Trap, Avoids
  <2> QED
    BY <1>2, <2>1, <2>2
<1>4. bad' \subseteq bad
  BY <1>2
<1> QED
  BY <1>1, <1>3, <1>4 DEF VerifierInv

LEMMA DecideVerifier ==
  ASSUME VerifierInv, Checkable(vProblem), Verifier!Decide
  PROVE  VerifierInv'
<1>1. /\ vPhase = "shrink" /\ Verifier!Shrunk(info, bad) = bad
      /\ ok' = Verifier!Correct(info, bad)
      /\ vPhase' = IF ok' THEN "done" ELSE "extract"
      /\ UNCHANGED <<vProblem, vGraph, vWorklist, info, bad, cur, path, cycleAt>>
  BY DEF Verifier!Decide, Verifier!Stable, Verifier!witness
<1>2. Trap(vProblem, bad) /\ (ok' <=> ~Avoids(vProblem, InitialState(vProblem), bad))
  BY <1>1, ShrunkMeans DEF VerifierInv, Trap
<1>3. path = <<>> /\ cycleAt = 0 /\ cur = InitialState(vProblem)
  BY <1>1 DEF VerifierInv
<1>4. path \in Seq(Letter \X DOMAIN info) /\ PlaysIn(vProblem, path, bad)
      /\ cur = After(vProblem, path, Len(path))
  BY <1>3, EmptySeq DEF PlaysIn, After
<1> QED
  BY <1>1, <1>2, <1>3, <1>4 DEF VerifierInv

\* The end of a play in the trap is a state of the graph.
LEMMA WitnessAt ==
  ASSUME VerifierInv, vPhase = "extract"
  PROVE  /\ cur \in DOMAIN info /\ InfoMeans(vProblem, info)
         /\ Len(path) \in Nat /\ DOMAIN path = 1 .. Len(path)
<1>1. /\ cur = After(vProblem, path, Len(path)) /\ PlaysIn(vProblem, path, bad)
      /\ path \in Seq(Letter \X DOMAIN info)
      /\ bad \subseteq DOMAIN info /\ InitialState(vProblem) \in DOMAIN info
      /\ InfoMeans(vProblem, info)
  BY DEF VerifierInv, Closed
<1>2. Len(path) \in Nat /\ DOMAIN path = 1 .. Len(path)
  BY <1>1, LenProperties
<1>3. Len(path) # 0 => Len(path) \in DOMAIN path
  BY <1>2
<1> QED
  BY <1>1, <1>2, <1>3 DEF After, PlaysIn

LEMMA DeadEndVerifier ==
  ASSUME VerifierInv, Checkable(vProblem), Verifier!WitnessDeadEnd
  PROVE  VerifierInv'
<1>1. /\ vPhase = "extract" /\ info[cur].deadEnd /\ vPhase' = "done"
      /\ UNCHANGED <<vProblem, vGraph, vWorklist, info, bad, ok, cur, path, cycleAt>>
  BY DEF Verifier!WitnessDeadEnd, Verifier!analysis, Verifier!witness
<1>2. PICK i \in IFree : info[cur].edges[i] = <<>> /\ Bucketed(vProblem, cur, i, info[cur].edges[i])
  BY <1>1, WitnessAt DEF InfoMeans
<1>3. \A l \in Agreeing(vProblem, cur.taus) : l.i # i
  BY <1>2 DEF Bucketed
<1>4. Refutes(vProblem, path, cycleAt)
  BY <1>1, <1>3 DEF VerifierInv, Refutes
<1> QED
  BY <1>1, <1>4 DEF VerifierInv

LEMMA FollowVerifier ==
  ASSUME VerifierInv, Checkable(vProblem), Verifier!Follow
  PROVE  VerifierInv'
<1> DEFINE n == Len(path)
           P == vProblem
<1>1. vPhase = "extract" /\ UNCHANGED <<vProblem, vGraph, vWorklist, info, bad, ok>>
  BY DEF Verifier!Follow, Verifier!analysis
<1>2. PICK i \in IFree :
        LET e == info[cur].edges[i]
        IN  /\ e # <<>> /\ e[2] \in bad /\ path' = Append(path, e)
            /\ IF {m \in DOMAIN path : path[m][2] = e[2]} # {}
               THEN /\ cycleAt' = First({m \in DOMAIN path : path[m][2] = e[2]})
                    /\ vPhase' = "done" /\ cur' = cur
               ELSE cur' = e[2] /\ vPhase' = vPhase /\ cycleAt' = cycleAt
  BY VerifierVocabulary DEF Verifier!Follow, Verifier!NoEdge, Verifier!FirstSeen
<1> DEFINE e == info[cur].edges[i]
           seen == {m \in DOMAIN path : path[m][2] = e[2]}
<1>3. cur \in DOMAIN info /\ n \in Nat /\ DOMAIN path = 1 .. n
  BY <1>1, WitnessAt
<1>4. PICK l \in Agreeing(P, cur.taus) : e = <<l, Successor(P, cur, l)>>
  BY <1>1, <1>2, <1>3, WitnessAt DEF InfoMeans, Bucketed
<1>5. e[1] \in Agreeing(P, cur.taus) /\ e[2] = Successor(P, cur, e[1]) /\ e[2] \in bad
  BY <1>2, <1>4
<1>6. /\ path \in Seq(Letter \X DOMAIN info) /\ PlaysIn(P, path, bad) /\ cur = After(P, path, n)
      /\ bad \subseteq DOMAIN info /\ cycleAt = 0 /\ ~ok
  BY <1>1 DEF VerifierInv
<1>7. e \in Letter \X DOMAIN info
  BY <1>4, <1>5, <1>6 DEF Agreeing, Emitted
<1> HIDE DEF e
<1>8. /\ path' = Append(path, e) /\ path' \in Seq(Letter \X DOMAIN info) /\ Len(path') = n + 1
      /\ DOMAIN path' = 1 .. n + 1
      /\ \A m \in 1 .. n : path'[m] = path[m]
      /\ path'[n + 1] = e
  <2>1. path' = Append(path, e)
    BY <1>2 DEF e
  <2> QED
    BY <1>6, <1>7, <2>1, AppendProperties, LenProperties
<1>9. \A m \in 0 .. n : After(P, path', m) = After(P, path, m)
  <2>1. \A m \in 0 .. n : m = 0 \/ m \in 1 .. n
    BY <1>3
  <2> QED
    BY <1>8, <2>1 DEF After
<1>10. PlaysIn(P, path', bad)
  <2> SUFFICES ASSUME NEW m \in 1 .. n + 1
               PROVE  /\ path'[m][1] \in Agreeing(P, After(P, path', m - 1).taus)
                      /\ path'[m][2] = Successor(P, After(P, path', m - 1), path'[m][1])
                      /\ path'[m][2] \in bad
    BY <1>8 DEF PlaysIn
  <2>1. m - 1 \in 0 .. n /\ (m \in 1 .. n \/ m = n + 1)
    BY <1>3
  <2>2. CASE m \in 1 .. n
    BY <1>3, <1>6, <1>8, <1>9, <2>1, <2>2 DEF PlaysIn
  <2>3. CASE m = n + 1
    <3>1. After(P, path', m - 1) = cur /\ path'[m] = e
      BY <1>3, <1>6, <1>8, <1>9, <2>1, <2>3
    <3> QED
      BY <1>5, <3>1
  <2> QED
    BY <2>1, <2>2, <2>3
<1>11. After(P, path', n + 1) = e[2]
  BY <1>3, <1>8 DEF After
<1>12. CASE seen # {}
  <2>1. /\ cycleAt' = First(seen) /\ vPhase' = "done" /\ cur' = cur
    BY <1>2, <1>12 DEF e
  <2>2. cycleAt' \in 1 .. n /\ path[cycleAt'][2] = e[2]
    <3>1. seen \subseteq Nat
      BY <1>3
    <3>2. cycleAt' \in seen
      BY <1>12, <2>1, <3>1, FirstIsMember
    <3> QED
      BY <1>3, <3>2
  <2>3. After(P, path', cycleAt') = e[2] /\ cycleAt' # 0 /\ cycleAt' < n + 1
    BY <1>3, <1>8, <2>2 DEF After
  <2>4. Refutes(P, path', cycleAt')
    BY <1>8, <1>11, <2>3 DEF Refutes
  <2> QED
    BY <1>1, <1>6, <1>10, <2>1, <2>4 DEF VerifierInv
<1>13. CASE seen = {}
  <2>1. cur' = e[2] /\ vPhase' = vPhase /\ cycleAt' = cycleAt
    BY <1>2, <1>13 DEF e
  <2> QED
    BY <1>1, <1>6, <1>8, <1>10, <1>11, <2>1 DEF VerifierInv
<1> QED
  BY <1>12, <1>13

LEMMA StepVerifier ==
  ASSUME VerifierInv, Checkable(vProblem), Verifier!Next
  PROVE  VerifierInv' /\ vProblem' = vProblem
<1>1. vProblem' = vProblem
  BY DEF Verifier!Next, Verifier!Throw, Verifier!Explore, Verifier!BuildInfo, Verifier!Shrink,
         Verifier!Decide, Verifier!WitnessDeadEnd, Verifier!Follow
<1>2. CASE Verifier!Throw
  BY <1>2 DEF Verifier!Throw, Verifier!analysis, Verifier!witness, VerifierInv
<1> QED
  BY <1>1, <1>2, ExploreVerifier, BuildInfoVerifier, ShrinkVerifier, DecideVerifier,
     DeadEndVerifier, FollowVerifier DEF Verifier!Next, Checkable

LEMMA WitnessMeans ==
  ASSUME VerifierInv, Checkable(vProblem), vPhase = "done", ~ok
  PROVE  Verifier!WitnessRefutes
<1> DEFINE state(n) == IF n = 0 THEN Verifier!Start ELSE path[n][2]
<1>1. Verifier!Start = InitialState(vProblem)
  BY VerifierVocabulary DEF Verifier!Start
<1>2. \A n : state(n) = After(vProblem, path, n)
  BY <1>1 DEF After
<1>3. PlaysIn(vProblem, path, bad) /\ Refutes(vProblem, path, cycleAt) /\ \A s \in bad : ~Accepting(s.goal)
  BY DEF VerifierInv
<1>4. \A n \in DOMAIN path :
        /\ path[n][1] \in Verifier!Agreeing(vProblem, state(n - 1).taus)
        /\ path[n][2] = Verifier!Successor(vProblem, state(n - 1), path[n][1])
        /\ ~Verifier!Accepting(path[n][2].goal)
  <2> HIDE DEF state
  <2> QED
    BY <1>2, <1>3, VerifierVocabulary DEF PlaysIn
<1>5. IF cycleAt = 0
      THEN \E i \in IFree : \A l \in Verifier!Agreeing(vProblem, state(Len(path)).taus) : l.i # i
      ELSE cycleAt < Len(path) /\ state(cycleAt) = state(Len(path))
  <2> HIDE DEF state
  <2> QED
    BY <1>2, <1>3, VerifierVocabulary DEF Refutes
<1> QED
  BY <1>4, <1>5 DEF Verifier!WitnessRefutes

LEMMA VerdictMeans ==
  ASSUME VerifierInv, Checkable(vProblem)
  PROVE  Verifier!VerdictCorrect
<1> DEFINE D == DOMAIN info
           lost == Avoids(vProblem, InitialState(vProblem), bad)
<1>1. ASSUME vPhase \in {"extract", "done"}
      PROVE  (ok => SystemWins(vProblem)) /\ (~ok => ~SystemWins(vProblem))
  <2>1. /\ Closed(vProblem, D) /\ bad \in SUBSET D /\ Trap(vProblem, bad) /\ (ok <=> ~lost)
        /\ \A Y \in SUBSET D : Trap(vProblem, Y) => Y \subseteq bad
        /\ WellFormed(vProblem)
    BY <1>1 DEF VerifierInv, Checkable
  <2> HIDE DEF D
  <2>2. ~lost => SystemWins(vProblem)
    BY <2>1, NoTrapWins
  <2>3. lost => ~SystemWins(vProblem)
    BY <2>1, TrapLoses
  <2> QED
    BY <2>1, <2>2, <2>3
<1>2. vPhase = "extract" => ~ok
  BY DEF VerifierInv
<1> QED
  BY <1>1, <1>2, WitnessMeans, VerifierVocabulary DEF Verifier!VerdictCorrect

LEMMA CheckToolInv ==
  ASSUME ToolInv, NEW who \in {"dfa-product", "mtdfa-product", "given"}, NEW tc, Check(who, tc),
         who = "given" => tc \in Controllers
  PROVE  ToolInv'
<1>1. /\ checked = "none" /\ problem \in ModelChecked /\ problem \in Problems /\ checked' = who
      /\ path = <<>> /\ cycleAt = 0 /\ problem' = problem /\ Verifier!Call(problem, tc)
  BY DEF Check, ToolInv, methodVars, vars
<1>2. vProblem' = WithTau(problem, tc)
  BY <1>1 DEF Verifier!Call, WithTau
<1>3. checked' = "given" => Checkable(vProblem')
  BY <1>1, <1>2, AddTau, ControllersAreTransducers, ControllersAnswerOnce, ProblemsWellFormed DEF Checkable
<1>4. Checkable(vProblem') => VerifierInv'
  BY <1>1, CallVerifier DEF Checkable
<1> QED
  BY <1>1, <1>3, <1>4 DEF ToolInv

\* The verifier is idle until a check starts, and then works on the controller it was
\* given, of which it knows the traps found so far.
THEOREM ToolInvariant == ToolSpec => []ToolInv
<1>1. ToolInit => ToolInv
  BY DEF ToolInit, CaseInit, Init, Verifier!Init, ToolInv
<1>2. ToolInv /\ [ToolNext]_<<methodVars, vVars>> => ToolInv'
  <2> SUFFICES ASSUME ToolInv, [ToolNext]_<<methodVars, vVars>> PROVE ToolInv'
    OBVIOUS
  <2>1. CASE Synthesize
    <3>1. problem' = problem
      BY <2>1 DEF Synthesize, RunDfa, RunMtdfa, Next, ThrowNondeterministic, Explore, FinishBuild,
                  Materialize, Solve, vars
    <3>2. UNCHANGED <<checked, vProblem, vPhase, vGraph, vWorklist, info, bad, ok, cur, path, cycleAt>>
      BY <2>1 DEF Synthesize, vVars
    <3> QED
      BY <3>1, <3>2 DEF ToolInv, VerifierInv
  <2>2. CASE SelfCheckDfa
    BY <2>2, CheckToolInv DEF SelfCheckDfa
  <2>3. CASE SelfCheckMtdfa
    BY <2>3, CheckToolInv DEF SelfCheckMtdfa
  <2>4. CASE CheckGiven
    BY <2>4, CheckToolInv DEF CheckGiven
  <2>5. CASE Verify
    <3>1. checked # "none" /\ checked' = checked /\ problem' = problem /\ Verifier!Next
      BY <2>5 DEF Verify, methodVars, vars
    <3>2. vProblem' = vProblem
      BY <3>1 DEF Verifier!Next, Verifier!Throw, Verifier!Explore, Verifier!BuildInfo, Verifier!Shrink,
                  Verifier!Decide, Verifier!WitnessDeadEnd, Verifier!Follow
    <3>3. Checkable(vProblem) => VerifierInv'
      BY <3>1, StepVerifier DEF ToolInv
    <3> QED
      BY <3>1, <3>2, <3>3 DEF ToolInv
  <2>6. CASE UNCHANGED <<methodVars, vVars>>
    BY <2>6 DEF ToolInv, VerifierInv, methodVars, vars, vVars
  <2> QED
    BY <2>1, <2>2, <2>3, <2>4, <2>5, <2>6 DEF ToolNext
<1> QED
  BY <1>1, <1>2, PTL DEF ToolSpec

\* A given controller is accepted exactly when, with its answers added to the
\* knowledge, the system is forced to win, and a rejected one comes with a play of
\* agreeing letters that never accepts and gets stuck or comes back.
THEOREM ToolVerdict == ToolSpec => []VerdictCorrect
<1>1. ToolInv => VerdictCorrect
  BY VerdictMeans DEF ToolInv, VerdictCorrect
<1> QED
  BY <1>1, ToolInvariant, PTL

-----------------------------------------------------------------------------
(* MtdfaProduct.  DfaMethods takes it under the name Mtdfa, with its own copies *)
(* of the operators it shares with the explicit method.                     *)

LEMMA MtdfaVocabulary ==
  /\ Mtdfa!Letter = Letter
  /\ Mtdfa!TrueCell = TrueCell /\ Mtdfa!FalseCell = FalseCell
  /\ \A p : Mtdfa!Vectors(p) = Vectors(p)
  /\ \A p : Mtdfa!InitialVector(p) = InitialVector(p)
  /\ \A S : Mtdfa!Cardinality(S) = Cardinality(S)
  /\ \A S : Mtdfa!Orders(S) = Orders(S)
<1>1. Mtdfa!Letter = Letter /\ Mtdfa!TrueCell = TrueCell /\ Mtdfa!FalseCell = FalseCell
  BY DEF Mtdfa!Letter, Letter, Mtdfa!TrueCell, TrueCell, Mtdfa!FalseCell, FalseCell
<1>2. \A p : Mtdfa!Vectors(p) = Vectors(p) /\ Mtdfa!InitialVector(p) = InitialVector(p)
  BY DEF Mtdfa!Vectors, Vectors, Mtdfa!InitialVector, InitialVector
<1>3. \A S : Mtdfa!Cardinality(S) = Cardinality(S)
  BY DEF Mtdfa!Cardinality, Cardinality
<1>4. \A S : Mtdfa!Orders(S) = Orders(S)
  BY <1>3 DEF Mtdfa!Orders, Orders, Mtdfa!IsInjective, IsInjective
<1> QED
  BY <1>1, <1>2, <1>3, <1>4

\* The finished agreement automaton of tau.
AgreementAutomaton(tau, aut) ==
  /\ IsFiniteSet(DOMAIN aut) /\ DOMAIN aut \subseteq tau.states /\ tau.init \in DOMAIN aut
  /\ \A q \in DOMAIN aut :
       /\ aut[q] = Mtdfa!AgreementNode(tau, q) /\ ~Mtdfa!NarrowedOverlap(tau, q)
       /\ \A e \in aut[q] : e.dst \in DOMAIN aut

\* The same during the search, when a state may still wait in the worklist w.
Searching(tau, aut, w) ==
  /\ IsFiniteSet(DOMAIN aut) /\ DOMAIN aut \subseteq tau.states /\ w \in Seq(tau.states)
  /\ tau.init \in DOMAIN aut \/ Waits(w, tau.init)
  /\ \A q \in DOMAIN aut :
       /\ aut[q] = Mtdfa!AgreementNode(tau, q)
       /\ \A e \in aut[q] : e.dst \in DOMAIN aut \/ Waits(w, e.dst)

\* Where the first matching edge of tau leads.
Target(tau, q, l) == tau.edges[q][First(Matching(tau, q, l))].dst

LEMMA EdgesType ==
  ASSUME NEW tau, IsTransducer(tau), NEW q \in tau.states
  PROVE  /\ tau.edges[q] \in Seq([guard : SUBSET Letter, dst : tau.states])
         /\ IsFiniteSet(DOMAIN tau.edges[q]) /\ DOMAIN tau.edges[q] \subseteq Nat
         /\ \A m \in DOMAIN tau.edges[q] :
              /\ tau.edges[q][m].dst \in tau.states
              /\ \A l : l \in tau.edges[q][m].guard => m \in Matching(tau, q, l)
         /\ \A l : Matching(tau, q, l) # {} => First(Matching(tau, q, l)) \in Matching(tau, q, l)
                                            /\ \A m \in Matching(tau, q, l) : First(Matching(tau, q, l)) <= m
<1> DEFINE es == tau.edges[q]
           E  == [guard : SUBSET Letter, dst : tau.states]
<1>1. es \in Seq(E)
  BY DEF IsTransducer, Transducers
<1> HIDE DEF es, E
<1>2. DOMAIN es = 1 .. Len(es) /\ Len(es) \in Nat
  BY <1>1, LenProperties
<1>3. IsFiniteSet(DOMAIN es)
  <2> DEFINE n == Len(es)
  <2>1. n \in Nat
    BY <1>2
  <2> HIDE DEF n
  <2>2. IsFiniteSet(1 .. n)
    BY <2>1, FS_Interval
  <2> QED
    BY <1>2, <2>2 DEF n
<1>4. \A m \in DOMAIN es : es[m] \in E
  BY <1>1, <1>2, ElementOfSeq
<1>5. \A l : Matching(tau, q, l) = {m \in DOMAIN es : l \in es[m].guard}
  BY DEF Matching, es
<1>6. DOMAIN es \subseteq Nat
  BY <1>2
<1>7. \A l : Matching(tau, q, l) \subseteq Nat
  BY <1>5, <1>6
<1>8. \A l : Matching(tau, q, l) # {} => First(Matching(tau, q, l)) \in Matching(tau, q, l)
                                      /\ \A m \in Matching(tau, q, l) : First(Matching(tau, q, l)) <= m
  BY <1>7, FirstIsMember
<1>9. \A m \in DOMAIN es : es[m].dst \in tau.states /\ \A l : l \in es[m].guard => m \in Matching(tau, q, l)
  BY <1>4, <1>5 DEF E
<1> QED
  BY <1>1, <1>3, <1>6, <1>8, <1>9 DEF es, E

\* The edges of one expanded state: on which letters they are followed, and where to.
EdgeOf(tau, q, l, e) ==
  l \in tau.emits[q] /\ \E m \in Matching(tau, q, l) : e.dst = tau.edges[q][m].dst

LEMMA AgreementNodeMeans ==
  ASSUME NEW tau, IsTransducer(tau), NEW q \in tau.states
  PROVE  /\ IsFiniteSet({e.dst : e \in Mtdfa!AgreementNode(tau, q)})
         /\ \A e \in Mtdfa!AgreementNode(tau, q) : e.dst \in tau.states
         /\ Mtdfa!StateIsAccepting(Mtdfa!AgreementNode(tau, q)) = TRUE
         /\ \A e \in Mtdfa!AgreementNode(tau, q) : \A l \in e.guard : EdgeOf(tau, q, l, e)
         /\ \A l \in tau.emits[q] : Matching(tau, q, l) # {} =>
              \E e \in Mtdfa!AgreementNode(tau, q) : l \in e.guard
<1> DEFINE M == DOMAIN tau.edges[q]
           G(m) == tau.edges[q][m].guard \cap tau.emits[q]
           edge(m) == [dst |-> tau.edges[q][m].dst, guard |-> G(m), mark |-> TRUE]
           Kept == {m \in M : G(m) # {}}
           es == Mtdfa!AgreementNode(tau, q)
           ds == {e.dst : e \in es}
<1>1. Mtdfa!AgreementEdges(tau, q) = {edge(m) : m \in Kept}
  BY DEF Mtdfa!AgreementEdges, Mtdfa!Narrowed
<1>2. es = IF Kept = {} THEN {[dst |-> q, guard |-> {}, mark |-> TRUE]} ELSE {edge(m) : m \in Kept}
  <2>1. {edge(m) : m \in Kept} = {} <=> Kept = {}
    OBVIOUS
  <2> QED
    BY <1>1, <2>1 DEF Mtdfa!AgreementNode, Mtdfa!Readable
<1> HIDE DEF es
<1>3. /\ \A m : edge(m).dst = tau.edges[q][m].dst /\ edge(m).guard = G(m) /\ edge(m).mark = TRUE
      /\ \A e \in es : \/ e.dst = q /\ e.guard = {} /\ e.mark = TRUE
                       \/ \E m \in Kept : e = edge(m)
      /\ \A m \in Kept : edge(m) \in es
  <2>1. \A m : edge(m).dst = tau.edges[q][m].dst /\ edge(m).guard = G(m) /\ edge(m).mark = TRUE
    OBVIOUS
  <2>2. CASE Kept = {}
    <3> DEFINE loop == [dst |-> q, guard |-> {}, mark |-> TRUE]
    <3>1. loop.dst = q /\ loop.guard = {} /\ loop.mark = TRUE
      OBVIOUS
    <3>2. es = {loop}
      BY <1>2, <2>2
    <3> HIDE DEF loop, edge
    <3> QED
      BY <2>1, <2>2, <3>1, <3>2
  <2>3. CASE Kept # {}
    <3>1. es = {edge(m) : m \in Kept}
      BY <1>2, <2>3
    <3> HIDE DEF edge, Kept
    <3> QED
      BY <2>1, <3>1
  <2> QED
    BY <2>2, <2>3
<1>4. es # {}
  BY <1>2
<1> HIDE DEF edge
<1>5. \A m \in M : tau.edges[q][m].dst \in tau.states /\ \A l : l \in tau.edges[q][m].guard => m \in Matching(tau, q, l)
  BY EdgesType
<1>6. \A l, m : m \in Matching(tau, q, l) => m \in M /\ l \in tau.edges[q][m].guard
  BY DEF Matching
<1>7. Mtdfa!StateIsAccepting(es) = TRUE
  BY <1>3, <1>4 DEF Mtdfa!StateIsAccepting
<1>8. \A e \in es : e.dst \in tau.states
  BY <1>3, <1>5
<1>9. IsFiniteSet(ds)
  <2> DEFINE T == {tau.edges[q][m].dst : m \in M}
             f0 == [m \in M |-> tau.edges[q][m].dst]
  <2>1. f0 \in Surjection(M, T)
    BY DEF Surjection
  <2>2. IsFiniteSet(M)
    BY EdgesType
  <2>3. IsFiniteSet(T)
    BY <2>1, <2>2, FS_Surjection
  <2>4. IsFiniteSet(T \cup {q})
    BY <2>3, FS_AddElement
  <2>5. ds \subseteq T \cup {q}
    BY <1>3
  <2> HIDE DEF T, ds
  <2> QED
    BY <2>4, <2>5, FS_Subset
<1>10. ASSUME NEW e \in es, NEW l \in e.guard
       PROVE  EdgeOf(tau, q, l, e)
  <2>1. PICK m \in Kept : e = edge(m)
    BY <1>3, <1>10
  <2>2. l \in G(m)
    BY <1>3, <1>10, <2>1
  <2>3. m \in Matching(tau, q, l)
    BY <1>5, <2>2
  <2> QED
    BY <1>3, <2>1, <2>2, <2>3 DEF EdgeOf
<1>11. ASSUME NEW l \in tau.emits[q], NEW m \in Matching(tau, q, l)
       PROVE  \E e \in es : l \in e.guard
  <2>1. m \in M /\ l \in G(m)
    BY <1>6, <1>11
  <2> QED
    BY <1>3, <2>1
<1> QED
  BY <1>7, <1>8, <1>9, <1>10, <1>11 DEF es

\* A letter leads on exactly when tau allows it and has an edge for it, and then to where
\* the first such edge leads; every state accepts.
LEMMA LiftedMeans ==
  ASSUME NEW tau, IsTransducer(tau), NEW aut, AgreementAutomaton(tau, aut),
         NEW q \in DOMAIN aut, NEW l
  PROVE  /\ ~(l \in tau.emits[q] /\ Matching(tau, q, l) # {}) => Mtdfa!LiftedCell(aut, q, l) = FalseCell
         /\ l \in tau.emits[q] /\ Matching(tau, q, l) # {} =>
              /\ Mtdfa!LiftedCell(aut, q, l) = Mtdfa!StateCell(Target(tau, q, l), TRUE)
              /\ Target(tau, q, l) \in DOMAIN aut
<1> DEFINE es == {e \in aut[q] : l \in e.guard}
           first == First(Matching(tau, q, l))
<1>1. q \in tau.states /\ aut[q] = Mtdfa!AgreementNode(tau, q) /\ \A e \in aut[q] : e.dst \in DOMAIN aut
  BY DEF AgreementAutomaton
<1>2. /\ \A e \in es : EdgeOf(tau, q, l, e)
      /\ l \in tau.emits[q] /\ Matching(tau, q, l) # {} => es # {}
  <2>1. /\ \A e \in aut[q] : \A x \in e.guard : EdgeOf(tau, q, x, e)
        /\ \A x \in tau.emits[q] : Matching(tau, q, x) # {} => \E e \in aut[q] : x \in e.guard
    BY <1>1, AgreementNodeMeans
  <2> QED
    BY <2>1
<1>3. ASSUME l \in tau.emits[q], NEW m \in Matching(tau, q, l)
      PROVE  m = first
  <2>1. first \in Matching(tau, q, l) /\ first <= m /\ m \in Nat /\ first \in Nat
    <3>1. Matching(tau, q, l) \subseteq DOMAIN tau.edges[q]
      BY DEF Matching
    <3> QED
      BY <1>1, <3>1, EdgesType
  <2>2. \A n \in Matching(tau, q, l) : n \in DOMAIN tau.edges[q] /\ l \in Mtdfa!Narrowed(tau, q, n)
    BY <1>3 DEF Matching, Mtdfa!Narrowed
  <2>3. ~Mtdfa!NarrowedOverlap(tau, q)
    BY DEF AgreementAutomaton
  <2>4. ~(first < m)
    BY <2>1, <2>2, <2>3 DEF Mtdfa!NarrowedOverlap
  <2> QED
    BY <2>1, <2>4
<1>4. CASE es = {}
  BY <1>2, <1>4, MtdfaVocabulary DEF Mtdfa!LiftedCell
<1>5. CASE es # {}
  <2> DEFINE e == CHOOSE x \in es : TRUE
  <2>1. e \in es
    BY <1>5
  <2>2. Mtdfa!LiftedCell(aut, q, l) = Mtdfa!StateCell(e.dst, Mtdfa!StateIsAccepting(aut[e.dst]))
    BY <1>5 DEF Mtdfa!LiftedCell
  <2> HIDE DEF e
  <2>3. l \in tau.emits[q] /\ Matching(tau, q, l) # {} /\ e.dst = Target(tau, q, l)
    BY <1>2, <1>3, <2>1 DEF Target, EdgeOf
  <2>4. e.dst \in DOMAIN aut /\ e.dst \in tau.states
    BY <1>1, <2>1 DEF AgreementAutomaton
  <2>5. Mtdfa!StateIsAccepting(aut[e.dst]) = TRUE
    BY <2>4, AgreementNodeMeans DEF AgreementAutomaton
  <2> QED
    BY <2>2, <2>3, <2>4, <2>5
<1> QED
  BY <1>4, <1>5

\* The automata finished so far are the agreement automata of the first transducers, the
\* one under construction is that of the next, and the product is taken of all of them.
MtdfaInv ==
  /\ problem \in Problems
  /\ mPhase \in {"agree", "multiply", "solve", "done"}
  /\ mPhase # "done" => mResult = "none"
  /\ agreements \in Seq({agreements[t] : t \in DOMAIN agreements})
  /\ Len(agreements) <= Len(problem.taus)
  /\ \A t \in DOMAIN agreements : AgreementAutomaton(problem.taus[t], agreements[t])
  /\ mPhase = "agree" => /\ Len(agreements) < Len(problem.taus)
                         /\ Searching(problem.taus[Len(agreements) + 1], graph, mWorklist)
  /\ mPhase \in {"multiply", "solve"} => Len(agreements) = Len(problem.taus)
  /\ mPhase = "solve" => rows = Mtdfa!Multiplied(problem, agreements)

LEMMA TausType ==
  ASSUME NEW p \in Problems
  PROVE  /\ WellFormed(p) /\ Len(p.taus) \in Nat /\ DOMAIN p.taus = 1 .. Len(p.taus) /\ Len(p.taus) > 0
         /\ \A t \in DOMAIN p.taus : IsTransducer(p.taus[t]) /\ p.taus[t].init \in p.taus[t].states
<1>1. WellFormed(p) /\ p.taus # <<>>
  BY ProblemsWellFormed, MtdfaProblems
<1>2. Len(p.taus) \in Nat /\ DOMAIN p.taus = 1 .. Len(p.taus) /\ Len(p.taus) # 0
  BY <1>1, LenProperties, EmptySeq DEF WellFormed
<1>3. \A t \in DOMAIN p.taus : IsTransducer(p.taus[t]) /\ p.taus[t].init \in p.taus[t].states
  BY <1>1 DEF WellFormed, IsTransducer, Transducers
<1> QED
  BY <1>1, <1>2, <1>3

\* A search begins with the initial state.
LEMMA SearchBegins ==
  ASSUME NEW tau, tau.init \in tau.states
  PROVE  Searching(tau, <<>>, <<tau.init>>)
<1>1. DOMAIN <<>> = {} /\ IsFiniteSet({})
  BY FS_EmptySet
<1> DEFINE s0 == tau.init
<1> HIDE DEF s0
<1>2. <<s0>> \in Seq({s0}) /\ Waits(<<s0>>, s0)
  BY DEF Waits
<1>3. <<s0>> \in Seq(tau.states)
  <2>1. {s0} \subseteq tau.states
    BY DEF s0
  <2> QED
    BY <1>2, <2>1, SeqMonotonic
<1> QED
  BY <1>1, <1>2, <1>3 DEF Searching, s0

\* An empty worklist ends it.
LEMMA SearchEnds ==
  ASSUME NEW tau, NEW aut, Searching(tau, aut, <<>>), \A q \in DOMAIN aut : ~Mtdfa!NarrowedOverlap(tau, q)
  PROVE  AgreementAutomaton(tau, aut)
<1>1. \A x : ~Waits(<<>>, x)
  BY DEF Waits
<1> QED
  BY <1>1 DEF Searching, AgreementAutomaton

LEMMA SearchStep ==
  ASSUME NEW tau, IsTransducer(tau), NEW aut, NEW w, w # <<>>, Searching(tau, aut, w),
         NEW new, new = {e.dst : e \in Mtdfa!AgreementNode(tau, Head(w))} \ (DOMAIN aut \cup Mtdfa!Range(w)),
         NEW ns \in Orders(new)
  PROVE  Searching(tau, [s \in DOMAIN aut \cup {Head(w)} |-> IF s = Head(w) THEN Mtdfa!AgreementNode(tau, Head(w)) ELSE aut[s]],
                   Tail(w) \o ns)
<1> DEFINE q  == Head(w)
           es == Mtdfa!AgreementNode(tau, q)
           v  == Tail(w) \o ns
           next == [s \in DOMAIN aut \cup {q} |-> IF s = q THEN es ELSE aut[s]]
           ds == {e.dst : e \in es}
<1>1. /\ IsFiniteSet(DOMAIN aut) /\ DOMAIN aut \subseteq tau.states /\ w \in Seq(tau.states)
      /\ tau.init \in DOMAIN aut \/ Waits(w, tau.init)
      /\ \A s \in DOMAIN aut : /\ aut[s] = Mtdfa!AgreementNode(tau, s)
                               /\ \A e \in aut[s] : e.dst \in DOMAIN aut \/ Waits(w, e.dst)
  BY DEF Searching
<1>2. q \in tau.states
  BY <1>1, HeadTailProperties
<1>3. IsFiniteSet(ds) /\ ds \subseteq tau.states
  BY <1>2, AgreementNodeMeans
<1>4. new \subseteq ds /\ \A x \in ds : x \in new \/ x \in DOMAIN aut \/ Waits(w, x)
  BY DEF Mtdfa!Range, Waits
<1> HIDE DEF ds
<1>5. IsFiniteSet(new) /\ new \subseteq tau.states
  BY <1>3, <1>4, FS_Subset
<1>6. /\ v \in Seq(tau.states \cup new)
      /\ \A x \in new : Waits(v, x)
      /\ \A x : Waits(w, x) /\ x # q => Waits(v, x)
  BY <1>1, <1>5, WorklistStep
<1>7. v \in Seq(tau.states)
  <2>1. tau.states \cup new = tau.states
    BY <1>5
  <2> QED
    BY <1>6, <2>1
<1>8. DOMAIN next = DOMAIN aut \cup {q} /\ next[q] = es /\ \A s \in DOMAIN aut : s # q => next[s] = aut[s]
  OBVIOUS
<1>9. IsFiniteSet(DOMAIN aut \cup {q})
  BY <1>1, FS_AddElement
<1>10. \A e \in es : e.dst \in ds
  BY DEF ds
<1> HIDE DEF v, next
<1>11. \A x : x \in DOMAIN aut \/ Waits(w, x) \/ x \in ds => x \in DOMAIN next \/ Waits(v, x)
  BY <1>4, <1>6, <1>8
<1>12. ASSUME NEW s \in DOMAIN next
       PROVE  /\ next[s] = Mtdfa!AgreementNode(tau, s)
              /\ \A e \in next[s] : e.dst \in DOMAIN next \/ Waits(v, e.dst)
  <2>1. CASE s = q
    BY <1>8, <1>10, <1>11, <2>1
  <2>2. CASE s # q
    <3>1. s \in DOMAIN aut /\ next[s] = aut[s]
      BY <1>8, <2>2
    <3> QED
      BY <1>1, <1>11, <3>1
  <2> QED
    BY <2>1, <2>2
<1>13. Searching(tau, next, v)
  BY <1>1, <1>2, <1>7, <1>8, <1>9, <1>11, <1>12 DEF Searching
<1> QED
  BY <1>13 DEF next, v

LEMMA InitMtdfa == CaseInit => MtdfaInv
<1> SUFFICES ASSUME CaseInit PROVE MtdfaInv
  OBVIOUS
<1>1. /\ problem \in Problems /\ mPhase = "agree" /\ graph = <<>> /\ mWorklist = <<problem.taus[1].init>>
      /\ agreements = <<>> /\ mResult = "none"
  BY DEF CaseInit, Mtdfa!Init
<1>2. /\ Len(problem.taus) \in Nat /\ Len(problem.taus) > 0 /\ 1 \in DOMAIN problem.taus
      /\ problem.taus[1].init \in problem.taus[1].states
  BY <1>1, TausType
<1>3. Searching(problem.taus[1], graph, mWorklist)
  BY <1>1, <1>2, SearchBegins
<1>4. /\ agreements \in Seq({agreements[t] : t \in DOMAIN agreements}) /\ Len(agreements) = 0
      /\ DOMAIN agreements = {}
  BY <1>1
<1> QED
  BY <1>1, <1>2, <1>3, <1>4 DEF MtdfaInv

LEMMA ExpandMtdfa == MtdfaInv /\ Mtdfa!Expand => MtdfaInv'
<1> SUFFICES ASSUME MtdfaInv, Mtdfa!Expand PROVE MtdfaInv'
  OBVIOUS
<1> DEFINE tau == problem.taus[Len(agreements) + 1]
           q   == Head(mWorklist)
           new == {e.dst : e \in Mtdfa!AgreementNode(tau, q)} \ (DOMAIN graph \cup Mtdfa!Range(mWorklist))
<1>1. /\ problem \in Problems /\ mPhase = "agree" /\ mWorklist # <<>>
      /\ Len(agreements) < Len(problem.taus) /\ Searching(tau, graph, mWorklist)
      /\ UNCHANGED <<problem, mPhase, agreements, rows, mResult>>
  BY DEF MtdfaInv, Mtdfa!Expand
<1>2. /\ graph' = [s \in DOMAIN graph \cup {q} |-> IF s = q THEN Mtdfa!AgreementNode(tau, q) ELSE graph[s]]
      /\ \E ns \in Mtdfa!Orders(new) : mWorklist' = Tail(mWorklist) \o ns
  BY DEF Mtdfa!Expand, Mtdfa!Tau, Mtdfa!Current
<1>3. IsTransducer(tau)
  <2>1. Len(agreements) \in Nat
    BY LenProperties DEF MtdfaInv
  <2>2. Len(agreements) + 1 \in DOMAIN problem.taus
    BY <1>1, <2>1, TausType
  <2> QED
    BY <1>1, <2>2, TausType
<1>4. PICK ns \in Orders(new) : mWorklist' = Tail(mWorklist) \o ns
  BY <1>2, MtdfaVocabulary
<1> HIDE DEF tau
<1>5. Searching(tau, graph', mWorklist')
  BY <1>1, <1>2, <1>3, <1>4, SearchStep
<1> QED
  BY <1>1, <1>5 DEF MtdfaInv, tau

LEMMA LiftMtdfa == MtdfaInv /\ Mtdfa!Lift => MtdfaInv'
<1> SUFFICES ASSUME MtdfaInv, Mtdfa!Lift PROVE MtdfaInv'
  OBVIOUS
<1> DEFINE k == Len(agreements)
           n == Len(problem.taus)
<1>1. /\ problem \in Problems /\ mPhase = "agree" /\ mWorklist = <<>> /\ ~Mtdfa!Refused
      /\ k < n /\ Searching(problem.taus[k + 1], graph, mWorklist) /\ mResult = "none"
      /\ \A t \in DOMAIN agreements : AgreementAutomaton(problem.taus[t], agreements[t])
      /\ agreements' = Append(agreements, graph) /\ graph' = <<>>
      /\ UNCHANGED <<problem, rows, mResult>>
  BY DEF MtdfaInv, Mtdfa!Lift
<1>2. IF Len(agreements') < Len(problem.taus)
      THEN mPhase' = mPhase /\ mWorklist' = <<problem.taus[Len(agreements') + 1].init>>
      ELSE mPhase' = "multiply" /\ UNCHANGED mWorklist
  BY DEF Mtdfa!Lift, Mtdfa!Current
<1>3. AgreementAutomaton(problem.taus[k + 1], graph)
  BY <1>1, SearchEnds DEF Mtdfa!Refused, Mtdfa!Tau, Mtdfa!Current
<1>4. k \in Nat /\ DOMAIN agreements = 1 .. k /\ agreements \in Seq({agreements[t] : t \in DOMAIN agreements})
  BY LenProperties DEF MtdfaInv
<1>5. /\ Len(agreements') = k + 1 /\ DOMAIN agreements' = 1 .. k + 1
      /\ agreements'[k + 1] = graph /\ \A t \in 1 .. k : agreements'[t] = agreements[t]
      /\ agreements' \in Seq({agreements'[t] : t \in DOMAIN agreements'})
  <2> DEFINE S == {agreements[t] : t \in DOMAIN agreements} \cup {graph}
  <2>1. agreements \in Seq(S) /\ graph \in S
    BY <1>4, SeqMonotonic
  <2> HIDE DEF S
  <2>2. /\ agreements' \in Seq(S) /\ Len(agreements') = k + 1
        /\ agreements'[k + 1] = graph /\ \A t \in 1 .. k : agreements'[t] = agreements[t]
    BY <1>1, <1>4, <2>1, AppendProperties
  <2>3. DOMAIN agreements' = 1 .. k + 1
    BY <2>2, LenProperties
  <2>4. agreements' \in [1 .. k + 1 -> {agreements'[t] : t \in DOMAIN agreements'}]
    <3>1. agreements' = [t \in 1 .. k + 1 |-> agreements'[t]]
      BY <2>2, <2>3, LenProperties
    <3> QED
      BY <2>3, <3>1
  <2>5. agreements' \in Seq({agreements'[t] : t \in DOMAIN agreements'})
    <3> DEFINE T == {agreements'[t] : t \in DOMAIN agreements'}
    <3>1. k + 1 \in Nat
      BY <1>4
    <3> HIDE DEF T, k
    <3>2. agreements' \in Seq(T)
      BY <2>4, <3>1, SeqDef DEF T
    <3> QED
      BY <3>2 DEF T
  <2> QED
    BY <2>2, <2>3, <2>5
<1>6. \A t \in DOMAIN agreements' : AgreementAutomaton(problem.taus[t], agreements'[t])
  <2>1. \A t \in 1 .. k + 1 : t = k + 1 \/ t \in 1 .. k
    BY <1>4
  <2> QED
    BY <1>1, <1>3, <1>4, <1>5, <2>1
<1>7. n \in Nat /\ \A t \in 1 .. n : problem.taus[t].init \in problem.taus[t].states
  BY <1>1, TausType
<1>8. k + 1 <= n /\ (~ (k + 1 < n) => k + 1 = n) /\ (k + 1 < n => k + 2 \in 1 .. n)
  BY <1>1, <1>4, <1>7
<1>9. CASE k + 1 < n
  <2>1. mPhase' = "agree" /\ mWorklist' = <<problem.taus[k + 1 + 1].init>>
    BY <1>1, <1>2, <1>5, <1>9
  <2>2. k + 1 + 1 = k + 2
    BY <1>4
  <2>3. Searching(problem.taus[k + 1 + 1], graph', mWorklist')
    BY <1>1, <1>7, <1>8, <1>9, <2>1, <2>2, SearchBegins
  <2>4. /\ Len(agreements') < Len(problem'.taus) /\ Len(agreements') <= Len(problem'.taus)
        /\ Searching(problem'.taus[Len(agreements') + 1], graph', mWorklist')
    BY <1>1, <1>5, <1>8, <1>9, <2>3
  <2> HIDE DEF k, n
  <2> QED
    BY <1>1, <1>5, <1>6, <2>1, <2>4 DEF MtdfaInv
<1>10. CASE ~ (k + 1 < n)
  <2>1. mPhase' = "multiply"
    BY <1>2, <1>5, <1>10
  <2> QED
    BY <1>1, <1>5, <1>6, <1>8, <1>10, <2>1 DEF MtdfaInv
<1> QED
  BY <1>9, <1>10

LEMMA RestMtdfa ==
  MtdfaInv /\ (Mtdfa!LiftRefused \/ Mtdfa!Multiply \/ Mtdfa!Solve \/ UNCHANGED <<problem, mVars>>) => MtdfaInv'
<1> SUFFICES ASSUME MtdfaInv PROVE (Mtdfa!LiftRefused \/ Mtdfa!Multiply \/ Mtdfa!Solve \/ UNCHANGED <<problem, mVars>>) => MtdfaInv'
  OBVIOUS
<1>1. Mtdfa!LiftRefused => MtdfaInv'
  BY DEF MtdfaInv, Mtdfa!LiftRefused
<1>2. Mtdfa!Multiply => MtdfaInv'
  BY DEF MtdfaInv, Mtdfa!Multiply
<1>3. Mtdfa!Solve => MtdfaInv'
  BY DEF MtdfaInv, Mtdfa!Solve
<1>4. UNCHANGED <<problem, mVars>> => MtdfaInv'
  BY DEF MtdfaInv, mVars
<1> QED
  BY <1>1, <1>2, <1>3, <1>4

-----------------------------------------------------------------------------
(* Its product, and the game on it.                                         *)

\* The agreement automata of all of p's transducers.
Knows(p, auts) ==
  DOMAIN auts = DOMAIN p.taus /\ \A t \in DOMAIN p.taus : AgreementAutomaton(p.taus[t], auts[t])

LEMMA ProductFinite ==
  ASSUME NEW p \in Problems, NEW auts, Knows(p, auts)
  PROVE  IsFiniteSet(Mtdfa!ProductStates(p, auts))
<1> DEFINE T == DOMAIN p.taus
           S == UNION {DOMAIN auts[t] : t \in T}
           G == p.formulas \cup {Mtdfa!Fulfilled}
           P == G \X [T -> S]
           D == Mtdfa!ProductStates(p, auts)
           pair == [s \in D |-> <<s.goal, s.taus>>]
<1>1. IsFiniteSet(T)
  <2> DEFINE n == Len(p.taus)
  <2>1. n \in Nat /\ T = 1 .. n
    BY TausType
  <2> HIDE DEF n
  <2> QED
    BY <2>1, FS_Interval
<1>2. IsFiniteSet(S)
  <2> DEFINE doms == [t \in T |-> DOMAIN auts[t]]
             ds == {DOMAIN auts[t] : t \in T}
  <2>1. doms \in Surjection(T, ds)
    BY DEF Surjection
  <2>2. \A x \in ds : IsFiniteSet(x)
    BY DEF Knows, AgreementAutomaton
  <2>3. IsFiniteSet(ds)
    BY <1>1, <2>1, FS_Surjection
  <2> HIDE DEF ds
  <2>4. IsFiniteSet(UNION ds)
    BY <2>2, <2>3, FS_UNION
  <2> QED
    BY <2>4 DEF ds
<1>3. IsFiniteSet(G)
  BY MtdfaProblems, FS_AddElement
<1> HIDE DEF S, G
<1>4. IsFiniteSet([T -> S])
  BY <1>1, <1>2, FunctionsFinite
<1>5. IsFiniteSet(P)
  BY <1>3, <1>4, FS_Product
<1>6. ASSUME NEW s \in D
      PROVE  /\ s.goal \in G /\ s.taus \in [T -> S]
             /\ s = [goal |-> s.goal, taus |-> s.taus]
  <2>1. /\ s.goal \in G /\ s = [goal |-> s.goal, taus |-> s.taus]
        /\ s.taus \in Vectors(p) /\ \A t \in T : s.taus[t] \in DOMAIN auts[t]
    BY MtdfaVocabulary DEF Mtdfa!ProductStates, Knows, G
  <2>2. s.taus = [t \in T |-> s.taus[t]]
    BY <2>1 DEF Vectors
  <2>3. \A t \in T : s.taus[t] \in S
    BY <2>1 DEF S
  <2> QED
    BY <2>1, <2>2, <2>3
<1> HIDE DEF D
<1>7. pair \in Injection(D, P)
  <2>1. pair \in [D -> P]
    BY <1>6
  <2>2. ASSUME NEW s \in D, NEW r \in D, pair[s] = pair[r]
        PROVE  s = r
    <3>1. <<s.goal, s.taus>> = <<r.goal, r.taus>>
      BY <2>2
    <3>2. s.goal = r.goal /\ s.taus = r.taus
      BY <3>1
    <3> QED
      BY <1>6, <3>2
  <2> HIDE DEF pair, P
  <2>3. \A x, y \in DOMAIN pair : pair[x] = pair[y] => x = y
    BY <2>1, <2>2
  <2> QED
    BY <2>1, <2>3 DEF Injection, IsInjective
<1>8. IsFiniteSet(D)
  BY <1>5, <1>7, FS_Injection
<1> QED
  BY <1>8 DEF D

\* The root that s leads to on l.
NextRoot(p, s, l) ==
  LET c == Mtdfa!GoalCell(p, s.goal, l)
  IN  [goal |-> IF c = TrueCell THEN Mtdfa!Fulfilled ELSE c.psi, taus |-> Delta(p, s.taus, l)]

\* The leaf of a product state on l: dead when the goal is violated or the knowledge does
\* not allow l; else it names the residual goal and the vector delta leads to.
LeafIs(p, s, l, cell) ==
  LET c == Mtdfa!GoalCell(p, s.goal, l)
  IN  /\ c = FalseCell \/ l \notin Agreeing(p, s.taus) => cell = FalseCell
      /\ c # FalseCell /\ l \in Agreeing(p, s.taus) =>
           /\ cell.kind = "state" /\ cell.to = NextRoot(p, s, l)
           /\ cell.acc <=> c = TrueCell \/ c.last

LEMMA ProductCellIs ==
  ASSUME NEW p \in Problems, NEW auts, Knows(p, auts), NEW s \in Mtdfa!ProductStates(p, auts), NEW l \in Letter
  PROVE  LeafIs(p, s, l, Mtdfa!ProductCell(p, auts, s, l))
<1> DEFINE T  == DOMAIN p.taus
           c  == Mtdfa!GoalCell(p, s.goal, l)
           t0 == NextRoot(p, s, l)
           ds == [t \in DOMAIN auts |-> Mtdfa!LiftedCell(auts[t], s.taus[t], l)]
           cell == Mtdfa!ProductCell(p, auts, s, l)
           Follows(t) == l \in p.taus[t].emits[s.taus[t]] /\ Matching(p.taus[t], s.taus[t], l) # {}
<1>1. cell = IF c = FalseCell \/ FalseCell \in Mtdfa!Range(ds) THEN FalseCell
             ELSE Mtdfa!StateCell([goal |-> IF c = TrueCell THEN Mtdfa!Fulfilled ELSE c.psi,
                                   taus |-> [t \in DOMAIN ds |-> ds[t].to]],
                                  (c = TrueCell \/ c.last) /\ \A t \in DOMAIN ds : ds[t].acc)
  BY MtdfaVocabulary DEF Mtdfa!ProductCell
<1>2. /\ DOMAIN ds = T /\ \A t \in T : ds[t] = Mtdfa!LiftedCell(auts[t], s.taus[t], l)
      /\ \A t \in T : IsTransducer(p.taus[t]) /\ AgreementAutomaton(p.taus[t], auts[t])
      /\ \A t \in T : s.taus[t] \in DOMAIN auts[t]
  BY TausType DEF Knows, Mtdfa!ProductStates
<1>3. /\ \A t \in T : Follows(t) \/ ds[t] = FalseCell
      /\ \A t \in T : Follows(t) => ds[t] = Mtdfa!StateCell(Target(p.taus[t], s.taus[t], l), TRUE)
  <2> SUFFICES ASSUME NEW t \in T
               PROVE  /\ ~Follows(t) => ds[t] = FalseCell
                      /\ Follows(t) => ds[t] = Mtdfa!StateCell(Target(p.taus[t], s.taus[t], l), TRUE)
    OBVIOUS
  <2> DEFINE tau == p.taus[t]
             q   == s.taus[t]
             aut == auts[t]
  <2>1. IsTransducer(tau) /\ AgreementAutomaton(tau, aut) /\ q \in DOMAIN aut /\ ds[t] = Mtdfa!LiftedCell(aut, q, l)
    BY <1>2
  <2> HIDE DEF tau, q, aut, ds
  <2>2. /\ ~(l \in tau.emits[q] /\ Matching(tau, q, l) # {}) => ds[t] = FalseCell
        /\ l \in tau.emits[q] /\ Matching(tau, q, l) # {} => ds[t] = Mtdfa!StateCell(Target(tau, q, l), TRUE)
    BY <2>1, LiftedMeans
  <2> QED
    BY <2>2 DEF tau, q
<1>4. /\ l \notin Agreeing(p, s.taus) => \E t \in T : ds[t] = FalseCell
      /\ l \in Agreeing(p, s.taus) => \A t \in T : ds[t] = Mtdfa!StateCell(Target(p.taus[t], s.taus[t], l), TRUE)
  <2>1. l \in Agreeing(p, s.taus) <=> \A t \in T : Follows(t)
    BY DEF Agreeing, Emitted, DeltaDefined
  <2> HIDE DEF ds
  <2>2. ASSUME l \notin Agreeing(p, s.taus) PROVE \E t \in T : ds[t] = FalseCell
    <3>1. PICK t \in T : ~Follows(t)
      BY <2>1, <2>2
    <3>2. ds[t] = FalseCell
      BY <1>3, <3>1
    <3> QED
      BY <3>2
  <2>3. ASSUME l \in Agreeing(p, s.taus), NEW t \in T
        PROVE  ds[t] = Mtdfa!StateCell(Target(p.taus[t], s.taus[t], l), TRUE)
    <3>1. Follows(t)
      BY <2>1, <2>3
    <3> QED
      BY <1>3, <3>1
  <2> QED
    BY <2>2, <2>3
<1>5. FalseCell \in Mtdfa!Range(ds) <=> \E t \in T : ds[t] = FalseCell
  BY <1>2 DEF Mtdfa!Range
<1> HIDE DEF ds, cell, c
<1>6. \A x : /\ Mtdfa!StateCell(x, TRUE) # FalseCell
             /\ Mtdfa!StateCell(x, TRUE).to = x /\ Mtdfa!StateCell(x, TRUE).acc = TRUE
  <2>1. FalseCell.kind # "state"
    BY DEF FalseCell
  <2>2. \A x : Mtdfa!StateCell(x, TRUE).kind = "state"
    BY DEF Mtdfa!StateCell
  <2>3. \A x : Mtdfa!StateCell(x, TRUE).to = x /\ Mtdfa!StateCell(x, TRUE).acc = TRUE
    BY DEF Mtdfa!StateCell
  <2> QED
    BY <2>1, <2>2, <2>3
<1>7. CASE c = FalseCell \/ l \notin Agreeing(p, s.taus)
  <2>1. c = FalseCell \/ FalseCell \in Mtdfa!Range(ds)
    BY <1>4, <1>5, <1>7
  <2>2. cell = FalseCell
    BY <1>1, <2>1
  <2> QED
    BY <1>7, <2>2 DEF LeafIs, cell, c
<1>8. CASE c # FalseCell /\ l \in Agreeing(p, s.taus)
  <2>1. \A t \in T : ds[t] = Mtdfa!StateCell(Target(p.taus[t], s.taus[t], l), TRUE)
    BY <1>4, <1>8
  <2>2. FalseCell \notin Mtdfa!Range(ds) /\ \A t \in T : ds[t].acc = TRUE /\ ds[t].to = Target(p.taus[t], s.taus[t], l)
    <3>1. \A t \in T : ds[t] # FalseCell /\ ds[t].acc = TRUE /\ ds[t].to = Target(p.taus[t], s.taus[t], l)
      BY <1>6, <2>1
    <3> QED
      BY <1>5, <3>1
  <2>3. [t \in DOMAIN ds |-> ds[t].to] = Delta(p, s.taus, l)
    BY <1>2, <2>2 DEF Delta, Target
  <2> DEFINE b == (c = TrueCell \/ c.last) /\ \A t \in DOMAIN ds : ds[t].acc
  <2>4. b <=> c = TrueCell \/ c.last
    BY <1>2, <2>2
  <2>5. t0 = [goal |-> IF c = TrueCell THEN Mtdfa!Fulfilled ELSE c.psi, taus |-> Delta(p, s.taus, l)]
    BY DEF NextRoot, c
  <2>6. cell = Mtdfa!StateCell(t0, b)
    BY <1>1, <1>8, <2>2, <2>3, <2>5
  <2> HIDE DEF b, t0
  <2>7. cell.kind = "state" /\ cell.to = t0 /\ cell.acc = b
    BY <2>6 DEF Mtdfa!StateCell
  <2> QED
    BY <1>8, <2>4, <2>7 DEF LeafIs, cell, c, t0
<1> QED
  BY <1>7, <1>8

LEMMA ProductCellMeans ==
  ASSUME NEW p \in Problems, NEW auts, Knows(p, auts), NEW s \in Mtdfa!ProductStates(p, auts), NEW l \in Letter, NEW W
  PROVE  LET c == Mtdfa!GoalCell(p, s.goal, l)
             t0 == [goal |-> IF c = TrueCell THEN Mtdfa!Fulfilled ELSE c.psi, taus |-> Delta(p, s.taus, l)]
         IN  Mtdfa!CellWon(Mtdfa!ProductCell(p, auts, s, l), W) <=>
               /\ c # FalseCell /\ l \in Agreeing(p, s.taus)
               /\ c = TrueCell \/ c.last \/ t0 \in W
<1> DEFINE c == Mtdfa!GoalCell(p, s.goal, l)
           cell == Mtdfa!ProductCell(p, auts, s, l)
<1> HIDE DEF c, cell
<1>1. /\ c = FalseCell \/ l \notin Agreeing(p, s.taus) => cell = FalseCell
      /\ c # FalseCell /\ l \in Agreeing(p, s.taus) =>
           /\ cell.kind = "state" /\ cell.to = NextRoot(p, s, l)
           /\ cell.acc <=> c = TrueCell \/ c.last
  BY ProductCellIs DEF LeafIs, cell, c
<1>2. Mtdfa!CellWon(cell, W) <=>
        c # FalseCell /\ l \in Agreeing(p, s.taus) /\ (c = TrueCell \/ c.last \/ NextRoot(p, s, l) \in W)
  <2>1. ~Mtdfa!CellWon(FalseCell, W)
    BY DEF Mtdfa!CellWon, FalseCell
  <2>2. cell.kind = "state" => (Mtdfa!CellWon(cell, W) <=> cell.acc \/ cell.to \in W)
    BY DEF Mtdfa!CellWon
  <2> QED
    BY <1>1, <2>1, <2>2
<1> QED
  BY <1>2 DEF NextRoot, cell, c

\* solve_mtdfa's copy of the game.
LEMMA MtdfaGame ==
  ASSUME NEW rs
  PROVE  /\ Mtdfa!Winning(rs) = Winning(rs)
         /\ \A row, W : Mtdfa!RowWon(row, W) <=> RowWon(row, W)
<1>1. Mtdfa!Winning(rs) = Winning(rs)
  BY DEF Mtdfa!Winning, Winning, Mtdfa!WonWithin, WonWithin, Mtdfa!RowWon, RowWon, Mtdfa!CellWon, CellWon,
     Mtdfa!Letter, Letter, Mtdfa!Cardinality, Cardinality
<1>2. \A row, W : Mtdfa!RowWon(row, W) <=> RowWon(row, W)
  BY DEF Mtdfa!RowWon, RowWon, Mtdfa!CellWon, CellWon, Mtdfa!Letter, Letter
<1> QED
  BY <1>1, <1>2

\* The product's states are closed under its leaves and contain the start.
LEMMA ProductStatesMean ==
  ASSUME NEW p \in Problems, NEW auts, Knows(p, auts)
  PROVE  /\ Mtdfa!Start(p) \in Mtdfa!ProductStates(p, auts)
         /\ \A s \in Mtdfa!ProductStates(p, auts) :
              /\ s.goal \in p.formulas \cup {Mtdfa!Fulfilled} /\ s.taus \in Vectors(p)
              /\ \A l \in Agreeing(p, s.taus) : \A psi \in p.formulas :
                   [goal |-> psi, taus |-> Delta(p, s.taus, l)] \in Mtdfa!ProductStates(p, auts)
<1> DEFINE T == DOMAIN p.taus
           Q == {q \in Vectors(p) : \A t \in DOMAIN auts : q[t] \in DOMAIN auts[t]}
           G == p.formulas \cup {Mtdfa!Fulfilled}
           D == Mtdfa!ProductStates(p, auts)
<1>1. D = [goal : G, taus : Q]
  BY MtdfaVocabulary DEF Mtdfa!ProductStates
<1> HIDE DEF D
<1>2. WellFormed(p) /\ \A t \in T : IsTransducer(p.taus[t]) /\ AgreementAutomaton(p.taus[t], auts[t])
  BY TausType DEF Knows
<1>3. InitialVector(p) \in Q
  <2>1. InitialVector(p) \in Vectors(p)
    BY <1>2, InitialVectorType
  <2>2. \A t \in T : InitialVector(p)[t] \in DOMAIN auts[t]
    BY <1>2 DEF InitialVector, AgreementAutomaton
  <2> QED
    BY <2>1, <2>2 DEF Knows
<1>4. ASSUME NEW q \in Q, NEW l \in Agreeing(p, q)
      PROVE  Delta(p, q, l) \in Q
  <2>1. Delta(p, q, l) \in Vectors(p)
    BY <1>2, DeltaType DEF Agreeing
  <2>2. ASSUME NEW t \in T
        PROVE  Delta(p, q, l)[t] \in DOMAIN auts[t]
    <3> DEFINE tau == p.taus[t]
               aut == auts[t]
               r   == q[t]
    <3>1. IsTransducer(tau) /\ AgreementAutomaton(tau, aut) /\ r \in DOMAIN aut
      BY <1>2 DEF Knows
    <3>2. l \in tau.emits[r] /\ Matching(tau, r, l) # {}
      BY DEF Agreeing, Emitted, DeltaDefined
    <3>3. Delta(p, q, l)[t] = Target(tau, r, l)
      BY DEF Delta, Target
    <3> HIDE DEF tau, aut, r
    <3>4. Target(tau, r, l) \in DOMAIN aut
      BY <3>1, <3>2, LiftedMeans
    <3> QED
      BY <3>3, <3>4 DEF aut
  <2> QED
    BY <2>1, <2>2 DEF Knows
<1> HIDE DEF Q
<1>5. Mtdfa!Start(p) \in D
  <2>1. p.phi \in p.formulas
    BY <1>2 DEF WellFormed
  <2>2. Mtdfa!Start(p) = [goal |-> p.phi, taus |-> InitialVector(p)]
    BY MtdfaVocabulary DEF Mtdfa!Start
  <2> QED
    BY <1>1, <1>3, <2>1, <2>2
<1>6. \A s \in D : s.goal \in G /\ s.taus \in Q
  BY <1>1
<1>7. \A q \in Q : q \in Vectors(p)
  BY DEF Q
<1>8. \A psi \in p.formulas, q \in Q : [goal |-> psi, taus |-> q] \in D
  BY <1>1
<1> QED
  BY <1>4, <1>5, <1>6, <1>7, <1>8 DEF D

\* The game on the product is the reference game.
LEMMA ProductIsGame ==
  ASSUME NEW p \in Problems, NEW auts, Knows(p, auts)
  PROVE  Mtdfa!Start(p) \in Mtdfa!Winning(Mtdfa!Multiplied(p, auts)) <=> SystemWins(p)
<1> DEFINE D  == Mtdfa!ProductStates(p, auts)
           rs == Mtdfa!Multiplied(p, auts)
           A  == Mtdfa!Winning(rs)
           Pos(s) == <<s.goal, s.taus>>
           start == Mtdfa!Start(p)
           To(s, l) == [goal |-> p.progress[s.goal][l].psi, taus |-> Delta(p, s.taus, l)]
<1>1. /\ WellFormed(p) /\ IsFiniteSet(D) /\ start \in D
      /\ \A s \in D : s.goal \in p.formulas \cup {Mtdfa!Fulfilled} /\ s.taus \in Vectors(p)
      /\ Mtdfa!Fulfilled \notin p.formulas
  BY TausType, ProductFinite, ProductStatesMean, MtdfaProblems
<1>2. start = [goal |-> p.phi, taus |-> InitialVector(p)] /\ p.phi \in p.formulas
  BY <1>1, MtdfaVocabulary DEF Mtdfa!Start, WellFormed
<1>3. DOMAIN rs = D /\ \A s \in D : \A l \in Letter : rs[s][l] = Mtdfa!ProductCell(p, auts, s, l)
  BY MtdfaVocabulary DEF Mtdfa!Multiplied
<1>4. ASSUME NEW s \in D, s.goal \in p.formulas, NEW l \in Letter, NEW W
      PROVE  Mtdfa!CellWon(rs[s][l], W) <=>
               /\ l \in Agreeing(p, s.taus)
               /\ \/ p.progress[s.goal][l] = TrueCell /\ (TRUE \/ To(s, l) \in W)
                  \/ p.progress[s.goal][l].kind = "next" /\ (p.progress[s.goal][l].last = TRUE \/ To(s, l) \in W)
  <2> DEFINE c  == p.progress[s.goal][l]
             t0 == [goal |-> IF c = TrueCell THEN Mtdfa!Fulfilled ELSE c.psi, taus |-> Delta(p, s.taus, l)]
  <2>1. Mtdfa!GoalCell(p, s.goal, l) = c
    BY <1>1, <1>4, MtdfaVocabulary DEF Mtdfa!GoalCell
  <2>2. Mtdfa!CellWon(rs[s][l], W) <=>
          c # FalseCell /\ l \in Agreeing(p, s.taus) /\ (c = TrueCell \/ c.last \/ t0 \in W)
    BY <1>3, <2>1, ProductCellMeans
  <2>3. c \in Cells(p.formulas)
    BY <1>1, <1>4 DEF WellFormed
  <2>4. CASE c.kind = "next"
    <3>1. c # FalseCell /\ c # TrueCell /\ c.last \in BOOLEAN
      BY <1>1, <1>4, <2>4, NextFormula DEF FalseCell, TrueCell
    <3>2. t0 = To(s, l)
      BY <3>1
    <3> HIDE DEF c, t0, To
    <3> QED
      BY <2>2, <2>4, <3>1, <3>2 DEF c
  <2>5. CASE c.kind # "next"
    <3>1. c \in {FalseCell, TrueCell} /\ FalseCell # TrueCell
      <4>1. FalseCell.kind # TrueCell.kind
        BY DEF FalseCell, TrueCell
      <4> QED
        BY <1>1, <1>4, <2>5, <4>1, CellKind
    <3> HIDE DEF c, t0, To
    <3> QED
      BY <2>2, <2>5, <3>1 DEF c
  <2> QED
    BY <2>4, <2>5
<1>5. \A s, W : Mtdfa!RowWon(rs[s], W) <=> \A i \in IFree : \E l \in Letter : l.i = i /\ Mtdfa!CellWon(rs[s][l], W)
  BY MtdfaVocabulary DEF Mtdfa!RowWon
<1>6. /\ A \subseteq D /\ \A s \in D : Mtdfa!RowWon(rs[s], A) => s \in A
      /\ \A V \in SUBSET D : (\A s \in D : Mtdfa!RowWon(rs[s], V) => s \in V) => A \subseteq V
  BY <1>1, <1>3, MtdfaGame, WinningIsLeast
<1> HIDE DEF A, rs, D
<1>7. ASSUME NEW s \in D, s.goal \in p.formulas
      PROVE  /\ Pos(s) \in Positions(p)
             /\ \A i : Stops(p, Pos(s), i) <=>
                  \E l \in Agreeing(p, s.taus) :
                    /\ l.i = i
                    /\ \/ p.progress[s.goal][l] = TrueCell
                       \/ p.progress[s.goal][l].kind = "next" /\ p.progress[s.goal][l].last = TRUE
             /\ \A i, r : r \in Moves(p, Pos(s), i) <=>
                  \E l \in Agreeing(p, s.taus) :
                    /\ l.i = i /\ p.progress[s.goal][l].kind = "next"
                    /\ r = <<p.progress[s.goal][l].psi, Delta(p, s.taus, l)>>
  <2> DEFINE psi == s.goal
             q == s.taus
  <2>1. WellFormed(p) /\ psi \in p.formulas /\ q \in Vectors(p)
    BY <1>1, <1>7
  <2> HIDE DEF psi, q
  <2>2. /\ <<psi, q>> \in Positions(p)
        /\ \A i : Stops(p, <<psi, q>>, i) <=>
             \E l \in Agreeing(p, q) :
               /\ l.i = i
               /\ \/ p.progress[psi][l] = TrueCell
                  \/ p.progress[psi][l].kind = "next" /\ p.progress[psi][l].last = TRUE
        /\ \A i, r : r \in Moves(p, <<psi, q>>, i) <=>
             \E l \in Agreeing(p, q) :
               l.i = i /\ p.progress[psi][l].kind = "next" /\ r = <<p.progress[psi][l].psi, Delta(p, q, l)>>
    BY <2>1, PositionMeans
  <2> QED
    BY <2>2 DEF psi, q
<1>8. Agreeing(p, InitialVector(p)) \subseteq Letter /\ \A q : Agreeing(p, q) \subseteq Letter
  BY DEF Agreeing, Emitted
<1>9. ASSUME start \in A PROVE SystemWins(p)
  <2> SUFFICES ASSUME NEW W \in SUBSET Positions(p), \A x \in Positions(p) : Forces(p, x, W) => x \in W
               PROVE  InitialPosition(p) \in W
    BY SystemWinsMeans
  <2> DEFINE V == {s \in D : s.goal = Mtdfa!Fulfilled \/ Pos(s) \in W}
  <2>1. ASSUME NEW s \in D, Mtdfa!RowWon(rs[s], V)
        PROVE  s \in V
    <3>1. CASE s.goal = Mtdfa!Fulfilled
      BY <3>1
    <3>2. CASE s.goal # Mtdfa!Fulfilled
      <4>1. s.goal \in p.formulas
        BY <1>1, <3>2
      <4>2. ASSUME NEW i \in IFree
            PROVE  Stops(p, Pos(s), i) \/ \E r \in W : r \in Moves(p, Pos(s), i)
        <5>1. PICK l \in Letter : l.i = i /\ Mtdfa!CellWon(rs[s][l], V)
          <6> HIDE DEF V
          <6> QED
            BY <1>5, <2>1
        <5>2. /\ l \in Agreeing(p, s.taus)
              /\ \/ p.progress[s.goal][l] = TrueCell
                 \/ p.progress[s.goal][l].kind = "next" /\ (p.progress[s.goal][l].last = TRUE \/ To(s, l) \in V)
          <6> HIDE DEF V, To
          <6> QED
            BY <1>4, <4>1, <5>1
        <5>3. CASE p.progress[s.goal][l] = TrueCell \/ (p.progress[s.goal][l].kind = "next" /\ p.progress[s.goal][l].last = TRUE)
          BY <1>7, <4>1, <5>1, <5>2, <5>3
        <5>4. CASE p.progress[s.goal][l].kind = "next" /\ To(s, l) \in V
          <6>1. p.progress[s.goal][l].psi \in p.formulas
            BY <1>1, <4>1, <5>4, NextFormula
          <6>2. To(s, l).goal = p.progress[s.goal][l].psi /\ To(s, l).taus = Delta(p, s.taus, l)
            OBVIOUS
          <6>3. Pos(To(s, l)) \in W
            <7> HIDE DEF Pos, To
            <7> QED
              BY <1>1, <5>4, <6>1, <6>2
          <6>4. Pos(To(s, l)) = <<p.progress[s.goal][l].psi, Delta(p, s.taus, l)>>
            BY <6>2
          <6>5. Pos(To(s, l)) \in Moves(p, Pos(s), i)
            <7> HIDE DEF Pos, To
            <7> QED
              BY <1>7, <4>1, <5>1, <5>2, <5>4, <6>4
          <6> QED
            BY <6>3, <6>5
        <5> QED
          BY <5>2, <5>3, <5>4
      <4>3. Forces(p, Pos(s), W)
        BY <4>2 DEF Forces
      <4> QED
        BY <1>7, <4>1, <4>3
    <3> QED
      BY <3>1, <3>2
  <2>2. A \subseteq V
    <3>1. V \in SUBSET D
      OBVIOUS
    <3> HIDE DEF V
    <3> QED
      BY <1>6, <2>1, <3>1
  <2>3. start.goal # Mtdfa!Fulfilled /\ Pos(start) = InitialPosition(p)
    BY <1>1, <1>2 DEF InitialPosition
  <2> QED
    BY <1>9, <2>2, <2>3
<1>10. ASSUME SystemWins(p) PROVE start \in A
  <2> DEFINE W == {x \in Positions(p) : \A s \in D : s.goal \in p.formulas /\ Pos(s) = x => s \in A}
  <2>1. ASSUME NEW s \in D, s.goal \in p.formulas, Forces(p, Pos(s), W)
        PROVE  s \in A
    <3>0. /\ \A i : Stops(p, Pos(s), i) <=>
               \E l \in Agreeing(p, s.taus) :
                 /\ l.i = i
                 /\ \/ p.progress[s.goal][l] = TrueCell
                    \/ p.progress[s.goal][l].kind = "next" /\ p.progress[s.goal][l].last = TRUE
          /\ \A i, r : r \in Moves(p, Pos(s), i) <=>
               \E l \in Agreeing(p, s.taus) :
                 /\ l.i = i /\ p.progress[s.goal][l].kind = "next"
                 /\ r = <<p.progress[s.goal][l].psi, Delta(p, s.taus, l)>>
      BY <1>7, <2>1
    <3>1. ASSUME NEW i \in IFree
          PROVE  \E l \in Letter : l.i = i /\ Mtdfa!CellWon(rs[s][l], A)
      <4>1. CASE Stops(p, Pos(s), i)
        <5>1. PICK l \in Agreeing(p, s.taus) :
                /\ l.i = i
                /\ \/ p.progress[s.goal][l] = TrueCell
                   \/ p.progress[s.goal][l].kind = "next" /\ p.progress[s.goal][l].last = TRUE
          <6> HIDE DEF Pos, To, W
          <6> QED
            BY <3>0, <4>1
        <5> QED
          BY <1>4, <1>8, <2>1, <5>1
      <4>2. CASE \E r \in W : r \in Moves(p, Pos(s), i)
        <5>1. PICK r \in W : r \in Moves(p, Pos(s), i)
          BY <4>2
        <5>2. PICK l \in Agreeing(p, s.taus) :
                /\ l.i = i /\ p.progress[s.goal][l].kind = "next"
                /\ r = <<p.progress[s.goal][l].psi, Delta(p, s.taus, l)>>
          <6> HIDE DEF Pos, To, W
          <6> QED
            BY <3>0, <5>1
        <5>3. l \in Letter /\ p.progress[s.goal][l].psi \in p.formulas
          BY <1>1, <1>8, <2>1, <5>2, NextFormula
        <5>4. To(s, l) \in D
          BY <5>2, <5>3, ProductStatesMean DEF D
        <5>5. To(s, l).goal \in p.formulas /\ Pos(To(s, l)) = r
          BY <5>2, <5>3
        <5>6. To(s, l) \in A
          <6> HIDE DEF Pos, To
          <6> QED
            BY <5>1, <5>4, <5>5
        <5> QED
          BY <1>4, <2>1, <5>2, <5>3, <5>6
      <4> QED
        BY <2>1, <4>1, <4>2 DEF Forces
    <3>2. Mtdfa!RowWon(rs[s], A)
      BY <1>5, <3>1
    <3> QED
      BY <1>6, <3>2
  <2>2. InitialPosition(p) \in W
    <3>1. ASSUME NEW x \in Positions(p), Forces(p, x, W)
          PROVE  x \in W
      <4> SUFFICES ASSUME NEW s \in D, s.goal \in p.formulas, Pos(s) = x PROVE s \in A
        OBVIOUS
      <4> HIDE DEF Pos, W
      <4>1. Forces(p, Pos(s), W)
        BY <3>1
      <4> QED
        BY <2>1, <4>1
    <3>2. W \in SUBSET Positions(p)
      OBVIOUS
    <3> HIDE DEF W
    <3> QED
      BY <1>10, <3>1, <3>2, SystemWinsMeans
  <2>3. start.goal \in p.formulas /\ Pos(start) = InitialPosition(p)
    BY <1>2 DEF InitialPosition
  <2> QED
    BY <1>1, <2>2, <2>3
<1> QED
  BY <1>9, <1>10 DEF A, rs

-----------------------------------------------------------------------------
(* It answers as the contract says.                                         *)

LEMMA MtdfaContractGame ==
  ASSUME NEW p
  PROVE  Mtdfa!Contract!SystemWins(p) = SystemWins(p)
BY DEF SystemWins, Positions, Vectors, Stops, Moves, Agreeing, Emitted, DeltaDefined, Matching,
   Delta, First, InitialPosition, InitialVector, TrueCell, NextCell, Letter,
   Mtdfa!Contract!SystemWins, Mtdfa!Contract!Positions, Mtdfa!Contract!Vectors, Mtdfa!Contract!Stops,
   Mtdfa!Contract!Moves, Mtdfa!Contract!Agreeing, Mtdfa!Contract!Emitted, Mtdfa!Contract!DeltaDefined,
   Mtdfa!Contract!Matching, Mtdfa!Contract!Delta, Mtdfa!Contract!First, Mtdfa!Contract!InitialPosition,
   Mtdfa!Contract!InitialVector, Mtdfa!Contract!TrueCell, Mtdfa!Contract!NextCell, Mtdfa!Contract!Letter

LEMMA MtdfaContractInput ==
  ASSUME NEW p
  PROVE  Mtdfa!Contract!WellFormed(p) = WellFormed(p)
BY DEF WellFormed, IsTransducer, Transducers, Cells, FalseCell, TrueCell, NextCell, Letter,
   Mtdfa!Contract!WellFormed, Mtdfa!Contract!IsTransducer, Mtdfa!Contract!Transducers,
   Mtdfa!Contract!Cells, Mtdfa!Contract!FalseCell, Mtdfa!Contract!TrueCell, Mtdfa!Contract!NextCell,
   Mtdfa!Contract!Letter

LEMMA MtdfaContractAnswers ==
  ASSUME NEW p
  PROVE  /\ SystemWins(p) => "controller" \in Mtdfa!Contract!Answers(p)
         /\ ~SystemWins(p) => "unrealizable" \in Mtdfa!Contract!Answers(p)
         /\ \A t \in DOMAIN p.taus : \A s \in p.taus[t].states :
              Overlap(p.taus[t], s) => "runtime_error" \in Mtdfa!Contract!Answers(p)
<1>1. Mtdfa!Contract!SystemWins(p) = SystemWins(p)
  BY MtdfaContractGame
<1>2. \A tau, s : Mtdfa!Contract!Overlap(tau, s) = Overlap(tau, s)
  BY DEF Overlap, Mtdfa!Contract!Overlap
<1> QED
  BY <1>1, <1>2 DEF Mtdfa!Contract!Answers

\* Edges that overlap after narrowing overlap before: the lift refuses no transducer
\* that the contract does not let it refuse.
LEMMA LiftRefusedAnswers == MtdfaInv /\ Mtdfa!LiftRefused => Mtdfa!Contract!Answer
<1> SUFFICES ASSUME MtdfaInv, Mtdfa!LiftRefused PROVE Mtdfa!Contract!Answer
  OBVIOUS
<1> DEFINE t == Len(agreements) + 1
<1>1. /\ problem \in Problems /\ mPhase = "agree" /\ mResult = "none" /\ Mtdfa!Refused
      /\ Len(agreements) < Len(problem.taus) /\ DOMAIN graph \subseteq problem.taus[t].states
      /\ mResult' = "runtime_error" /\ problem' = problem
  BY DEF MtdfaInv, Searching, Mtdfa!LiftRefused
<1>2. t \in DOMAIN problem.taus
  <2>1. Len(agreements) \in Nat
    BY LenProperties DEF MtdfaInv
  <2> QED
    BY <1>1, <2>1, TausType
<1>3. PICK q \in DOMAIN graph : Mtdfa!NarrowedOverlap(problem.taus[t], q)
  BY <1>1 DEF Mtdfa!Refused, Mtdfa!Tau, Mtdfa!Current
<1>4. Overlap(problem.taus[t], q)
  BY <1>3 DEF Overlap, Mtdfa!NarrowedOverlap, Mtdfa!Narrowed
<1> HIDE DEF t
<1>5. "runtime_error" \in Mtdfa!Contract!Answers(problem)
  BY <1>1, <1>2, <1>3, <1>4, MtdfaContractAnswers
<1> QED
  BY <1>1, <1>5 DEF Mtdfa!Contract!Answer

LEMMA SolveMtdfaAnswers == MtdfaInv /\ Mtdfa!Solve => Mtdfa!Contract!Answer
<1> SUFFICES ASSUME MtdfaInv, Mtdfa!Solve PROVE Mtdfa!Contract!Answer
  OBVIOUS
<1>1. /\ problem \in Problems /\ mPhase = "solve" /\ mResult = "none" /\ problem' = problem
      /\ Len(agreements) = Len(problem.taus) /\ rows = Mtdfa!Multiplied(problem, agreements)
      /\ \A t \in DOMAIN agreements : AgreementAutomaton(problem.taus[t], agreements[t])
      /\ mResult' = IF Mtdfa!Start(problem) \in Mtdfa!Winning(rows) THEN "controller" ELSE "unrealizable"
  BY DEF MtdfaInv, Mtdfa!Solve
<1>2. DOMAIN agreements = DOMAIN problem.taus
  <2>1. DOMAIN agreements = 1 .. Len(agreements)
    BY LenProperties DEF MtdfaInv
  <2> QED
    BY <1>1, <2>1, TausType
<1>3. Knows(problem, agreements)
  BY <1>1, <1>2 DEF Knows
<1>4. Mtdfa!Start(problem) \in Mtdfa!Winning(rows) <=> SystemWins(problem)
  BY <1>1, <1>3, ProductIsGame
<1>5. mResult' \in Mtdfa!Contract!Answers(problem) /\ mResult' # "none"
  BY <1>1, <1>4, MtdfaContractAnswers
<1> QED
  BY <1>1, <1>5 DEF Mtdfa!Contract!Answer

\* What a step of the tool means to Method 3: a step of its own, or none.
LEMMA ToolMtdfaStep ==
  [ToolNext]_<<methodVars, vVars>> => Mtdfa!Next \/ UNCHANGED <<problem, mVars>>
<1> SUFFICES ASSUME [ToolNext]_<<methodVars, vVars>>, ~Mtdfa!Next PROVE UNCHANGED <<problem, mVars>>
  OBVIOUS
<1>1. RunDfa => UNCHANGED <<problem, mVars>>
  BY DEF RunDfa, Next, ThrowNondeterministic, Explore, FinishBuild, Materialize, Solve
<1>2. UNCHANGED methodVars => UNCHANGED <<problem, mVars>>
  BY DEF methodVars, vars
<1>3. ToolNext => RunDfa \/ RunMtdfa \/ UNCHANGED methodVars
  BY DEF ToolNext, Synthesize, SelfCheckDfa, SelfCheckMtdfa, CheckGiven, Check, Verify
<1> QED
  BY <1>1, <1>2, <1>3 DEF RunMtdfa

\* Every automaton Method 3 finishes is the agreement automaton of its transducer, and
\* the rows it solves are their product with the goal.
THEOREM MtdfaInvariant == ToolSpec => []MtdfaInv
<1>1. ToolInit => MtdfaInv
  BY InitMtdfa DEF ToolInit
<1>2. MtdfaInv /\ [ToolNext]_<<methodVars, vVars>> => MtdfaInv'
  BY ToolMtdfaStep, ExpandMtdfa, LiftMtdfa, RestMtdfa DEF Mtdfa!Next
<1> QED
  BY <1>1, <1>2, PTL DEF ToolSpec

\* Method 3 answers once, and with a controller exactly when the system wins the reference
\* game; so wherever neither throws it agrees with the explicit product.
THEOREM MtdfaMeetsContract == ToolSpec => MtdfaImplementsContract
<1>1. ToolInit => Mtdfa!Contract!Init
  BY ProblemsWellFormed, MtdfaContractInput DEF ToolInit, CaseInit, Mtdfa!Init, Mtdfa!Contract!Init
<1>2. MtdfaInv /\ [ToolNext]_<<methodVars, vVars>> => [Mtdfa!Contract!Answer]_<<problem, mResult>>
  <2>1. Mtdfa!Expand \/ Mtdfa!Lift \/ Mtdfa!Multiply \/ UNCHANGED <<problem, mVars>> => UNCHANGED <<problem, mResult>>
    BY DEF Mtdfa!Expand, Mtdfa!Lift, Mtdfa!Multiply, mVars
  <2> QED
    BY <2>1, ToolMtdfaStep, LiftRefusedAnswers, SolveMtdfaAnswers DEF Mtdfa!Next
<1> QED
  BY <1>1, <1>2, MtdfaInvariant, PTL DEF ToolSpec, MtdfaImplementsContract, Mtdfa!ImplementsContract, Mtdfa!Contract!Spec

-----------------------------------------------------------------------------
(* What the agreement automata accept together.                             *)

\* The leaves of a lifted agreement automaton, and the one a letter leads to.
Leaves(aut) == {FalseCell} \cup {Mtdfa!StateCell(q, TRUE) : q \in DOMAIN aut}
NextLeaf(aut, c, l) == IF c = FalseCell THEN c ELSE Mtdfa!LiftedCell(aut, c.to, l)

LEMMA LeafOf ==
  /\ \A x : /\ Mtdfa!StateCell(x, TRUE) # FalseCell
            /\ Mtdfa!StateCell(x, TRUE).to = x /\ Mtdfa!StateCell(x, TRUE).acc = TRUE
<1>1. FalseCell.kind # "state"
  BY DEF FalseCell
<1>2. \A x : Mtdfa!StateCell(x, TRUE).kind = "state"
  BY DEF Mtdfa!StateCell
<1>3. \A x : Mtdfa!StateCell(x, TRUE).to = x /\ Mtdfa!StateCell(x, TRUE).acc = TRUE
  BY DEF Mtdfa!StateCell
<1> QED
  BY <1>1, <1>2, <1>3

LEMMA LeafType ==
  ASSUME NEW tau, IsTransducer(tau), NEW aut, AgreementAutomaton(tau, aut), NEW c \in Leaves(aut), NEW l
  PROVE  NextLeaf(aut, c, l) \in Leaves(aut)
<1>1. CASE c = FalseCell
  BY <1>1 DEF NextLeaf, Leaves
<1>2. CASE c # FalseCell
  <2>1. PICK q \in DOMAIN aut : c = Mtdfa!StateCell(q, TRUE)
    BY <1>2 DEF Leaves
  <2>2. NextLeaf(aut, c, l) = Mtdfa!LiftedCell(aut, q, l)
    BY <1>2, <2>1, LeafOf DEF NextLeaf
  <2>3. \/ Mtdfa!LiftedCell(aut, q, l) = FalseCell
        \/ Mtdfa!LiftedCell(aut, q, l) = Mtdfa!StateCell(Target(tau, q, l), TRUE) /\ Target(tau, q, l) \in DOMAIN aut
    BY LiftedMeans
  <2> QED
    BY <2>2, <2>3 DEF Leaves
<1> QED
  BY <1>1, <1>2

\* The leaves c that the prefixes of w lead to.
LeafRun(tau, aut, n, w, c) ==
  /\ c \in [0 .. n -> Leaves(aut)] /\ c[0] = Mtdfa!StateCell(tau.init, TRUE)
  /\ \A k \in 1 .. n : c[k] = NextLeaf(aut, c[k - 1], w[k])

LEMMA ReadsMeans ==
  ASSUME NEW tau, IsTransducer(tau), NEW aut, AgreementAutomaton(tau, aut),
         NEW n \in Nat, NEW w \in [1 .. n -> Letter]
  PROVE  \E c : LeafRun(tau, aut, n, w, c) /\ (Mtdfa!Accepts(aut, tau.init, w) <=> c[n] # FalseCell)
<1> DEFINE U == Leaves(aut)
           A == Mtdfa!StateCell(tau.init, TRUE)
           N(c, l) == NextLeaf(aut, c, l)
           step == [m \in 1 .. n |-> [c \in U |-> N(c, w[m])]]
           Solves(f) == f = [m \in 0 .. n |-> IF m = 0 THEN A ELSE N(f[m - 1], w[m])]
           leaf == CHOOSE f : Solves(f)
<1>1. A \in U
  BY DEF Leaves, AgreementAutomaton
<1>2. \A c \in U : \A l : N(c, l) \in U
  BY LeafType
<1>3. Len(w) = n
  BY LenProperties
<1>4. Mtdfa!Reads(aut, tau.init, w) = leaf[n]
  BY <1>3, MtdfaVocabulary DEF Mtdfa!Reads, NextLeaf
<1>5. \A c \in U : c # FalseCell => c.acc = TRUE
  BY LeafOf DEF Leaves
<1> HIDE DEF U, A, N
<1>6. \A m \in 1 .. n : \A c \in U : step[m][c] = N(c, w[m])
  OBVIOUS
<1>7. A \in U /\ step \in [1 .. n -> [U -> U]]
  BY <1>1, <1>2
<1> HIDE DEF step
<1>8. PICK f : f \in Runs(U, A, step, n)
  BY <1>7, RunExists
<1>9. f \in [0 .. n -> U] /\ f[0] = A /\ \A m \in 1 .. n : f[m] = step[m][f[m - 1]]
  BY <1>8 DEF Runs
<1>10. \A m \in 1 .. n : f[m] = N(f[m - 1], w[m])
  <2> SUFFICES ASSUME NEW m \in 1 .. n PROVE f[m] = N(f[m - 1], w[m])
    OBVIOUS
  <2>1. m - 1 \in 0 .. n
    OBVIOUS
  <2> QED
    BY <1>6, <1>9, <2>1
<1>11. \A m \in 0 .. n : m = 0 \/ m \in 1 .. n
  OBVIOUS
<1>12. Solves(f)
  BY <1>9, <1>10, <1>11
<1>13. Solves(leaf)
  BY <1>12
<1> HIDE DEF leaf
<1>14. leaf[0] = A /\ \A m \in 1 .. n : leaf[m] = N(leaf[m - 1], w[m])
  <2>1. 0 \in 0 .. n /\ \A m \in 1 .. n : m \in 0 .. n /\ m # 0
    OBVIOUS
  <2>2. leaf = [m \in 0 .. n |-> IF m = 0 THEN A ELSE N(leaf[m - 1], w[m])]
    BY <1>13
  <2> HIDE DEF Solves
  <2> QED
    BY <2>1, <2>2
<1>15. leaf \in [0 .. n -> U]
  <2> DEFINE S == {k \in Nat : k <= n => leaf[k] \in U}
  <2>1. 0 \in S
    BY <1>7, <1>14
  <2>2. ASSUME NEW k \in Nat, k \in S PROVE k + 1 \in S
    <3> SUFFICES ASSUME k + 1 <= n PROVE leaf[k + 1] \in U
      OBVIOUS
    <3>1. leaf[k + 1] = N(leaf[k], w[k + 1]) /\ leaf[k] \in U
      <4>1. k + 1 \in 1 .. n /\ (k + 1) - 1 = k
        OBVIOUS
      <4> QED
        BY <1>14, <2>2, <4>1
    <3> QED
      BY <1>2, <3>1
  <2>3. Nat \subseteq S
    <3> HIDE DEF S
    <3> QED
      BY <2>1, <2>2, SetInduction
  <2>4. \A k \in 0 .. n : leaf[k] \in U
    BY <2>3
  <2>5. DOMAIN leaf = 0 .. n /\ leaf = [m \in 0 .. n |-> leaf[m]]
    BY <1>13
  <2> QED
    BY <2>4, <2>5
<1>16. LeafRun(tau, aut, n, w, leaf)
  BY <1>14, <1>15 DEF LeafRun, U, A, N
<1>17. Mtdfa!Accepts(aut, tau.init, w) <=> leaf[n] # FalseCell
  <2>1. leaf[n] \in U
    BY <1>15
  <2> QED
    BY <1>4, <1>5, <2>1, MtdfaVocabulary DEF Mtdfa!Accepts
<1> QED
  BY <1>16, <1>17

LEMMA MtdfaDelta ==
  \A p, q, l : /\ Mtdfa!Delta(p, q, l) = Delta(p, q, l)
               /\ l \in Mtdfa!Agreeing(p, q) <=> l \in Agreeing(p, q)
<1>1. \A S : Mtdfa!First(S) = First(S)
  BY DEF Mtdfa!First, First
<1>2. \A tau, x, l : Mtdfa!Matching(tau, x, l) = Matching(tau, x, l)
  BY DEF Mtdfa!Matching, Matching
<1>3. \A p, q, l : Mtdfa!Delta(p, q, l) = Delta(p, q, l)
  BY <1>1, <1>2 DEF Mtdfa!Delta, Delta
<1>4. \A p, q, l : Mtdfa!DeltaDefined(p, q, l) <=> DeltaDefined(p, q, l)
  BY <1>2 DEF Mtdfa!DeltaDefined, DeltaDefined
<1>5. \A p, q : Mtdfa!Emitted(p, q) = Emitted(p, q)
  BY MtdfaVocabulary DEF Mtdfa!Emitted, Emitted
<1>6. \A p, q, l : l \in Mtdfa!Agreeing(p, q) <=> l \in Agreeing(p, q)
  BY <1>4, <1>5 DEF Mtdfa!Agreeing, Agreeing
<1> QED
  BY <1>3, <1>6

\* The vectors that the prefixes of w lead to: one, or none.
NextVectors(p, V, l) == {Mtdfa!Delta(p, q, l) : q \in {r \in V : l \in Mtdfa!Agreeing(p, r)}}

VectorRun(p, n, w, d) ==
  d[0] = {InitialVector(p)} /\ \A k \in 1 .. n : d[k] = NextVectors(p, d[k - 1], w[k])

LEMMA ConsistentMeans ==
  ASSUME WellFormed(problem), NEW n \in Nat, NEW w \in [1 .. n -> Letter]
  PROVE  \E d : VectorRun(problem, n, w, d) /\ (Mtdfa!Consistent(w) <=> d[n] # {})
<1> DEFINE U == SUBSET Vectors(problem)
           A == {Mtdfa!InitialVector(problem)}
           N(V, l) == NextVectors(problem, V, l)
           step == [m \in 1 .. n |-> [V \in U |-> N(V, w[m])]]
           Solves(f) == f = [m \in 0 .. n |-> IF m = 0 THEN A ELSE N(f[m - 1], w[m])]
           led == CHOOSE f : Solves(f)
<1>1. A \in U
  BY InitialVectorType, MtdfaVocabulary
<1>2. \A V \in U : \A l : N(V, l) \in U
  <2> SUFFICES ASSUME NEW V \in U, NEW l, NEW q \in V, l \in Agreeing(problem, q)
               PROVE  Delta(problem, q, l) \in Vectors(problem)
    BY MtdfaDelta DEF NextVectors
  <2> QED
    BY DeltaType DEF Agreeing
<1>3. Len(w) = n
  BY LenProperties
<1>4. Mtdfa!Consistent(w) <=> led[n] # {}
  BY <1>3 DEF Mtdfa!Consistent, NextVectors
<1> HIDE DEF U, A, N
<1>5. A \in U /\ step \in [1 .. n -> [U -> U]]
  BY <1>1, <1>2
<1>6. \A m \in 1 .. n : \A V \in U : step[m][V] = N(V, w[m])
  OBVIOUS
<1> HIDE DEF step
<1>7. PICK f : f \in Runs(U, A, step, n)
  BY <1>5, RunExists
<1>8. f \in [0 .. n -> U] /\ f[0] = A /\ \A m \in 1 .. n : f[m] = step[m][f[m - 1]]
  BY <1>7 DEF Runs
<1>9. \A m \in 1 .. n : f[m] = N(f[m - 1], w[m])
  <2> SUFFICES ASSUME NEW m \in 1 .. n PROVE f[m] = N(f[m - 1], w[m])
    OBVIOUS
  <2>1. m - 1 \in 0 .. n
    OBVIOUS
  <2> QED
    BY <1>6, <1>8, <2>1
<1>10. \A m \in 0 .. n : m = 0 \/ m \in 1 .. n
  OBVIOUS
<1>11. Solves(f)
  BY <1>8, <1>9, <1>10
<1>12. Solves(led)
  BY <1>11
<1> HIDE DEF led
<1>13. led[0] = A /\ \A m \in 1 .. n : led[m] = N(led[m - 1], w[m])
  <2>1. 0 \in 0 .. n /\ \A m \in 1 .. n : m \in 0 .. n /\ m # 0
    OBVIOUS
  <2>2. led = [m \in 0 .. n |-> IF m = 0 THEN A ELSE N(led[m - 1], w[m])]
    BY <1>12
  <2> HIDE DEF Solves
  <2> QED
    BY <2>1, <2>2
<1>14. VectorRun(problem, n, w, led)
  BY <1>13, MtdfaVocabulary DEF VectorRun, A, N
<1> QED
  BY <1>4, <1>14

\* The leaves follow the vector: they all name its states, or it is gone and one of them
\* is false.
Together(p, auts, V, c, k) ==
  \/ \E q \in Vectors(p) :
       /\ V = {q}
       /\ \A t \in DOMAIN p.taus : c[t][k] = Mtdfa!StateCell(q[t], TRUE) /\ q[t] \in DOMAIN auts[t]
  \/ V = {} /\ \E t \in DOMAIN p.taus : c[t][k] = FalseCell

LEMMA TogetherNext ==
  ASSUME NEW p, WellFormed(p), NEW auts,
         \A t \in DOMAIN p.taus : AgreementAutomaton(p.taus[t], auts[t]),
         NEW n \in Nat, NEW w \in [1 .. n -> Letter], NEW d, VectorRun(p, n, w, d), NEW c,
         \A t \in DOMAIN p.taus : LeafRun(p.taus[t], auts[t], n, w, c[t]),
         NEW k \in 0 .. n - 1, Together(p, auts, d[k], c, k)
  PROVE  Together(p, auts, d[k + 1], c, k + 1)
<1> DEFINE l == w[k + 1]
<1>1. k + 1 \in 1 .. n /\ (k + 1) - 1 = k
  OBVIOUS
<1>2. l \in Letter
  BY <1>1
<1>3. d[k + 1] = {Delta(p, q, l) : q \in {r \in d[k] : l \in Agreeing(p, r)}}
  <2>1. d[k + 1] = NextVectors(p, d[k], l)
    BY <1>1 DEF VectorRun
  <2> HIDE DEF l
  <2> QED
    BY <2>1, MtdfaDelta DEF NextVectors
<1>4. \A t \in DOMAIN p.taus : c[t][k + 1] = NextLeaf(auts[t], c[t][k], l)
  BY <1>1 DEF LeafRun
<1>5. CASE d[k] = {} /\ \E t \in DOMAIN p.taus : c[t][k] = FalseCell
  <2>1. d[k + 1] = {}
    BY <1>3, <1>5
  <2>2. \E t \in DOMAIN p.taus : c[t][k + 1] = FalseCell
    BY <1>4, <1>5 DEF NextLeaf
  <2> QED
    BY <2>1, <2>2 DEF Together
<1>6. ASSUME NEW q \in Vectors(p), d[k] = {q},
             \A t \in DOMAIN p.taus : c[t][k] = Mtdfa!StateCell(q[t], TRUE) /\ q[t] \in DOMAIN auts[t]
      PROVE  Together(p, auts, d[k + 1], c, k + 1)
  <2>1. \A t \in DOMAIN p.taus : c[t][k + 1] = Mtdfa!LiftedCell(auts[t], q[t], l)
    <3> SUFFICES ASSUME NEW t \in DOMAIN p.taus PROVE c[t][k + 1] = Mtdfa!LiftedCell(auts[t], q[t], l)
      OBVIOUS
    <3>1. c[t][k] # FalseCell /\ c[t][k].to = q[t]
      BY <1>6, LeafOf
    <3> QED
      BY <1>4, <3>1 DEF NextLeaf
  <2>2. \A t \in DOMAIN p.taus : IsTransducer(p.taus[t])
    BY DEF WellFormed
  <2> DEFINE Follows(t) == l \in p.taus[t].emits[q[t]] /\ Matching(p.taus[t], q[t], l) # {}
  <2>3. \A t \in DOMAIN p.taus :
          /\ ~Follows(t) => c[t][k + 1] = FalseCell
          /\ Follows(t) => /\ c[t][k + 1] = Mtdfa!StateCell(Target(p.taus[t], q[t], l), TRUE)
                           /\ Target(p.taus[t], q[t], l) \in DOMAIN auts[t]
    <3> SUFFICES ASSUME NEW t \in DOMAIN p.taus
                 PROVE  /\ ~Follows(t) => c[t][k + 1] = FalseCell
                        /\ Follows(t) => /\ c[t][k + 1] = Mtdfa!StateCell(Target(p.taus[t], q[t], l), TRUE)
                                         /\ Target(p.taus[t], q[t], l) \in DOMAIN auts[t]
      OBVIOUS
    <3>1. IsTransducer(p.taus[t]) /\ AgreementAutomaton(p.taus[t], auts[t]) /\ q[t] \in DOMAIN auts[t]
      BY <1>6, <2>2
    <3>2. /\ ~Follows(t) => Mtdfa!LiftedCell(auts[t], q[t], l) = FalseCell
          /\ Follows(t) => /\ Mtdfa!LiftedCell(auts[t], q[t], l) = Mtdfa!StateCell(Target(p.taus[t], q[t], l), TRUE)
                           /\ Target(p.taus[t], q[t], l) \in DOMAIN auts[t]
      BY <3>1, LiftedMeans
    <3> QED
      BY <2>1, <3>2
  <2>4. l \in Agreeing(p, q) <=> \A t \in DOMAIN p.taus : Follows(t)
    BY <1>2 DEF Agreeing, Emitted, DeltaDefined
  <2> HIDE DEF l
  <2>5. CASE l \in Agreeing(p, q)
    <3>1. d[k + 1] = {Delta(p, q, l)}
      BY <1>3, <1>6, <2>5
    <3>2. Delta(p, q, l) \in Vectors(p)
      BY <2>5, DeltaType DEF Agreeing
    <3>3. \A t \in DOMAIN p.taus : Delta(p, q, l)[t] = Target(p.taus[t], q[t], l)
      <4> SUFFICES ASSUME NEW t \in DOMAIN p.taus PROVE Delta(p, q, l)[t] = Target(p.taus[t], q[t], l)
        OBVIOUS
      <4> DEFINE target(x) == Target(p.taus[x], q[x], l)
      <4>1. Delta(p, q, l) = [x \in DOMAIN p.taus |-> target(x)]
        BY DEF Delta, Target
      <4> HIDE DEF target
      <4>2. Delta(p, q, l)[t] = target(t)
        BY <4>1
      <4> QED
        BY <4>2 DEF target
    <3> HIDE DEF Follows
    <3> QED
      BY <2>3, <2>4, <2>5, <3>1, <3>2, <3>3 DEF Together
  <2>6. CASE l \notin Agreeing(p, q)
    <3>1. d[k + 1] = {}
      BY <1>3, <1>6, <2>6
    <3> HIDE DEF Follows
    <3> QED
      BY <2>3, <2>4, <2>6, <3>1 DEF Together
  <2> QED
    BY <2>5, <2>6
<1> QED
  BY <1>5, <1>6 DEF Together

LEMMA TogetherEnd ==
  ASSUME NEW p, WellFormed(p), NEW auts,
         \A t \in DOMAIN p.taus : AgreementAutomaton(p.taus[t], auts[t]),
         NEW n \in Nat, NEW w \in [1 .. n -> Letter], NEW d, VectorRun(p, n, w, d), NEW c,
         \A t \in DOMAIN p.taus : LeafRun(p.taus[t], auts[t], n, w, c[t])
  PROVE  d[n] # {} <=> \A t \in DOMAIN p.taus : c[t][n] # FalseCell
<1> DEFINE S == {k \in Nat : k <= n => Together(p, auts, d[k], c, k)}
<1>1. 0 \in S
  <2>1. d[0] = {InitialVector(p)} /\ InitialVector(p) \in Vectors(p)
    BY InitialVectorType DEF VectorRun
  <2>2. \A t \in DOMAIN p.taus : /\ c[t][0] = Mtdfa!StateCell(InitialVector(p)[t], TRUE)
                                 /\ InitialVector(p)[t] \in DOMAIN auts[t]
    BY DEF LeafRun, InitialVector, AgreementAutomaton
  <2> QED
    BY <2>1, <2>2 DEF Together
<1>2. ASSUME NEW k \in Nat, k \in S PROVE k + 1 \in S
  <2> SUFFICES ASSUME k + 1 <= n PROVE Together(p, auts, d[k + 1], c, k + 1)
    OBVIOUS
  <2>1. k \in 0 .. n - 1 /\ Together(p, auts, d[k], c, k)
    BY <1>2
  <2> QED
    BY <2>1, TogetherNext
<1>3. n \in S
  <2> HIDE DEF S
  <2> QED
    BY <1>1, <1>2, SetInduction
<1>4. Together(p, auts, d[n], c, n)
  BY <1>3
<1> QED
  BY <1>4, LeafOf DEF Together

LEMMA MtdfaConsEmerges == MtdfaInv => ConsEmerges
<1> SUFFICES ASSUME MtdfaInv, mPhase = "multiply",
                    NEW m \in 1 .. MaxWord, NEW w \in [1 .. m -> Letter]
             PROVE  Mtdfa!Consistent(w) <=>
                      \A t \in DOMAIN agreements : Mtdfa!Accepts(agreements[t], problem.taus[t].init, w)
  BY MtdfaVocabulary DEF ConsEmerges, Mtdfa!ConsEmerges
<1>1. m \in Nat
  BY MaxWordIsNatural
<1>2. problem \in Problems /\ Len(agreements) = Len(problem.taus)
      /\ \A t \in DOMAIN agreements : AgreementAutomaton(problem.taus[t], agreements[t])
  BY DEF MtdfaInv
<1>3. WellFormed(problem) /\ DOMAIN agreements = DOMAIN problem.taus
      /\ \A t \in DOMAIN problem.taus : IsTransducer(problem.taus[t])
  <2>1. agreements \in Seq({agreements[t] : t \in DOMAIN agreements})
    BY DEF MtdfaInv
  <2> QED
    BY <1>2, <2>1, TausType, LenProperties
<1>4. PICK d : VectorRun(problem, m, w, d) /\ (Mtdfa!Consistent(w) <=> d[m] # {})
  BY <1>1, <1>3, ConsistentMeans
<1> DEFINE Good(t, x) == /\ LeafRun(problem.taus[t], agreements[t], m, w, x)
                         /\ Mtdfa!Accepts(agreements[t], problem.taus[t].init, w) <=> x[m] # FalseCell
           c == [t \in DOMAIN problem.taus |-> CHOOSE x : Good(t, x)]
<1>5. \A t \in DOMAIN problem.taus : \E x : Good(t, x)
  BY <1>1, <1>2, <1>3, ReadsMeans
<1>6. \A t \in DOMAIN problem.taus : Good(t, c[t])
  <2> HIDE DEF Good
  <2> QED
    BY <1>5
<1> HIDE DEF c
<1>7. \A t \in DOMAIN problem.taus : LeafRun(problem.taus[t], agreements[t], m, w, c[t])
  BY <1>6
<1>8. d[m] # {} <=> \A t \in DOMAIN problem.taus : c[t][m] # FalseCell
  BY <1>1, <1>2, <1>3, <1>4, <1>7, TogetherEnd
<1> QED
  BY <1>3, <1>4, <1>6, <1>8

\* The cons filter emerges: together the agreement automata accept exactly the words that are
\* consistent with every transducer, for every number of transducers and every length.
THEOREM ToolConsEmerges == ToolSpec => []ConsEmerges
<1> QED
  BY MtdfaInvariant, MtdfaConsEmerges, PTL

-----------------------------------------------------------------------------
(* The controllers that the games leave: every move comes closer to          *)
(* acceptance.                                                              *)

\* The round in which s is won.
RoundOf(w, s) == First({m \in DOMAIN w : s \in w[m]})

LEMMA NearerMeans ==
  ASSUME NEW D, IsFiniteSet(D), NEW A \in SUBSET D, NEW step, MonotoneStep(D, step), A \subseteq step[A],
         NEW n \in Nat, n >= Cardinality(D), NEW w \in Rounds(D, A, step, n), NEW s \in w[n], s \notin A
  PROVE  /\ RoundOf(w, s) \in Nat /\ Nearer(w, s) \in SUBSET D /\ s \in step[Nearer(w, s)] /\ s \notin Nearer(w, s)
         /\ \A x \in Nearer(w, s) : x \in w[n] /\ RoundOf(w, x) \in Nat /\ RoundOf(w, x) < RoundOf(w, s)
<1>1. /\ w \in [0 .. n -> SUBSET D] /\ DOMAIN w = 0 .. n /\ w[0] = A
      /\ \A m \in 1 .. n : w[m] = step[w[m - 1]]
  BY DEF Rounds
<1>2. LeastClosed(D, A, step, w[n])
  BY LeastFixpoint
<1>3. \A m \in 0 .. n : w[m] \subseteq w[n]
  <2> DEFINE S == {m \in Nat : m <= n => w[m] \subseteq w[n]}
  <2>1. 0 \in S
    BY <1>1, <1>2 DEF LeastClosed
  <2>2. ASSUME NEW m \in Nat, m \in S
        PROVE  m + 1 \in S
    <3> SUFFICES ASSUME m + 1 <= n PROVE w[m + 1] \subseteq w[n]
      OBVIOUS
    <3>1. m \in 0 .. n /\ n \in 0 .. n /\ m + 1 \in 1 .. n /\ (m + 1) - 1 = m /\ w[m] \subseteq w[n]
      BY <2>2
    <3>2. w[m + 1] = step[w[m]] /\ w[m] \in SUBSET D /\ w[n] \in SUBSET D
      BY <1>1, <3>1
    <3>3. step[w[m]] \subseteq step[w[n]] /\ step[w[n]] \subseteq w[n]
      BY <1>2, <3>1, <3>2 DEF MonotoneStep, LeastClosed
    <3> QED
      BY <3>2, <3>3
  <2>3. Nat \subseteq S
    <3> HIDE DEF S
    <3> QED
      BY <2>1, <2>2, SetInduction
  <2> QED
    BY <2>3
\* The round of a member is the first set that has it.
<1>4. ASSUME NEW x, NEW m \in 0 .. n, x \in w[m]
      PROVE  /\ RoundOf(w, x) \in 0 .. n /\ RoundOf(w, x) <= m /\ x \in w[RoundOf(w, x)]
             /\ \A k \in 0 .. n : x \in w[k] => RoundOf(w, x) <= k
  <2> DEFINE S == {k \in DOMAIN w : x \in w[k]}
  <2>1. S \in SUBSET Nat /\ m \in S /\ S \subseteq 0 .. n
    BY <1>1, <1>4
  <2>2. \A k \in 0 .. n : x \in w[k] => k \in S
    BY <1>1
  <2> HIDE DEF S
  <2>3. First(S) \in S /\ \A k \in S : First(S) <= k
    BY <2>1, FirstIsMember
  <2>4. x \in w[First(S)]
    BY <2>3 DEF S
  <2>5. RoundOf(w, x) = First(S)
    BY DEF RoundOf, S
  <2> QED
    BY <2>1, <2>2, <2>3, <2>4, <2>5
<1> DEFINE r == RoundOf(w, s)
<1>5. n \in 0 .. n
  OBVIOUS
<1>6. r \in 0 .. n /\ s \in w[r] /\ \A k \in 0 .. n : s \in w[k] => r <= k
  BY <1>4, <1>5
<1>7. r # 0
  BY <1>1, <1>6
<1>8. Nearer(w, s) = w[r - 1]
  BY DEF Nearer, RoundOf
<1> HIDE DEF r
<1>9. r \in 1 .. n /\ r - 1 \in 0 .. n /\ r \in Nat
  BY <1>6, <1>7
<1>10. s \in step[w[r - 1]] /\ w[r - 1] \in SUBSET D
  BY <1>1, <1>6, <1>9
<1>11. s \notin w[r - 1]
  BY <1>6, <1>9
<1>12. ASSUME NEW x \in w[r - 1]
       PROVE  x \in w[n] /\ RoundOf(w, x) \in Nat /\ RoundOf(w, x) < r
  BY <1>3, <1>4, <1>9
<1> QED
  BY <1>8, <1>9, <1>10, <1>11, <1>12 DEF r

\* The rounds of the two games.
LEMMA DfaRoundsMean ==
  ASSUME NEW aut, IsFiniteSet(DOMAIN aut)
  PROVE  DfaRounds(aut) \in Rounds(DOMAIN aut, Final(aut), AttractorStep(aut), Cardinality(DOMAIN aut))
<1> DEFINE n == Cardinality(DOMAIN aut)
           f == [m \in 0 .. n |-> Attractor(aut, m)]
<1>1. n \in Nat
  BY FS_CardinalityType
<1> HIDE DEF n
<1>2. f = [m \in 0 .. n |-> f[m]] /\ \A m \in 0 .. n : f[m] = Attractor(aut, m) /\ m \in Nat
  BY <1>1
<1> HIDE DEF f
<1>3. \A m \in 0 .. n : \E w \in Rounds(DOMAIN aut, Final(aut), AttractorStep(aut), m) : f[m] = w[m]
  BY <1>2, AttractorRuns
<1>4. f \in Rounds(DOMAIN aut, Final(aut), AttractorStep(aut), n)
  BY <1>1, <1>2, <1>3, RoundsTogether
<1> QED
  BY <1>4 DEF f, n, DfaRounds

LEMMA MtdfaRoundsMean ==
  ASSUME NEW rs, IsFiniteSet(DOMAIN rs)
  PROVE  MtdfaRounds(rs) \in Rounds(DOMAIN rs, {}, WonStep(rs), Cardinality(DOMAIN rs))
<1> DEFINE n == Cardinality(DOMAIN rs)
           f == [m \in 0 .. n |-> WonWithin(rs, m)]
<1>1. n \in Nat
  BY FS_CardinalityType
<1> HIDE DEF n
<1>2. f = [m \in 0 .. n |-> f[m]] /\ \A m \in 0 .. n : f[m] = WonWithin(rs, m) /\ m \in Nat
  BY <1>1
<1> HIDE DEF f
<1>3. \A m \in 0 .. n : \E w \in Rounds(DOMAIN rs, {}, WonStep(rs), m) : f[m] = w[m]
  BY <1>2, WonRuns
<1>4. f \in Rounds(DOMAIN rs, {}, WonStep(rs), n)
  BY <1>1, <1>2, <1>3, RoundsTogether
<1> QED
  BY <1>4 DEF f, n, MtdfaRounds

-----------------------------------------------------------------------------
(* Controllers as transducers.                                              *)

\* A Mealy machine: no choice of the two players is in the guards of two edges.
IsMealy(my) ==
  \A c \in DOMAIN my :
    /\ IsFiniteSet(my[c])
    /\ \A e \in my[c] : e.dst \in DOMAIN my
    /\ \A e, f \in my[c] : \A x \in e.guard : x \in f.guard => e = f

\* The edge e is the one that the machine takes on l.
Takes(e, l) == <<l.i, l.o>> \in e.guard

\* No letter is in the guards of two of the edges of tau in q.
Unambiguous(tau, q, l) == \A m, n \in Matching(tau, q, l) : m = n

LEMMA OrderOfSet ==
  ASSUME NEW S, IsFiniteSet(S)
  PROVE  /\ SetToSeq(S) \in Seq(S)
         /\ \A x \in S : \E n \in DOMAIN SetToSeq(S) : SetToSeq(S)[n] = x
         /\ \A n \in DOMAIN SetToSeq(S) : SetToSeq(S)[n] \in S
         /\ \A m, n \in DOMAIN SetToSeq(S) : SetToSeq(S)[m] = SetToSeq(S)[n] => m = n
<1> DEFINE ns == SetToSeq(S)
<1>1. PICK f : f \in Orders(S)
  BY OrderExists
<1>2. f \in [1 .. Cardinality(S) -> S] /\ IsInjective(f)
  BY <1>1 DEF Orders
<1>3. ns \in [1 .. Cardinality(S) -> S] /\ IsInjective(ns)
  BY <1>2 DEF SetToSeq
<1>4. ns \in Orders(S)
  BY <1>3 DEF Orders
<1> HIDE DEF ns
<1>5. DOMAIN ns = 1 .. Cardinality(S)
  BY <1>3
<1> QED
  BY <1>4, <1>5, OrdersEnumerate DEF ns

LEMMA ControllerMeans ==
  ASSUME NEW my, IsMealy(my), NEW init \in DOMAIN my,
         NEW tc, tc = ControllerAsTransducer(my, init)
  PROVE  /\ IsTransducer(tc) /\ tc.states = DOMAIN my /\ tc.init = init
         /\ \A c \in DOMAIN my : \A l \in Letter :
              /\ l \in tc.emits[c] <=> \E e \in my[c] : Takes(e, l)
              /\ Unambiguous(tc, c, l)
              /\ \A e \in my[c] : Takes(e, l) => Matching(tc, c, l) # {} /\ Target(tc, c, l) = e.dst
<1> DEFINE edge(e) == [guard |-> Lifted(e.guard), dst |-> e.dst]
           S(c) == {edge(e) : e \in my[c]}
           M == DOMAIN my
           E == [guard : SUBSET Letter, dst : M]
<1>1. /\ tc.states = M /\ tc.init = init
      /\ tc.emits = [c \in M |-> Commitment(my[c])]
      /\ tc.edges = [c \in M |-> SetToSeq(S(c))]
      /\ tc = [states |-> tc.states, init |-> tc.init, emits |-> tc.emits, edges |-> tc.edges]
  BY DEF ControllerAsTransducer
<1>2. /\ \A e : edge(e).guard = Lifted(e.guard) /\ edge(e).dst = e.dst
      /\ \A e : \A l : l \in Lifted(e.guard) <=> l \in Letter /\ Takes(e, l)
  BY DEF Lifted, Takes
<1>3. ASSUME NEW c \in M
      PROVE  S(c) \subseteq E /\ IsFiniteSet(S(c))
  <2>1. S(c) \subseteq E
    <3>1. \A e \in my[c] : e.dst \in M /\ Lifted(e.guard) \in SUBSET Letter
      BY <1>2 DEF IsMealy
    <3> QED
      BY <3>1
  <2> DEFINE f0 == [e \in my[c] |-> edge(e)]
  <2>2. f0 \in Surjection(my[c], S(c))
    BY DEF Surjection
  <2>3. IsFiniteSet(my[c])
    BY DEF IsMealy
  <2> QED
    BY <2>1, <2>2, <2>3, FS_Surjection
<1>4. ASSUME NEW c \in M
      PROVE  /\ tc.edges[c] \in Seq(E)
             /\ \A x \in S(c) : \E n \in DOMAIN tc.edges[c] : tc.edges[c][n] = x
             /\ \A n \in DOMAIN tc.edges[c] : tc.edges[c][n] \in S(c)
             /\ \A m, n \in DOMAIN tc.edges[c] : tc.edges[c][m] = tc.edges[c][n] => m = n
  <2> DEFINE X == S(c)
             es == tc.edges[c]
  <2>1. X \subseteq E /\ IsFiniteSet(X) /\ es = SetToSeq(X)
    BY <1>1, <1>3
  <2> HIDE DEF X, E, es
  <2>2. /\ es \in Seq(X)
        /\ \A x \in X : \E n \in DOMAIN es : es[n] = x
        /\ \A n \in DOMAIN es : es[n] \in X
        /\ \A m, n \in DOMAIN es : es[m] = es[n] => m = n
    BY <2>1, OrderOfSet
  <2>3. es \in Seq(E)
    BY <2>1, <2>2, SeqMonotonic
  <2> QED
    BY <2>2, <2>3 DEF X, es
<1>5. ASSUME NEW c \in M
      PROVE  Commitment(my[c]) = {l \in Letter : \E e \in my[c] : Takes(e, l)}
  BY DEF Commitment, Lifted, Takes
<1>6. IsTransducer(tc)
  <2>1. tc.emits \in [M -> SUBSET Letter]
    BY <1>1, <1>5
  <2>2. tc.edges \in [M -> Seq(E)]
    <3> HIDE DEF E, S
    <3>1. \A c \in M : tc.edges[c] \in Seq(E)
      BY <1>4
    <3> QED
      BY <1>1, <3>1
  <2>3. tc.init \in M
    BY <1>1
  <2> QED
    BY <1>1, <2>1, <2>2, <2>3 DEF IsTransducer, Transducers
<1>7. ASSUME NEW c \in M, NEW l \in Letter
      PROVE  /\ l \in tc.emits[c] <=> \E e \in my[c] : Takes(e, l)
             /\ Unambiguous(tc, c, l)
             /\ \A e \in my[c] : Takes(e, l) => Matching(tc, c, l) # {} /\ Target(tc, c, l) = e.dst
  <2> DEFINE es == tc.edges[c]
  <2>1. l \in tc.emits[c] <=> \E e \in my[c] : Takes(e, l)
    BY <1>1, <1>5
  <2>2. Matching(tc, c, l) = {n \in DOMAIN es : l \in es[n].guard}
    BY DEF Matching
  <2>3. /\ \A e \in my[c] : \E n \in DOMAIN es : es[n] = edge(e)
        /\ \A n \in DOMAIN es : \E e \in my[c] : es[n] = edge(e)
        /\ \A m, n \in DOMAIN es : es[m] = es[n] => m = n
    <3> DEFINE X == S(c)
    <3>1. (\A e \in my[c] : edge(e) \in X) /\ \A x \in X : \E e \in my[c] : x = edge(e)
      OBVIOUS
    <3>2. /\ \A x \in X : \E n \in DOMAIN es : es[n] = x
          /\ \A n \in DOMAIN es : es[n] \in X
          /\ \A m, n \in DOMAIN es : es[m] = es[n] => m = n
      BY <1>4
    <3> HIDE DEF X, es, edge
    <3> QED
      BY <3>1, <3>2
  <2> HIDE DEF es, edge
  <2>4. \A n \in Matching(tc, c, l) : \E e \in my[c] : es[n] = edge(e) /\ Takes(e, l)
    BY <1>2, <2>2, <2>3
  <2>5. \A e, f \in my[c] : Takes(e, l) /\ Takes(f, l) => e = f
    BY DEF IsMealy, Takes
  <2>6. Unambiguous(tc, c, l)
    <3> SUFFICES ASSUME NEW m \in Matching(tc, c, l), NEW n \in Matching(tc, c, l) PROVE m = n
      BY DEF Unambiguous
    <3>1. PICK e \in my[c] : es[m] = edge(e) /\ Takes(e, l)
      BY <2>4
    <3>2. PICK f \in my[c] : es[n] = edge(f) /\ Takes(f, l)
      BY <2>4
    <3>3. e = f
      BY <2>5, <3>1, <3>2
    <3> QED
      BY <2>2, <2>3, <3>1, <3>2, <3>3
  <2>7. ASSUME NEW e \in my[c], Takes(e, l)
        PROVE  Matching(tc, c, l) # {} /\ Target(tc, c, l) = e.dst
    <3>1. PICK n \in DOMAIN es : es[n] = edge(e)
      BY <2>3
    <3>2. n \in Matching(tc, c, l) /\ es[n].dst = e.dst
      BY <1>2, <2>2, <2>7, <3>1
    <3>3. First(Matching(tc, c, l)) \in Matching(tc, c, l)
      <4>1. c \in tc.states
        BY <1>1
      <4> QED
        BY <1>6, <3>2, <4>1, EdgesType
    <3>4. First(Matching(tc, c, l)) = n
      BY <2>6, <3>2, <3>3 DEF Unambiguous
    <3> QED
      BY <3>2, <3>4 DEF Target, es
  <2> QED
    BY <2>1, <2>6, <2>7
<1> QED
  BY <1>1, <1>6, <1>7

-----------------------------------------------------------------------------
(* Playing with the controller.                                             *)

\* The part of a vector that belongs to p's own transducers.
Before(p, v) == [t \in DOMAIN p.taus |-> v[t]]

LEMMA VectorWith ==
  ASSUME NEW p, NEW tc, NEW r, NEW n, Enlarged(p, tc, r, n), NEW v \in Vectors(r)
  PROVE  /\ Before(p, v) \in Vectors(p) /\ v[n + 1] \in tc.states
         /\ \A l : l \in Agreeing(r, v) <=>
                     /\ l \in Agreeing(p, Before(p, v))
                     /\ l \in tc.emits[v[n + 1]] /\ Matching(tc, v[n + 1], l) # {}
         /\ \A l : Before(p, Delta(r, v, l)) = Delta(p, Before(p, v), l)
         /\ \A l : Delta(r, v, l)[n + 1] = Target(tc, v[n + 1], l)
<1> DEFINE b == Before(p, v)
<1>1. /\ n \in Nat /\ DOMAIN p.taus = 1 .. n /\ DOMAIN r.taus = 1 .. n + 1
      /\ \A t \in 1 .. n : r.taus[t] = p.taus[t]
      /\ r.taus[n + 1] = tc
  BY DEF Enlarged
<1>2. /\ \A t \in 1 .. n : t \in 1 .. n + 1
      /\ n + 1 \in 1 .. n + 1
      /\ \A t \in 1 .. n + 1 : t \in 1 .. n \/ t = n + 1
  BY <1>1
<1>3. b = [t \in 1 .. n |-> v[t]]
  BY <1>1 DEF Before
<1> HIDE DEF b
<1>4. \A t \in 1 .. n + 1 : v[t] \in r.taus[t].states
  BY <1>1 DEF Vectors
<1>5. b \in Vectors(p)
  <2>1. \A t \in 1 .. n : b[t] \in p.taus[t].states
    BY <1>1, <1>2, <1>3, <1>4
  <2> QED
    BY <1>1, <1>3, <2>1 DEF Vectors
<1>6. v[n + 1] \in tc.states
  BY <1>1, <1>2, <1>4
<1>7. ASSUME NEW l
      PROVE  /\ l \in Agreeing(r, v) <=>
                  /\ l \in Agreeing(p, b)
                  /\ l \in tc.emits[v[n + 1]] /\ Matching(tc, v[n + 1], l) # {}
             /\ Before(p, Delta(r, v, l)) = Delta(p, b, l)
             /\ Delta(r, v, l)[n + 1] = Target(tc, v[n + 1], l)
  <2> DEFINE Follows(tau, q) == l \in tau.emits[q] /\ Matching(tau, q, l) # {}
  <2>1. l \in Agreeing(r, v) <=> l \in Letter /\ \A t \in 1 .. n + 1 : Follows(r.taus[t], v[t])
    BY <1>1 DEF Agreeing, Emitted, DeltaDefined
  <2>2. l \in Agreeing(p, b) <=> l \in Letter /\ \A t \in 1 .. n : Follows(p.taus[t], b[t])
    BY <1>1 DEF Agreeing, Emitted, DeltaDefined
  <2>3. \A t \in 1 .. n : r.taus[t] = p.taus[t] /\ v[t] = b[t]
    BY <1>1, <1>3
  <2>4. Delta(r, v, l) = [t \in 1 .. n + 1 |-> Target(r.taus[t], v[t], l)]
    BY <1>1 DEF Delta, Target
  <2>5. Delta(p, b, l) = [t \in 1 .. n |-> Target(p.taus[t], b[t], l)]
    BY <1>1 DEF Delta, Target
  <2>6. Before(p, Delta(r, v, l)) = [t \in 1 .. n |-> Delta(r, v, l)[t]]
    BY <1>1 DEF Before
  <2> HIDE DEF Follows
  <2>7. l \in Agreeing(r, v) <=> l \in Agreeing(p, b) /\ Follows(tc, v[n + 1])
    BY <1>1, <1>2, <2>1, <2>2, <2>3
  <2>8. Before(p, Delta(r, v, l)) = Delta(p, b, l)
    <3>1. \A t \in 1 .. n : Delta(r, v, l)[t] = Target(p.taus[t], b[t], l)
      BY <1>2, <2>3, <2>4
    <3> QED
      BY <2>5, <2>6, <3>1
  <2>9. Delta(r, v, l)[n + 1] = Target(tc, v[n + 1], l)
    BY <1>1, <1>2, <2>4
  <2> QED
    BY <2>7, <2>8, <2>9 DEF Follows
<1> QED
  BY <1>5, <1>6, <1>7 DEF b

\* A state of the larger product without what the controller adds, and what it adds.
Plain(p, s) == [goal |-> s.goal, taus |-> Before(p, s.taus)]
Held(p, s) == s.taus[Len(p.taus) + 1]

LEMMA StateWith ==
  ASSUME NEW p, WellFormed(p), NEW tc, IsTransducer(tc), NEW r, r = WithTau(p, tc), NEW s \in ReachedStates(r)
  PROVE  /\ Held(p, s) \in tc.states
         /\ \A l \in Agreeing(r, s.taus) :
              /\ l \in Agreeing(p, Plain(p, s).taus) /\ l \in tc.emits[Held(p, s)]
              /\ Plain(p, Successor(r, s, l)) = Successor(p, Plain(p, s), l)
              /\ Held(p, Successor(r, s, l)) = Target(tc, Held(p, s), l)
              /\ Successor(r, s, l) \in ReachedStates(r)
         /\ \A l \in Agreeing(p, Plain(p, s).taus) :
              l \in tc.emits[Held(p, s)] /\ Matching(tc, Held(p, s), l) # {} => l \in Agreeing(r, s.taus)
<1> DEFINE n == Len(p.taus)
           v == s.taus
<1>1. Enlarged(p, tc, r, n) /\ WellFormed(r) /\ v \in Vectors(r)
  BY WithTauMeans, AddTau DEF ReachedStates
<1> HIDE DEF n, v
<1>2. /\ v[n + 1] \in tc.states
      /\ \A l : l \in Agreeing(r, v) <=>
                  /\ l \in Agreeing(p, Before(p, v))
                  /\ l \in tc.emits[v[n + 1]] /\ Matching(tc, v[n + 1], l) # {}
      /\ \A l : Before(p, Delta(r, v, l)) = Delta(p, Before(p, v), l)
      /\ \A l : Delta(r, v, l)[n + 1] = Target(tc, v[n + 1], l)
  BY <1>1, VectorWith
<1>3. Held(p, s) = v[n + 1] /\ Plain(p, s).goal = s.goal /\ Plain(p, s).taus = Before(p, v)
  BY DEF Held, Plain, n, v
<1>4. ASSUME NEW l
      PROVE  /\ Plain(p, Successor(r, s, l)) = Successor(p, Plain(p, s), l)
             /\ Held(p, Successor(r, s, l)) = Target(tc, Held(p, s), l)
  <2>1. /\ Successor(r, s, l).goal = GoalDelta(r, s.goal, l)
        /\ Successor(r, s, l).taus = Delta(r, v, l)
    BY DEF Successor, v
  <2>2. GoalDelta(r, s.goal, l) = GoalDelta(p, s.goal, l)
    BY <1>1 DEF Enlarged, GoalDelta
  <2>3. Plain(p, Successor(r, s, l)) = [goal |-> GoalDelta(p, s.goal, l), taus |-> Delta(p, Before(p, v), l)]
    BY <1>2, <2>1, <2>2 DEF Plain
  <2>4. Held(p, Successor(r, s, l)) = Delta(r, v, l)[n + 1]
    BY <2>1 DEF Held, n
  <2> QED
    BY <1>2, <1>3, <2>3, <2>4 DEF Successor
<1>5. \A l \in Agreeing(r, v) : Successor(r, s, l) \in ReachedStates(r)
  BY <1>1, SuccessorReached DEF v
<1> QED
  BY <1>2, <1>3, <1>4, <1>5 DEF v

LEMMA InitialWith ==
  ASSUME NEW p, WellFormed(p), NEW tc, IsTransducer(tc), NEW r, r = WithTau(p, tc)
  PROVE  /\ InitialState(r) \in ReachedStates(r)
         /\ Plain(p, InitialState(r)) = InitialState(p) /\ Held(p, InitialState(r)) = tc.init
<1> DEFINE n == Len(p.taus)
<1>1. Enlarged(p, tc, r, n) /\ WellFormed(r)
  BY WithTauMeans, AddTau
<1> HIDE DEF n
<1>2. /\ n \in Nat /\ DOMAIN p.taus = 1 .. n /\ DOMAIN r.taus = 1 .. n + 1 /\ r.phi = p.phi
      /\ (\A t \in 1 .. n : r.taus[t] = p.taus[t]) /\ r.taus[n + 1] = tc
  BY <1>1 DEF Enlarged
<1>3. InitialVector(r) = [t \in 1 .. n + 1 |-> r.taus[t].init] /\ n + 1 \in 1 .. n + 1
  BY <1>2 DEF InitialVector
<1>4. \A t \in 1 .. n : InitialVector(r)[t] = p.taus[t].init
  <2>1. \A t \in 1 .. n : t \in 1 .. n + 1
    BY <1>2
  <2> QED
    BY <1>2, <1>3, <2>1
<1>5. Before(p, InitialVector(r)) = InitialVector(p)
  BY <1>2, <1>4 DEF Before, InitialVector
<1>6. InitialState(r).taus = InitialVector(r) /\ InitialState(r).goal = GoalInit(p)
  BY <1>2 DEF InitialState, GoalInit
<1>7. Held(p, InitialState(r)) = tc.init
  BY <1>2, <1>3, <1>6 DEF Held, n
<1>8. Plain(p, InitialState(r)) = InitialState(p)
  BY <1>5, <1>6 DEF Plain, InitialState
<1>9. InitialState(r) \in ReachedStates(r)
  BY <1>1, InitialReached
<1> QED
  BY <1>7, <1>8, <1>9

\* In the state x of p's product, with the machine in c: whatever the environment
\* chooses there is an answer, and all of the machine's accept or lead to a pair of
\* H of a lower rank.
Answers(p, my, H, rank, x, c) ==
  /\ c \in DOMAIN my /\ rank[c] \in Nat
  /\ \A i \in IFree : \E l \in Agreeing(p, x.taus) : l.i = i /\ \E e \in my[c] : Takes(e, l)
  /\ \A l \in Agreeing(p, x.taus) : \A e \in my[c] : Takes(e, l) =>
       \/ Accepting(Successor(p, x, l).goal)
       \/ <<Successor(p, x, l), e.dst>> \in H /\ rank[e.dst] < rank[c]

\* The same of one state of the product with the controller.
Approaches(r, A, rank, s) ==
  /\ rank[s] \in Nat
  /\ \A i \in IFree : \E l \in Agreeing(r, s.taus) : l.i = i
  /\ \A l \in Agreeing(r, s.taus) :
       \/ Accepting(Successor(r, s, l).goal)
       \/ Successor(r, s, l) \in A /\ rank[Successor(r, s, l)] < rank[s]

\* Every play of r comes to acceptance.
Guided(r) ==
  \E A, rank : /\ InitialState(r) \in A /\ A \subseteq ReachedStates(r)
               /\ \A s \in A : Approaches(r, A, rank, s)

\* The states of S contain the initial one and their successors, and two edges of one
\* transducer for one letter are in none of them.
Orderly(p, S) ==
  /\ InitialState(p) \in S
  /\ \A s \in S : /\ \A t \in DOMAIN p.taus : \A l \in p.taus[t].emits[s.taus[t]] :
                       Unambiguous(p.taus[t], s.taus[t], l)
                  /\ \A l \in Agreeing(p, s.taus) : Successor(p, s, l) \in S

\* None of S throws.
Unrefusing(r, S) ==
  /\ InitialState(r) \in S
  /\ \A s \in S : /\ \A l \in Letter : ~ThrowsOn(r, s, l)
                  /\ \A l \in Agreeing(r, s.taus) : Successor(r, s, l) \in S

LEMMA MachineGuides ==
  ASSUME NEW p, WellFormed(p), NEW my, IsMealy(my), NEW init \in DOMAIN my,
         NEW H, NEW rank, <<InitialState(p), init>> \in H,
         \A x, c : <<x, c>> \in H => Answers(p, my, H, rank, x, c)
  PROVE  Guided(WithTau(p, ControllerAsTransducer(my, init)))
<1> DEFINE tc == ControllerAsTransducer(my, init)
           r  == WithTau(p, tc)
           A  == {s \in ReachedStates(r) : <<Plain(p, s), Held(p, s)>> \in H}
           rk == [s \in A |-> rank[Held(p, s)]]
<1>1. /\ IsTransducer(tc) /\ tc.init = init
      /\ \A c \in DOMAIN my : \A l \in Letter :
           /\ l \in tc.emits[c] <=> \E e \in my[c] : Takes(e, l)
           /\ \A e \in my[c] : Takes(e, l) => Matching(tc, c, l) # {} /\ Target(tc, c, l) = e.dst
  BY ControllerMeans
<1>2. r = WithTau(p, tc)
  OBVIOUS
<1> HIDE DEF tc, r
<1>3. InitialState(r) \in A
  BY <1>1, <1>2, InitialWith
<1>4. ASSUME NEW s \in A
      PROVE  Approaches(r, A, rk, s)
  <2> DEFINE x == Plain(p, s)
             c == Held(p, s)
  <2>1. /\ s \in ReachedStates(r) /\ Answers(p, my, H, rank, x, c) /\ rk[s] = rank[c]
        /\ \A q \in ReachedStates(r) : <<Plain(p, q), Held(p, q)>> \in H => q \in A /\ rk[q] = rank[Held(p, q)]
    OBVIOUS
  <2>2. /\ \A l \in Agreeing(r, s.taus) :
             /\ l \in Agreeing(p, x.taus) /\ l \in tc.emits[c]
             /\ Plain(p, Successor(r, s, l)) = Successor(p, x, l)
             /\ Held(p, Successor(r, s, l)) = Target(tc, c, l)
             /\ Successor(r, s, l) \in ReachedStates(r)
        /\ \A l \in Agreeing(p, x.taus) :
             l \in tc.emits[c] /\ Matching(tc, c, l) # {} => l \in Agreeing(r, s.taus)
    BY <1>1, <1>2, <2>1, StateWith
  <2>3. \A q : Plain(p, q).goal = q.goal
    BY DEF Plain
  <2> HIDE DEF x, c, A, rk
  <2>4. c \in DOMAIN my /\ rank[c] \in Nat
    BY <2>1 DEF Answers
  <2>5. ASSUME NEW i \in IFree
        PROVE  \E l \in Agreeing(r, s.taus) : l.i = i
    <3>1. PICK l \in Agreeing(p, x.taus) : l.i = i /\ \E e \in my[c] : Takes(e, l)
      BY <2>1 DEF Answers
    <3>2. l \in Letter
      BY DEF Agreeing, Emitted
    <3>3. l \in tc.emits[c] /\ Matching(tc, c, l) # {}
      BY <1>1, <2>4, <3>1, <3>2
    <3> QED
      BY <2>2, <3>1, <3>3
  <2>6. ASSUME NEW l \in Agreeing(r, s.taus)
        PROVE  \/ Accepting(Successor(r, s, l).goal)
               \/ Successor(r, s, l) \in A /\ rk[Successor(r, s, l)] < rk[s]
    <3> DEFINE y == Successor(r, s, l)
    <3>1. /\ l \in Agreeing(p, x.taus) /\ l \in tc.emits[c] /\ l \in Letter
          /\ Plain(p, y) = Successor(p, x, l) /\ Held(p, y) = Target(tc, c, l)
          /\ y \in ReachedStates(r)
      BY <2>2 DEF Agreeing, Emitted
    <3> HIDE DEF y
    <3>2. PICK e \in my[c] : Takes(e, l)
      BY <1>1, <2>4, <3>1
    <3>3. Held(p, y) = e.dst
      BY <1>1, <2>4, <3>1, <3>2
    <3>4. \/ Accepting(Plain(p, y).goal)
          \/ <<Plain(p, y), Held(p, y)>> \in H /\ rank[Held(p, y)] < rank[c]
      BY <2>1, <3>1, <3>2, <3>3 DEF Answers
    <3>5. Accepting(y.goal) \/ (y \in A /\ rk[y] < rk[s])
      BY <2>1, <2>3, <3>1, <3>4
    <3> QED
      BY <3>5 DEF y
  <2> QED
    BY <2>1, <2>4, <2>5, <2>6 DEF Approaches
<1>5. A \subseteq ReachedStates(r)
  OBVIOUS
<1> HIDE DEF A, rk
<1>6. Guided(r)
  BY <1>3, <1>4, <1>5 DEF Guided
<1> QED
  BY <1>6 DEF r, tc

LEMMA UnambiguousMeans ==
  ASSUME NEW tau, NEW q, NEW l, Unambiguous(tau, q, l)
  PROVE  ~(Cardinality(Matching(tau, q, l)) > 1)
<1>1. CASE Matching(tau, q, l) = {}
  BY <1>1, FS_EmptySet
<1>2. CASE Matching(tau, q, l) # {}
  <2>1. PICK m : Matching(tau, q, l) = {m}
    <3>1. PICK m : m \in Matching(tau, q, l)
      BY <1>2
    <3>2. Matching(tau, q, l) = {m}
      BY <3>1 DEF Unambiguous
    <3> QED
      BY <3>2
  <2>2. Cardinality({m}) = 1
    BY FS_Singleton
  <2> QED
    BY <2>1, <2>2
<1> QED
  BY <1>1, <1>2

LEMMA MachineIsOrderly ==
  ASSUME NEW p, WellFormed(p), NEW my, IsMealy(my), NEW init \in DOMAIN my, NEW N, Orderly(p, N)
  PROVE  \E S : Unrefusing(WithTau(p, ControllerAsTransducer(my, init)), S)
<1> DEFINE tc == ControllerAsTransducer(my, init)
           r  == WithTau(p, tc)
           n  == Len(p.taus)
           S  == {s \in ReachedStates(r) : Plain(p, s) \in N}
<1>1. /\ IsTransducer(tc) /\ tc.states = DOMAIN my
      /\ \A c \in DOMAIN my : \A l \in Letter : Unambiguous(tc, c, l)
  BY ControllerMeans
<1>2. r = WithTau(p, tc) /\ Enlarged(p, tc, r, n)
  BY WithTauMeans
<1> HIDE DEF tc, r
<1>3. InitialState(r) \in S
  BY <1>1, <1>2, InitialWith DEF Orderly
<1>4. ASSUME NEW s \in S, NEW l \in Agreeing(r, s.taus)
      PROVE  Successor(r, s, l) \in S
  <2>1. /\ l \in Agreeing(p, Plain(p, s).taus) /\ Successor(r, s, l) \in ReachedStates(r)
        /\ Plain(p, Successor(r, s, l)) = Successor(p, Plain(p, s), l)
    BY <1>1, <1>2, StateWith
  <2> QED
    BY <2>1 DEF Orderly
<1>5. ASSUME NEW s \in S, NEW l \in Letter, ThrowsOn(r, s, l)
      PROVE  FALSE
  <2> HIDE DEF n
  <2>1. /\ n \in Nat /\ DOMAIN p.taus = 1 .. n /\ DOMAIN r.taus = 1 .. n + 1
        /\ \A t \in 1 .. n : r.taus[t] = p.taus[t]
        /\ r.taus[n + 1] = tc
    BY <1>2 DEF Enlarged
  <2>2. PICK t \in 1 .. n + 1 : /\ \A u \in 1 .. t : l \in r.taus[u].emits[s.taus[u]]
                                /\ Cardinality(Matching(r.taus[t], s.taus[t], l)) > 1
    BY <1>5, <2>1 DEF ThrowsOn
  <2>3. l \in r.taus[t].emits[s.taus[t]] /\ (t \in 1 .. n \/ t = n + 1)
    <3>1. t \in 1 .. t /\ (t \in 1 .. n \/ t = n + 1)
      BY <2>1
    <3> QED
      BY <2>2, <3>1
  <2>4. ~Unambiguous(r.taus[t], s.taus[t], l)
    BY <2>2, UnambiguousMeans
  <2>5. CASE t \in 1 .. n
    <3>1. Plain(p, s).taus[t] = s.taus[t] /\ r.taus[t] = p.taus[t] /\ t \in DOMAIN p.taus /\ Plain(p, s) \in N
      BY <2>1, <2>5 DEF Plain, Before
    <3> QED
      BY <2>3, <2>4, <3>1 DEF Orderly
  <2>6. CASE t = n + 1
    <3>1. s.taus[t] \in DOMAIN my
      BY <1>1, <1>2, <2>6, StateWith DEF Held, n
    <3> QED
      BY <1>1, <2>1, <2>4, <2>6, <3>1
  <2> QED
    BY <2>3, <2>5, <2>6
<1> HIDE DEF S
<1>6. Unrefusing(r, S)
  BY <1>3, <1>4, <1>5 DEF Unrefusing
<1> QED
  BY <1>6 DEF r, tc

-----------------------------------------------------------------------------
(* DfaProduct's controller.                                                 *)

\* Where every choice of the environment is part of a letter there are finitely many.
LEMMA FreeFinite ==
  ASSUME \A i \in IFree : \E l \in Letter : l.i = i
  PROVE  IsFiniteSet(IFree)
<1> DEFINE f0 == [l \in Letter |-> l.i]
<1>1. \A l \in Letter : l.i \in IFree
  BY DEF Letter
<1>2. f0 \in Surjection(Letter, IFree)
  BY <1>1 DEF Surjection
<1> QED
  BY <1>2, LettersFinite, FS_Surjection

LEMMA MaterializedEdges ==
  ASSUME NEW p, NEW ns, Complete(p, ns), NEW s \in DOMAIN ns, NEW b \in Materialized(ns)[s], NEW l \in b.guard
  PROVE  l \in Agreeing(p, s.taus) /\ Successor(p, s, l) = b.dst
<1> DEFINE G == Guards(p, s)
           Es == {[dst |-> d, guard |-> ns[s].guards[d], mark |-> ns[s].acc] : d \in DOMAIN ns[s].guards}
           loop == [dst |-> s, guard |-> {}, mark |-> TRUE]
<1>1. ns[s].guards = G /\ \A d \in DOMAIN G : G[d] = {m \in Agreeing(p, s.taus) : Successor(p, s, m) = d}
  BY DEF Complete, Finished, Guards, Enabled
<1>2. Materialized(ns)[s] = Readable(s, ns[s].acc, Es)
  BY DEF Materialized
<1>3. b # loop
  BY DEF loop
<1>4. b \in Es
  <2> HIDE DEF loop
  <2>1. CASE Es = {} /\ ns[s].acc
    BY <1>2, <1>3, <2>1 DEF Readable, loop
  <2>2. CASE ~ (Es = {} /\ ns[s].acc)
    BY <1>2, <2>2 DEF Readable
  <2> QED
    BY <2>1, <2>2
<1> HIDE DEF G
<1>5. PICK d \in DOMAIN G : b = [dst |-> d, guard |-> G[d], mark |-> ns[s].acc]
  BY <1>1, <1>4
<1>6. b.dst = d /\ l \in G[d]
  BY <1>5
<1> QED
  BY <1>1, <1>6

\* The edge that the controller has in s for the choice i.
DfaMove(aut, s, i) ==
  LET e == CHOOSE e \in aut[s] : e.dst \in Nearer(DfaRounds(aut), s) /\ \E x \in FreePart(e.guard) : x[1] = i
  IN  [guard |-> {x \in FreePart(e.guard) : x[1] = i}, dst |-> e.dst]

\* Some letter takes it, and every agreeing letter that takes it leads closer.
LEMMA DfaMoveMeans ==
  ASSUME NEW p, AnswersEachChoice(p), NEW ns, Complete(p, ns), NEW s \in DOMAIN ns,
         NEW aut, aut = Materialized(ns), NEW W, W = Nearer(DfaRounds(aut), s), Draws(aut, s, W), NEW i \in IFree
  PROVE  /\ DfaMove(aut, s, i).dst \in W /\ \A x \in DfaMove(aut, s, i).guard : x[1] = i
         /\ \E l \in Agreeing(p, s.taus) : l.i = i /\ Takes(DfaMove(aut, s, i), l)
         /\ \A l \in Agreeing(p, s.taus) :
              Takes(DfaMove(aut, s, i), l) => Successor(p, s, l) = DfaMove(aut, s, i).dst
<1> DEFINE Fits(e) == e.dst \in W /\ \E x \in FreePart(e.guard) : x[1] = i
           b == CHOOSE e \in aut[s] : Fits(e)
           m == DfaMove(aut, s, i)
<1>1. \E e \in aut[s] : Fits(e)
  <2>1. PICK e \in ArenaEdges(aut, s) : e.i = i /\ e.dst \in W
    BY DEF Draws
  <2>2. PICK a \in aut[s] : e \in {[i |-> x[1], o |-> x[2], dst |-> a.dst] : x \in FreePart(a.guard)}
    BY DEF ArenaEdges
  <2>3. PICK x \in FreePart(a.guard) : e = [i |-> x[1], o |-> x[2], dst |-> a.dst]
    BY <2>2
  <2>4. e.i = x[1] /\ e.dst = a.dst
    BY <2>3
  <2> QED
    BY <2>1, <2>4
<1>2. b \in aut[s] /\ Fits(b)
  BY <1>1
<1>3. m = [guard |-> {x \in FreePart(b.guard) : x[1] = i}, dst |-> b.dst]
  BY DEF DfaMove
<1>4. m.dst = b.dst /\ m.guard = {x \in FreePart(b.guard) : x[1] = i}
  <2> HIDE DEF b, m
  <2> QED
    BY <1>3
<1> HIDE DEF b, m
<1>5. \A l \in b.guard : l \in Agreeing(p, s.taus) /\ Successor(p, s, l) = b.dst
  BY <1>2, MaterializedEdges
<1>6. \E l \in Agreeing(p, s.taus) : l.i = i /\ Takes(m, l)
  <2>1. PICK x \in FreePart(b.guard) : x[1] = i
    BY <1>2
  <2>2. PICK l \in b.guard : x = <<l.i, l.o>>
    BY DEF FreePart
  <2>3. l.i = i /\ <<l.i, l.o>> \in m.guard
    BY <1>4, <2>1, <2>2
  <2> QED
    BY <1>5, <2>3 DEF Takes
<1>7. ASSUME NEW l \in Agreeing(p, s.taus), Takes(m, l)
      PROVE  Successor(p, s, l) = m.dst
  <2>1. PICK k \in b.guard : <<l.i, l.o>> = <<k.i, k.o>>
    BY <1>4, <1>7 DEF Takes, FreePart
  <2>2. l.i = k.i /\ l.o = k.o
    BY <2>1
  <2>3. s.taus \in Vectors(p)
    BY DEF Complete, ReachedStates
  <2>4. l = k
    BY <1>5, <2>2, <2>3 DEF AnswersEachChoice
  <2> QED
    BY <1>4, <1>5, <2>4
<1> QED
  BY <1>2, <1>4, <1>6, <1>7 DEF m

LEMMA DfaControllerGuides ==
  ASSUME NEW p, WellFormed(p), AnswersEachChoice(p), NEW ns, Complete(p, ns),
         NEW aut, aut = Materialized(ns), WinsArena(aut, InitialState(p)), NEW my, my = DfaMealy(aut)
  PROVE  /\ IsMealy(my) /\ InitialState(p) \in DOMAIN my
         /\ Guided(WithTau(p, ControllerAsTransducer(my, InitialState(p))))
<1> DEFINE D == DOMAIN ns
           F == Final(aut)
           n == Cardinality(DOMAIN aut)
           w == DfaRounds(aut)
           A == w[n]
           loop(s) == [guard |-> IFree \X OFree, dst |-> s]
           H == {<<s, s>> : s \in A \ F}
           rank == [s \in A |-> RoundOf(w, s)]
<1>1. /\ DOMAIN aut = D /\ IsFiniteSet(D) /\ F = {s \in D : Accepting(s.goal)}
      /\ D \subseteq ReachedStates(p) /\ InitialState(p) \in D /\ ~Accepting(InitialState(p).goal)
  BY MaterializedMeans, InitialReached DEF Complete
<1>2. n \in Nat /\ n \in 0 .. n /\ n >= Cardinality(D)
  BY <1>1, FS_CardinalityType
<1>3. w \in Rounds(D, F, AttractorStep(aut), n)
  BY <1>1, DfaRoundsMean
<1>4. MonotoneStep(D, AttractorStep(aut)) /\ F \in SUBSET D /\ F \subseteq AttractorStep(aut)[F]
  BY <1>1, AttractorGrows
<1>5. InitialState(p) \in A
  BY <1>2 DEF WinsArena, DfaRounds
<1>6. A \subseteq D
  BY <1>2, <1>3 DEF Rounds
<1>7. my = [s \in A |-> IF s \in F THEN {loop(s)} ELSE {DfaMove(aut, s, i) : i \in IFree}]
  BY DEF DfaMealy, DfaMove
<1> HIDE DEF n, w, F
<1>8. ASSUME NEW s \in A, s \notin F
      PROVE  /\ RoundOf(w, s) \in Nat /\ Draws(aut, s, Nearer(w, s))
             /\ \A x \in Nearer(w, s) : x \in A /\ RoundOf(w, x) \in Nat /\ RoundOf(w, x) < RoundOf(w, s)
  <2>1. /\ RoundOf(w, s) \in Nat /\ Nearer(w, s) \in SUBSET D
        /\ s \in AttractorStep(aut)[Nearer(w, s)] /\ s \notin Nearer(w, s)
        /\ \A x \in Nearer(w, s) : x \in A /\ RoundOf(w, x) \in Nat /\ RoundOf(w, x) < RoundOf(w, s)
    BY <1>1, <1>2, <1>3, <1>4, <1>8, NearerMeans
  <2>2. Draws(aut, s, Nearer(w, s))
    BY <1>1, <2>1 DEF AttractorStep
  <2> QED
    BY <2>1, <2>2
<1>9. ASSUME NEW s \in A, s \notin F, NEW i \in IFree
      PROVE  /\ DfaMove(aut, s, i).dst \in Nearer(w, s) /\ \A x \in DfaMove(aut, s, i).guard : x[1] = i
             /\ \E l \in Agreeing(p, s.taus) : l.i = i /\ Takes(DfaMove(aut, s, i), l)
             /\ \A l \in Agreeing(p, s.taus) :
                  Takes(DfaMove(aut, s, i), l) => Successor(p, s, l) = DfaMove(aut, s, i).dst
  <2>1. s \in D /\ Draws(aut, s, Nearer(w, s))
    BY <1>6, <1>8, <1>9
  <2> QED
    BY <2>1, DfaMoveMeans DEF w
<1>10. IsMealy(my)
  <2> SUFFICES ASSUME NEW s \in A
               PROVE  /\ IsFiniteSet(my[s])
                      /\ \A e \in my[s] : e.dst \in A
                      /\ \A e, f \in my[s] : \A x \in e.guard : x \in f.guard => e = f
    BY <1>7 DEF IsMealy
  <2>1. CASE s \in F
    <3>1. my[s] = {loop(s)} /\ loop(s).dst = s
      BY <1>7, <2>1
    <3> HIDE DEF loop
    <3>2. IsFiniteSet(my[s])
      BY <3>1, FS_Singleton
    <3> QED
      BY <3>1, <3>2
  <2>2. CASE s \notin F
    <3>1. my[s] = {DfaMove(aut, s, i) : i \in IFree}
      BY <1>7, <2>2
    <3>2. IsFiniteSet(IFree)
      <4>1. \A i \in IFree : \E l \in Agreeing(p, s.taus) : l.i = i
        BY <1>9, <2>2
      <4>2. Agreeing(p, s.taus) \subseteq Letter
        BY DEF Agreeing, Emitted
      <4> QED
        BY <4>1, <4>2, FreeFinite
    <3> DEFINE f0 == [i \in IFree |-> DfaMove(aut, s, i)]
    <3>3. f0 \in Surjection(IFree, my[s])
      BY <3>1 DEF Surjection
    <3>4. IsFiniteSet(my[s])
      BY <3>2, <3>3, FS_Surjection
    <3>5. \A e \in my[s] : e.dst \in A
      BY <1>8, <1>9, <2>2, <3>1
    <3>6. ASSUME NEW e \in my[s], NEW f \in my[s], NEW x \in e.guard, x \in f.guard
          PROVE  e = f
      <4>1. PICK i \in IFree : e = DfaMove(aut, s, i)
        BY <3>1
      <4>2. PICK j \in IFree : f = DfaMove(aut, s, j)
        BY <3>1
      <4>3. x[1] = i /\ x[1] = j
        BY <1>9, <2>2, <3>6, <4>1, <4>2
      <4> QED
        BY <4>1, <4>2, <4>3
    <3> QED
      BY <3>4, <3>5, <3>6
  <2> QED
    BY <2>1, <2>2
<1>11. DOMAIN my = A
  BY <1>7
<1>12. <<InitialState(p), InitialState(p)>> \in H
  BY <1>1, <1>5
<1>13. ASSUME NEW x, NEW c, <<x, c>> \in H
       PROVE  Answers(p, my, H, rank, x, c)
  <2>1. x \in A /\ x \notin F /\ c = x
    BY <1>13
  <2>2. \A y \in A : y \notin F => <<y, y>> \in H
    OBVIOUS
  <2>3. \A y \in A : rank[y] = RoundOf(w, y)
    OBVIOUS
  <2>4. my[x] = {DfaMove(aut, x, i) : i \in IFree}
    BY <1>7, <2>1
  <2> HIDE DEF H, rank
  <2>5. x \in DOMAIN my /\ rank[x] \in Nat
    BY <1>8, <1>11, <2>1, <2>3
  <2>6. ASSUME NEW i \in IFree
        PROVE  \E l \in Agreeing(p, x.taus) : l.i = i /\ \E e \in my[x] : Takes(e, l)
    BY <1>9, <2>1, <2>4
  <2>7. ASSUME NEW l \in Agreeing(p, x.taus), NEW e \in my[x], Takes(e, l)
        PROVE  \/ Accepting(Successor(p, x, l).goal)
               \/ <<Successor(p, x, l), e.dst>> \in H /\ rank[e.dst] < rank[x]
    <3>1. PICK i \in IFree : e = DfaMove(aut, x, i)
      BY <2>4
    <3>2. Successor(p, x, l) = e.dst /\ e.dst \in Nearer(w, x)
      BY <1>9, <2>1, <2>7, <3>1
    <3>3. e.dst \in A /\ rank[e.dst] < rank[x]
      BY <1>8, <2>1, <2>3, <3>2
    <3>4. e.dst \in F => Accepting(e.dst.goal)
      BY <1>1
    <3> QED
      BY <2>2, <3>2, <3>3, <3>4
  <2> QED
    BY <2>1, <2>5, <2>6, <2>7 DEF Answers
<1> HIDE DEF A, H, rank
<1>14. Guided(WithTau(p, ControllerAsTransducer(my, InitialState(p))))
  BY <1>5, <1>10, <1>11, <1>12, <1>13, MachineGuides
<1> QED
  BY <1>5, <1>10, <1>11, <1>14

-----------------------------------------------------------------------------
(* MtdfaProduct's controller.                                               *)

\* The edge that the controller has in s for the choice i.
MtdfaMove(rs, s, i) ==
  LET l == CHOOSE l \in Letter : l.i = i /\ CellWon(rs[s][l], Nearer(MtdfaRounds(rs), s))
      c == rs[s][l]
  IN  [guard |-> {<<i, l.o>>}, dst |-> IF c.kind = "true" \/ c.acc THEN s ELSE c.to]

\* Some letter takes it, and every agreeing letter that takes it fulfils the goal or
\* leads closer.
LEMMA MtdfaMoveMeans ==
  ASSUME NEW p \in Problems, AnswersEachChoice(p), NEW auts, Knows(p, auts),
         NEW rs, rs = Mtdfa!Multiplied(p, auts), NEW s \in Mtdfa!ProductStates(p, auts),
         NEW W, W = Nearer(MtdfaRounds(rs), s), RowWon(rs[s], W), NEW i \in IFree
  PROVE  /\ MtdfaMove(rs, s, i).dst = s \/ MtdfaMove(rs, s, i).dst \in W
         /\ \A x \in MtdfaMove(rs, s, i).guard : x[1] = i
         /\ \E l \in Agreeing(p, s.taus) : l.i = i /\ Takes(MtdfaMove(rs, s, i), l)
         /\ \A l \in Agreeing(p, s.taus) : Takes(MtdfaMove(rs, s, i), l) =>
              LET c == Mtdfa!GoalCell(p, s.goal, l)
              IN  /\ c # FalseCell
                  /\ \/ c = TrueCell \/ c.last
                     \/ MtdfaMove(rs, s, i).dst \in W /\ MtdfaMove(rs, s, i).dst = NextRoot(p, s, l)
<1> DEFINE Fits(l) == l.i = i /\ CellWon(rs[s][l], W)
           k == CHOOSE l \in Letter : Fits(l)
           cell == rs[s][k]
           c == Mtdfa!GoalCell(p, s.goal, k)
           m == MtdfaMove(rs, s, i)
<1>1. k \in Letter /\ k.i = i /\ CellWon(cell, W)
  <2>1. \E l \in Letter : Fits(l)
    BY DEF RowWon
  <2> QED
    BY <2>1
<1>2. m = [guard |-> {<<i, k.o>>}, dst |-> IF cell.kind = "true" \/ cell.acc THEN s ELSE cell.to]
  BY DEF MtdfaMove
<1> HIDE DEF k, m, cell
<1>3. m.guard = {<<i, k.o>>} /\ m.dst = IF cell.kind = "true" \/ cell.acc THEN s ELSE cell.to
  BY <1>2
<1>4. cell = Mtdfa!ProductCell(p, auts, s, k)
  BY <1>1, MtdfaVocabulary DEF Mtdfa!Multiplied, cell
<1>5. LeafIs(p, s, k, cell)
  BY <1>1, <1>4, ProductCellIs
<1> HIDE DEF c
<1>6. /\ c = FalseCell \/ k \notin Agreeing(p, s.taus) => cell = FalseCell
      /\ c # FalseCell /\ k \in Agreeing(p, s.taus) =>
           /\ cell.kind = "state" /\ cell.to = NextRoot(p, s, k)
           /\ cell.acc <=> c = TrueCell \/ c.last
  BY <1>5 DEF LeafIs, c
<1>7. c # FalseCell /\ k \in Agreeing(p, s.taus)
  <2>1. ~CellWon(FalseCell, W)
    BY DEF CellWon, FalseCell
  <2> QED
    BY <1>1, <1>6, <2>1
<1>8. /\ cell.kind = "state" /\ cell.kind # "true"
      /\ cell.acc \/ cell.to \in W
      /\ cell.to = NextRoot(p, s, k)
      /\ cell.acc <=> c = TrueCell \/ c.last
  BY <1>1, <1>6, <1>7 DEF CellWon
<1>9. m.dst = s \/ m.dst \in W
  BY <1>3, <1>8
<1>10. \A l \in Agreeing(p, s.taus) : Takes(m, l) => l = k
  <2> SUFFICES ASSUME NEW l \in Agreeing(p, s.taus), Takes(m, l) PROVE l = k
    OBVIOUS
  <2>1. <<l.i, l.o>> = <<i, k.o>>
    BY <1>3 DEF Takes
  <2>2. l.i = k.i /\ l.o = k.o
    BY <1>1, <2>1
  <2>3. s.taus \in Vectors(p)
    BY ProductStatesMean
  <2> QED
    BY <1>7, <2>2, <2>3 DEF AnswersEachChoice
<1>11. k \in Agreeing(p, s.taus) /\ k.i = i /\ Takes(m, k)
  BY <1>1, <1>3, <1>7 DEF Takes
<1>12. /\ c # FalseCell
       /\ c = TrueCell \/ c.last \/ (m.dst \in W /\ m.dst = NextRoot(p, s, k))
  BY <1>3, <1>7, <1>8
<1>13. \A x \in m.guard : x[1] = i
  BY <1>3
<1> QED
  BY <1>9, <1>10, <1>11, <1>12, <1>13 DEF m, c

\* The root that stands for a product state with a goal left.
RootOf(x) == [goal |-> x.goal.psi, taus |-> x.taus]

\* In a state with a goal left, the residual after l: fulfilled, or the root next to it.
LEMMA RootMeans ==
  ASSUME NEW p \in Problems, NEW x \in ReachedStates(p), x.goal.kind = "next", NEW l \in Agreeing(p, x.taus),
         Mtdfa!GoalCell(p, RootOf(x).goal, l) # FalseCell
  PROVE  LET c == Mtdfa!GoalCell(p, RootOf(x).goal, l)
             y == Successor(p, x, l)
         IN  /\ c = TrueCell \/ c.last => Accepting(y.goal)
             /\ ~Accepting(y.goal) => y.goal.kind = "next" /\ RootOf(y) = NextRoot(p, RootOf(x), l)
<1> DEFINE c == Mtdfa!GoalCell(p, RootOf(x).goal, l)
           y == Successor(p, x, l)
<1>1. /\ x.goal.psi \in p.formulas /\ l \in Letter
      /\ y.goal = p.progress[x.goal.psi][l] /\ y.taus = Delta(p, x.taus, l)
  BY ProblemsWellFormed, RoundMeans
<1>2. RootOf(x).goal = x.goal.psi /\ RootOf(x).taus = x.taus
  BY DEF RootOf
<1>3. c = y.goal
  <2>1. x.goal.psi # Mtdfa!Fulfilled
    BY <1>1, MtdfaProblems
  <2> QED
    BY <1>1, <1>2, <2>1 DEF Mtdfa!GoalCell
<1>4. y.goal \in Cells(p.formulas)
  <2>1. p.progress \in [p.formulas -> [Letter -> Cells(p.formulas)]]
    BY ProblemsWellFormed DEF WellFormed
  <2> QED
    BY <1>1, <2>1
<1> HIDE DEF y, c
<1>5. /\ c.kind \in {"false", "true", "next"}
      /\ c.kind = "false" => c = FalseCell
      /\ c.kind = "true" <=> c = TrueCell
      /\ c.kind = "next" => c.last \in BOOLEAN
  BY <1>3, <1>4, CellNext
<1>6. c # FalseCell
  BY DEF c
<1>7. c.kind = "true" \/ c.kind = "next"
  BY <1>5, <1>6
<1>8. c = TrueCell \/ c.last => Accepting(y.goal)
  BY <1>3, <1>5, <1>7 DEF Accepting
<1>9. ASSUME ~Accepting(y.goal)
      PROVE  y.goal.kind = "next" /\ RootOf(y) = NextRoot(p, RootOf(x), l)
  <2>1. c.kind = "next" /\ c # TrueCell
    BY <1>3, <1>5, <1>7, <1>9 DEF Accepting
  <2>2. NextRoot(p, RootOf(x), l) = [goal |-> c.psi, taus |-> Delta(p, x.taus, l)]
    BY <1>2, <2>1 DEF NextRoot, c
  <2>3. RootOf(y) = [goal |-> c.psi, taus |-> Delta(p, x.taus, l)]
    BY <1>1, <1>3 DEF RootOf, y
  <2> QED
    BY <1>3, <2>1, <2>2, <2>3
<1> QED
  BY <1>8, <1>9 DEF y, c

LEMMA MtdfaControllerGuides ==
  ASSUME NEW p \in Problems, AnswersEachChoice(p), NEW auts, Knows(p, auts),
         NEW rs, rs = Mtdfa!Multiplied(p, auts), Mtdfa!Start(p) \in Winning(rs), NEW my, my = MtdfaMealy(rs)
  PROVE  /\ IsMealy(my) /\ Mtdfa!Start(p) \in DOMAIN my
         /\ Guided(WithTau(p, ControllerAsTransducer(my, Mtdfa!Start(p))))
<1> DEFINE D == Mtdfa!ProductStates(p, auts)
           n == Cardinality(DOMAIN rs)
           w == MtdfaRounds(rs)
           A == w[n]
           none == {}
           X == {x \in ReachedStates(p) : x.goal.kind = "next" /\ RootOf(x) \in A}
           H == {<<x, RootOf(x)>> : x \in X}
           rank == [c \in A |-> RoundOf(w, c)]
           s0 == Mtdfa!Start(p)
<1>1. DOMAIN rs = D /\ IsFiniteSet(D)
  BY ProductFinite DEF Mtdfa!Multiplied
<1>2. n \in Nat /\ n \in 0 .. n /\ n >= Cardinality(D)
  BY <1>1, FS_CardinalityType
<1>3. w \in Rounds(D, none, WonStep(rs), n)
  BY <1>1, MtdfaRoundsMean
<1>4. MonotoneStep(D, WonStep(rs)) /\ none \in SUBSET D /\ none \subseteq WonStep(rs)[none]
  BY <1>1, WonGrows
<1>5. A = Winning(rs)
  BY <1>2 DEF Winning, MtdfaRounds
<1>6. A \subseteq D /\ s0 \in A
  BY <1>2, <1>3, <1>5 DEF Rounds
<1>7. my = [s \in A |-> {MtdfaMove(rs, s, i) : i \in IFree}]
  BY <1>5 DEF MtdfaMealy, MtdfaMove
<1> HIDE DEF n, w
<1>8. ASSUME NEW s \in A
      PROVE  /\ RoundOf(w, s) \in Nat /\ RowWon(rs[s], Nearer(w, s))
             /\ \A x \in Nearer(w, s) : x \in A /\ RoundOf(w, x) \in Nat /\ RoundOf(w, x) < RoundOf(w, s)
  <2>1. s \notin none
    OBVIOUS
  <2> HIDE DEF none
  <2>2. /\ RoundOf(w, s) \in Nat /\ Nearer(w, s) \in SUBSET D /\ s \in WonStep(rs)[Nearer(w, s)]
        /\ \A x \in Nearer(w, s) : x \in A /\ RoundOf(w, x) \in Nat /\ RoundOf(w, x) < RoundOf(w, s)
    BY <1>1, <1>2, <1>3, <1>4, <2>1, NearerMeans
  <2>3. RowWon(rs[s], Nearer(w, s))
    BY <1>1, <2>2 DEF WonStep
  <2> QED
    BY <2>2, <2>3
<1> HIDE DEF none
<1>9. ASSUME NEW s \in A, NEW i \in IFree
      PROVE  /\ MtdfaMove(rs, s, i).dst = s \/ MtdfaMove(rs, s, i).dst \in Nearer(w, s)
             /\ \A x \in MtdfaMove(rs, s, i).guard : x[1] = i
             /\ \E l \in Agreeing(p, s.taus) : l.i = i /\ Takes(MtdfaMove(rs, s, i), l)
             /\ \A l \in Agreeing(p, s.taus) : Takes(MtdfaMove(rs, s, i), l) =>
                  LET c == Mtdfa!GoalCell(p, s.goal, l)
                  IN  /\ c # FalseCell
                      /\ \/ c = TrueCell \/ c.last
                         \/ /\ MtdfaMove(rs, s, i).dst \in Nearer(w, s)
                            /\ MtdfaMove(rs, s, i).dst = NextRoot(p, s, l)
  <2>1. s \in D /\ RowWon(rs[s], Nearer(w, s))
    BY <1>6, <1>8
  <2> QED
    BY <2>1, MtdfaMoveMeans DEF w
<1>10. IsMealy(my)
  <2> SUFFICES ASSUME NEW s \in A
               PROVE  /\ IsFiniteSet(my[s])
                      /\ \A e \in my[s] : e.dst \in A
                      /\ \A e, f \in my[s] : \A x \in e.guard : x \in f.guard => e = f
    BY <1>7 DEF IsMealy
  <2>1. my[s] = {MtdfaMove(rs, s, i) : i \in IFree}
    BY <1>7
  <2>2. IsFiniteSet(IFree)
    <3>1. \A i \in IFree : \E l \in Agreeing(p, s.taus) : l.i = i
      BY <1>9
    <3>2. Agreeing(p, s.taus) \subseteq Letter
      BY DEF Agreeing, Emitted
    <3> QED
      BY <3>1, <3>2, FreeFinite
  <2> DEFINE f0 == [i \in IFree |-> MtdfaMove(rs, s, i)]
  <2>3. f0 \in Surjection(IFree, my[s])
    BY <2>1 DEF Surjection
  <2>4. IsFiniteSet(my[s])
    BY <2>2, <2>3, FS_Surjection
  <2>5. \A e \in my[s] : e.dst \in A
    BY <1>8, <1>9, <2>1
  <2>6. ASSUME NEW e \in my[s], NEW f \in my[s], NEW x \in e.guard, x \in f.guard
        PROVE  e = f
    <3>1. PICK i \in IFree : e = MtdfaMove(rs, s, i)
      BY <2>1
    <3>2. PICK j \in IFree : f = MtdfaMove(rs, s, j)
      BY <2>1
    <3>3. x[1] = i /\ x[1] = j
      BY <1>9, <2>6, <3>1, <3>2
    <3> QED
      BY <3>1, <3>2, <3>3
  <2> QED
    BY <2>4, <2>5, <2>6
<1>11. DOMAIN my = A
  BY <1>7
<1>12. <<InitialState(p), s0>> \in H
  <2>1. InitialState(p) \in ReachedStates(p) /\ InitialState(p).goal.kind = "next"
        /\ <<InitialState(p).goal.psi, InitialState(p).taus>> = InitialPosition(p)
    BY ProblemsWellFormed, InitialReached
  <2>2. InitialState(p).goal.psi = p.phi /\ InitialState(p).taus = InitialVector(p)
    BY <2>1 DEF InitialPosition
  <2>3. RootOf(InitialState(p)) = s0
    BY <2>2, MtdfaVocabulary DEF RootOf, Mtdfa!Start
  <2>4. InitialState(p) \in X
    BY <1>6, <2>1, <2>3
  <2> QED
    BY <2>3, <2>4
<1>13. ASSUME NEW x, NEW c, <<x, c>> \in H
       PROVE  Answers(p, my, H, rank, x, c)
  <2>1. c = RootOf(x) /\ x \in ReachedStates(p) /\ x.goal.kind = "next" /\ c \in A /\ c.taus = x.taus
    <3>1. PICK z \in X : <<x, c>> = <<z, RootOf(z)>>
      BY <1>13
    <3>2. x \in X /\ c = RootOf(x)
      BY <3>1
    <3>3. RootOf(x).taus = x.taus
      BY DEF RootOf
    <3> HIDE DEF A
    <3> QED
      BY <3>2, <3>3
  <2>2. \A y \in ReachedStates(p) : y.goal.kind = "next" /\ RootOf(y) \in A => <<y, RootOf(y)>> \in H
    OBVIOUS
  <2>3. \A y \in A : rank[y] = RoundOf(w, y)
    OBVIOUS
  <2>4. my[c] = {MtdfaMove(rs, c, i) : i \in IFree}
    BY <1>7, <2>1
  <2> HIDE DEF A, H, X, rank
  <2>5. c \in DOMAIN my /\ rank[c] \in Nat
    BY <1>8, <1>11, <2>1, <2>3
  <2>6. ASSUME NEW i \in IFree
        PROVE  \E l \in Agreeing(p, x.taus) : l.i = i /\ \E e \in my[c] : Takes(e, l)
    BY <1>9, <2>1, <2>4
  <2>7. ASSUME NEW l \in Agreeing(p, x.taus), NEW e \in my[c], Takes(e, l)
        PROVE  \/ Accepting(Successor(p, x, l).goal)
               \/ <<Successor(p, x, l), e.dst>> \in H /\ rank[e.dst] < rank[c]
    <3> SUFFICES ASSUME ~Accepting(Successor(p, x, l).goal)
                 PROVE  <<Successor(p, x, l), e.dst>> \in H /\ rank[e.dst] < rank[c]
      OBVIOUS
    <3> DEFINE y == Successor(p, x, l)
               g == Mtdfa!GoalCell(p, c.goal, l)
    <3>1. PICK i \in IFree : e = MtdfaMove(rs, c, i)
      BY <2>4
    <3>2. /\ g # FalseCell
          /\ \/ g = TrueCell \/ g.last
             \/ e.dst \in Nearer(w, c) /\ e.dst = NextRoot(p, c, l)
      BY <1>9, <2>1, <2>7, <3>1
    <3>3. /\ g = TrueCell \/ g.last => Accepting(y.goal)
          /\ ~Accepting(y.goal) => y.goal.kind = "next" /\ RootOf(y) = NextRoot(p, c, l)
      BY <2>1, <3>2, RootMeans
    <3>4. y \in ReachedStates(p)
      BY <2>1, ProblemsWellFormed, SuccessorReached
    <3>5. e.dst = RootOf(y) /\ e.dst \in A /\ rank[e.dst] < rank[c] /\ y.goal.kind = "next"
      BY <1>8, <2>1, <2>3, <3>2, <3>3
    <3> QED
      BY <2>2, <3>4, <3>5
  <2> QED
    BY <2>1, <2>5, <2>6, <2>7 DEF Answers
<1> HIDE DEF A, H, X, rank, s0
<1>14. Guided(WithTau(p, ControllerAsTransducer(my, s0)))
  BY <1>6, <1>10, <1>11, <1>12, <1>13, ProblemsWellFormed, MachineGuides
<1> QED
  BY <1>6, <1>10, <1>11, <1>14 DEF s0

-----------------------------------------------------------------------------
(* The knowledge the methods did not refuse.                                *)

LEMMA NoOverlapMeans ==
  ASSUME NEW tau, IsTransducer(tau), NEW q \in tau.states, NEW l,
         \A m, n \in Matching(tau, q, l) : ~(m < n)
  PROVE  Unambiguous(tau, q, l)
<1>1. Matching(tau, q, l) \subseteq Nat
  <2>1. Matching(tau, q, l) \subseteq DOMAIN tau.edges[q]
    BY DEF Matching
  <2> QED
    BY <2>1, EdgesType
<1>2. \A m, n \in Nat : m = n \/ m < n \/ n < m
  OBVIOUS
<1> QED
  BY <1>1, <1>2 DEF Unambiguous

LEMMA NodesOrderly ==
  ASSUME NEW p, WellFormed(p), NEW ns, Complete(p, ns), \A s \in DOMAIN ns : ~Nondeterministic(p, s.taus)
  PROVE  Orderly(p, DOMAIN ns)
<1>1. ASSUME NEW s \in DOMAIN ns, NEW t \in DOMAIN p.taus, NEW l
      PROVE  Unambiguous(p.taus[t], s.taus[t], l)
  <2>1. s.taus[t] \in p.taus[t].states /\ IsTransducer(p.taus[t])
    BY DEF Complete, ReachedStates, Vectors, WellFormed
  <2>2. ~Overlap(p.taus[t], s.taus[t])
    BY DEF Nondeterministic
  <2>3. \A m, n \in Matching(p.taus[t], s.taus[t], l) : ~(m < n)
    BY <2>2 DEF Overlap, Matching
  <2> QED
    BY <2>1, <2>3, NoOverlapMeans
<1>2. ASSUME NEW s \in DOMAIN ns, NEW l \in Agreeing(p, s.taus)
      PROVE  Successor(p, s, l) \in DOMAIN ns
  <2>1. Successor(p, s, l) \in DOMAIN Guards(p, s)
    BY DEF Guards, Enabled
  <2> QED
    BY <2>1 DEF Complete, Finished
<1> QED
  BY <1>1, <1>2 DEF Orderly, Complete

LEMMA AgreementsOrderly ==
  ASSUME NEW p \in Problems, NEW auts, Knows(p, auts)
  PROVE  Orderly(p, {s \in ReachedStates(p) : \A t \in DOMAIN p.taus : s.taus[t] \in DOMAIN auts[t]})
<1> DEFINE N == {s \in ReachedStates(p) : \A t \in DOMAIN p.taus : s.taus[t] \in DOMAIN auts[t]}
<1>1. WellFormed(p) /\ \A t \in DOMAIN p.taus : IsTransducer(p.taus[t])
  BY ProblemsWellFormed DEF WellFormed
<1>2. \A t \in DOMAIN p.taus : AgreementAutomaton(p.taus[t], auts[t])
  BY DEF Knows
<1>3. InitialState(p) \in N
  <2>1. InitialState(p) \in ReachedStates(p)
    BY <1>1, InitialReached
  <2>2. \A t \in DOMAIN p.taus : InitialState(p).taus[t] = p.taus[t].init
    BY DEF InitialState, InitialVector
  <2> QED
    BY <1>2, <2>1, <2>2 DEF AgreementAutomaton
<1>4. ASSUME NEW s \in N, NEW t \in DOMAIN p.taus, NEW l \in p.taus[t].emits[s.taus[t]]
      PROVE  Unambiguous(p.taus[t], s.taus[t], l)
  <2>1. s.taus[t] \in DOMAIN auts[t] /\ s.taus[t] \in p.taus[t].states /\ ~Mtdfa!NarrowedOverlap(p.taus[t], s.taus[t])
    BY <1>2 DEF AgreementAutomaton
  <2>2. \A m, n \in Matching(p.taus[t], s.taus[t], l) : ~(m < n)
    BY <2>1 DEF Mtdfa!NarrowedOverlap, Mtdfa!Narrowed, Matching
  <2> QED
    BY <1>1, <2>1, <2>2, NoOverlapMeans
<1>5. ASSUME NEW s \in N, NEW l \in Agreeing(p, s.taus)
      PROVE  Successor(p, s, l) \in N
  <2>1. Successor(p, s, l) \in ReachedStates(p)
    BY <1>1, SuccessorReached
  <2>2. ASSUME NEW t \in DOMAIN p.taus
        PROVE  Successor(p, s, l).taus[t] \in DOMAIN auts[t]
    <3>1. Successor(p, s, l).taus[t] = Target(p.taus[t], s.taus[t], l)
      BY DEF Successor, Delta, Target
    <3>2. l \in p.taus[t].emits[s.taus[t]] /\ Matching(p.taus[t], s.taus[t], l) # {}
      BY DEF Agreeing, Emitted, DeltaDefined
    <3> QED
      BY <1>1, <1>2, <3>1, <3>2, LiftedMeans
  <2> QED
    BY <2>1, <2>2
<1> QED
  BY <1>3, <1>4, <1>5 DEF Orderly

-----------------------------------------------------------------------------
(* The verifier on a problem whose every play comes to acceptance.           *)

LEMMA VerifierThrows ==
  /\ Verifier!Letter = Letter
  /\ \A p, s, l : Verifier!ThrowsOn(p, s, l) <=> ThrowsOn(p, s, l)
BY DEF Verifier!Letter, Letter, Verifier!ThrowsOn, ThrowsOn, Verifier!Matching, Matching,
       Verifier!Cardinality, Cardinality

\* The environment avoids acceptance from no state of a guided play: of the bad states
\* on it, the one nearest to acceptance would have a nearer one.
LEMMA GuidedSafe ==
  ASSUME Guided(vProblem), WellFormed(vProblem), Closed(vProblem, DOMAIN info), InfoMeans(vProblem, info),
         bad \subseteq DOMAIN info, \A s \in bad : ~Accepting(s.goal), Verifier!Shrunk(info, bad) = bad
  PROVE  Verifier!Correct(info, bad)
<1> DEFINE P == vProblem
<1>1. PICK A, rank : /\ InitialState(P) \in A /\ A \subseteq ReachedStates(P)
                     /\ \A s \in A : Approaches(P, A, rank, s)
  BY DEF Guided
<1>2. ASSUME NEW s \in A, s \in DOMAIN info
      PROVE  /\ ~info[s].deadEnd
             /\ Verifier!IntoSome(info, s, bad) => \E r \in A \cap bad : rank[r] < rank[s]
  <2>1. /\ info[s].deadEnd <=> \E i \in IFree : info[s].edges[i] = <<>>
        /\ \A i \in IFree : Bucketed(P, s, i, info[s].edges[i])
    BY <1>2 DEF InfoMeans
  <2>2. /\ \A i \in IFree : \E l \in Agreeing(P, s.taus) : l.i = i
        /\ \A l \in Agreeing(P, s.taus) :
             \/ Accepting(Successor(P, s, l).goal)
             \/ Successor(P, s, l) \in A /\ rank[Successor(P, s, l)] < rank[s]
    BY <1>1 DEF Approaches
  <2>3. \A i \in IFree : info[s].edges[i] # <<>>
    BY <2>1, <2>2 DEF Bucketed
  <2>4. ASSUME Verifier!IntoSome(info, s, bad)
        PROVE  \E r \in A \cap bad : rank[r] < rank[s]
    <3>1. PICK i \in IFree : info[s].edges[i] # <<>> /\ info[s].edges[i][2] \in bad
      BY <2>4 DEF Verifier!IntoSome, Verifier!NoEdge
    <3>2. PICK l \in Agreeing(P, s.taus) : info[s].edges[i] = <<l, Successor(P, s, l)>>
      BY <2>1, <3>1 DEF Bucketed
    <3>3. Successor(P, s, l) \in bad
      BY <3>1, <3>2
    <3>4. ~Accepting(Successor(P, s, l).goal)
      BY <3>3
    <3> QED
      BY <2>2, <3>3, <3>4
  <2> QED
    BY <2>1, <2>3, <2>4
<1>3. A \cap bad = {}
  <2> SUFFICES ASSUME A \cap bad # {} PROVE FALSE
    OBVIOUS
  <2> DEFINE R == {rank[s] : s \in A \cap bad}
  <2>1. \A s \in A : rank[s] \in Nat
    BY <1>1 DEF Approaches
  <2>2. R \subseteq Nat /\ R # {}
    BY <2>1
  <2>3. First(R) \in R /\ \A m \in R : First(R) <= m
    <3> HIDE DEF R
    <3> QED
      BY <2>2, FirstIsMember
  <2>4. PICK s \in A \cap bad : rank[s] = First(R)
    BY <2>3
  <2>5. s \in DOMAIN info /\ s \in Verifier!Shrunk(info, bad)
    BY <2>4
  <2>6. info[s].deadEnd \/ Verifier!IntoSome(info, s, bad)
    BY <2>5 DEF Verifier!Shrunk
  <2>7. PICK r \in A \cap bad : rank[r] < rank[s]
    BY <1>2, <2>4, <2>5, <2>6
  <2>8. rank[r] \in R /\ rank[r] \in Nat /\ rank[s] \in Nat
    BY <2>1, <2>4, <2>7
  <2>9. rank[s] <= rank[r]
    BY <2>3, <2>4, <2>8
  <2> QED
    BY <2>7, <2>8, <2>9
<1>4. InitialState(P) \in A /\ InitialState(P) \in DOMAIN info /\ Verifier!Start = InitialState(P)
  BY <1>1, VerifierVocabulary DEF Closed, Verifier!Start
<1> QED
  BY <1>2, <1>3, <1>4 DEF Verifier!Correct

-----------------------------------------------------------------------------
(* The self-check.                                                          *)

\* The explicit product refuses an overlap wherever it finds one, and has a controller
\* only when the game on the materialized product is won.
DfaWonInv ==
  /\ phase = "build" => \A s \in DOMAIN nodes : Waits(worklist, s) \/ ~Nondeterministic(problem, s.taus)
  /\ phase \in {"built", "materialized"} \/ result = "controller" =>
       Complete(problem, nodes) /\ \A s \in DOMAIN nodes : ~Nondeterministic(problem, s.taus)
  /\ result = "controller" => product = Materialized(nodes) /\ WinsArena(product, InitialState(problem))

\* So does Method 3, on the product of the goal with all of the agreement automata.
MtdfaWonInv ==
  mResult = "controller" =>
    /\ Len(agreements) = Len(problem.taus) /\ rows = Mtdfa!Multiplied(problem, agreements)
    /\ Mtdfa!Start(problem) \in Mtdfa!Winning(rows)

\* A self-check is of a controller that guides every play to acceptance, and of
\* states none of which throws.
SelfInv ==
  checked \in {"dfa-product", "mtdfa-product"} =>
    /\ WellFormed(vProblem) /\ Guided(vProblem)
    /\ \E S : Unrefusing(vProblem, S) /\ DOMAIN vGraph \subseteq S
    /\ vPhase \in {"build", "shrink", "done"}
    /\ vPhase = "build" => VerifierInv
    /\ vPhase = "shrink" => /\ Closed(vProblem, DOMAIN info) /\ InfoMeans(vProblem, info)
                            /\ bad \subseteq DOMAIN info /\ \A s \in bad : ~Accepting(s.goal)
    /\ vPhase = "done" => ok

LEMMA ExploreDfaWon == DfaInv /\ DfaWonInv /\ Explore => DfaWonInv'
<1> SUFFICES ASSUME DfaInv, DfaWonInv, Explore PROVE DfaWonInv'
  OBVIOUS
<1> DEFINE D   == DOMAIN nodes
           s0  == Head(worklist)
           new == DOMAIN Guards(problem, s0) \ D
<1>1. /\ problem \in Problems /\ WellFormed(problem) /\ phase = "build" /\ result = "none"
      /\ IsFiniteSet(D) /\ D \subseteq ReachedStates(problem) /\ worklist \in Seq(D) /\ worklist # <<>>
      /\ \A s \in D : Waits(worklist, s) \/ ~Nondeterministic(problem, s.taus)
  BY ProblemsWellFormed DEF DfaInv, DfaWonInv, Explore
<1>2. /\ UNCHANGED <<problem, phase, product, result>> /\ DOMAIN nodes' = D \cup new
      /\ ~Nondeterministic(problem, s0.taus)
  BY DEF Explore
<1>3. PICK ns \in Orders(new) : worklist' = Tail(worklist) \o ns
  BY DEF Explore
<1>4. s0 \in D
  BY <1>1, HeadTailProperties
<1>5. IsFiniteSet(DOMAIN Guards(problem, s0))
  BY <1>1, <1>4, GuardsReached
<1>6. IsFiniteSet(new) /\ new \cap D = {}
  BY <1>5, FS_Subset
<1> HIDE DEF new
<1>7. /\ \A x \in new : Waits(worklist', x)
      /\ \A x : Waits(worklist, x) /\ x # s0 => Waits(worklist', x)
  BY <1>1, <1>3, <1>6, WorklistStep
<1>8. \A s \in D \cup new : Waits(worklist', s) \/ ~Nondeterministic(problem, s.taus)
  BY <1>1, <1>2, <1>7
<1> QED
  BY <1>1, <1>2, <1>8 DEF DfaWonInv

LEMMA RestDfaWon ==
  DfaInv /\ DfaWonInv /\ (ThrowNondeterministic \/ FinishBuild \/ Materialize \/ Solve \/ UNCHANGED vars) => DfaWonInv'
<1> SUFFICES ASSUME DfaInv, DfaWonInv,
                    ThrowNondeterministic \/ FinishBuild \/ Materialize \/ Solve \/ UNCHANGED vars
             PROVE  DfaWonInv'
  OBVIOUS
<1>1. CASE ThrowNondeterministic
  BY <1>1 DEF ThrowNondeterministic, DfaWonInv
<1>2. CASE FinishBuild
  <2>1. \A s : ~ Waits(worklist, s)
    BY <1>2 DEF FinishBuild, Waits
  <2>2. Complete(problem, nodes)
    BY <1>2, <2>1 DEF FinishBuild, DfaInv, Complete
  <2> QED
    BY <1>2, <2>1, <2>2 DEF FinishBuild, DfaInv, DfaWonInv
<1>3. CASE Materialize
  BY <1>3 DEF Materialize, DfaInv, DfaWonInv
<1>4. CASE Solve
  BY <1>4 DEF Solve, DfaInv, DfaWonInv
<1>5. CASE UNCHANGED vars
  BY <1>5 DEF vars, DfaWonInv
<1> QED
  BY <1>1, <1>2, <1>3, <1>4, <1>5

LEMMA DfaWonInvariant == ToolSpec => []DfaWonInv
<1>1. Init => DfaWonInv
  <2> SUFFICES ASSUME Init PROVE DfaWonInv
    OBVIOUS
  <2> DEFINE s0 == InitialState(problem)
  <2>1. /\ phase = "build" /\ result = "none" /\ worklist = <<s0>> /\ nodes = [s \in {s0} |-> Fresh(s)]
    BY DEF Init
  <2> HIDE DEF s0
  <2>2. DOMAIN nodes = {s0} /\ Waits(worklist, s0)
    BY <2>1 DEF Waits
  <2> QED
    BY <2>1, <2>2 DEF DfaWonInv
<1>2. DfaInv /\ DfaWonInv /\ [Next]_vars => DfaWonInv'
  BY ExploreDfaWon, RestDfaWon DEF Next
<1> QED
  BY <1>1, <1>2, ToolRunsDfa, DfaInvariant, PTL DEF Spec

LEMMA MtdfaWonInvariant == ToolSpec => []MtdfaWonInv
<1>1. ToolInit => MtdfaWonInv
  BY DEF ToolInit, CaseInit, Mtdfa!Init, MtdfaWonInv
<1>2. MtdfaInv /\ MtdfaWonInv /\ [ToolNext]_<<methodVars, vVars>> => MtdfaWonInv'
  <2> SUFFICES ASSUME MtdfaInv, MtdfaWonInv, [ToolNext]_<<methodVars, vVars>> PROVE MtdfaWonInv'
    OBVIOUS
  <2>1. CASE Mtdfa!Expand \/ Mtdfa!Lift \/ Mtdfa!Multiply
    BY <2>1 DEF Mtdfa!Expand, Mtdfa!Lift, Mtdfa!Multiply, MtdfaInv, MtdfaWonInv
  <2>2. CASE Mtdfa!LiftRefused
    BY <2>2 DEF Mtdfa!LiftRefused, MtdfaWonInv
  <2>3. CASE Mtdfa!Solve
    BY <2>3 DEF Mtdfa!Solve, MtdfaInv, MtdfaWonInv
  <2>4. CASE UNCHANGED <<problem, mVars>>
    BY <2>4 DEF mVars, MtdfaWonInv
  <2> QED
    BY <2>1, <2>2, <2>3, <2>4, ToolMtdfaStep DEF Mtdfa!Next
<1> QED
  BY <1>1, <1>2, MtdfaInvariant, PTL DEF ToolSpec

\* The check of a machine that guides every play begins as SelfInv says.
LEMMA SelfCheckBegins ==
  ASSUME ToolInv, NEW who, NEW my, NEW init, Check(who, ControllerAsTransducer(my, init)),
         IsMealy(my), init \in DOMAIN my, NEW N, Orderly(problem, N),
         Guided(WithTau(problem, ControllerAsTransducer(my, init)))
  PROVE  SelfInv'
<1> DEFINE tc == ControllerAsTransducer(my, init)
<1>1. /\ problem \in Problems /\ path = <<>> /\ cycleAt = 0 /\ Verifier!Call(problem, tc)
  BY DEF Check, ToolInv
<1>2. vProblem' = WithTau(problem, tc)
  BY <1>1 DEF Verifier!Call, WithTau
<1>3. WellFormed(problem) /\ IsTransducer(tc)
  BY <1>1, ProblemsWellFormed, ControllerMeans
<1>4. PICK S : Unrefusing(WithTau(problem, tc), S)
  BY <1>3, MachineIsOrderly
<1> HIDE DEF tc
<1>5. WellFormed(vProblem')
  BY <1>2, <1>3, AddTau
<1>6. Guided(vProblem') /\ Unrefusing(vProblem', S)
  BY <1>2, <1>4 DEF tc
<1>7. VerifierInv'
  BY <1>1, <1>5, CallVerifier
<1>8. vPhase' = "build" /\ DOMAIN vGraph' = {InitialState(vProblem')}
  BY <1>1, VerifierVocabulary DEF Verifier!Call
<1>9. DOMAIN vGraph' \subseteq S
  BY <1>6, <1>8 DEF Unrefusing
<1> QED
  BY <1>5, <1>6, <1>7, <1>8, <1>9 DEF SelfInv

LEMMA SelfCheckDfaBegins ==
  ASSUME ToolInv, DfaInv, DfaWonInv, SelfCheckDfa
  PROVE  SelfInv'
<1> DEFINE my == DfaMealy(product)
           s0 == InitialState(problem)
<1>1. /\ result = "controller" /\ Check("dfa-product", ControllerAsTransducer(my, s0))
      /\ problem \in ModelChecked
  BY DEF SelfCheckDfa, DfaController, Check
<1>2. /\ Complete(problem, nodes) /\ \A s \in DOMAIN nodes : ~Nondeterministic(problem, s.taus)
      /\ product = Materialized(nodes) /\ WinsArena(product, s0)
  BY <1>1 DEF DfaWonInv
<1>3. WellFormed(problem) /\ AnswersEachChoice(problem)
  BY <1>1, ProblemsWellFormed, KnowledgeAnswersEachChoice DEF DfaInv
<1>4. IsMealy(my) /\ s0 \in DOMAIN my /\ Guided(WithTau(problem, ControllerAsTransducer(my, s0)))
  BY <1>2, <1>3, DfaControllerGuides
<1>5. Orderly(problem, DOMAIN nodes)
  BY <1>2, <1>3, NodesOrderly
<1> HIDE DEF my, s0
<1> QED
  BY <1>1, <1>4, <1>5, SelfCheckBegins

LEMMA SelfCheckMtdfaBegins ==
  ASSUME ToolInv, MtdfaInv, MtdfaWonInv, SelfCheckMtdfa
  PROVE  SelfInv'
<1> DEFINE my == MtdfaMealy(rows)
           s0 == Mtdfa!Start(problem)
           N  == {s \in ReachedStates(problem) : \A t \in DOMAIN problem.taus : s.taus[t] \in DOMAIN agreements[t]}
<1>1. /\ mResult = "controller" /\ Check("mtdfa-product", ControllerAsTransducer(my, s0))
      /\ problem \in ModelChecked /\ problem \in Problems
  BY DEF SelfCheckMtdfa, MtdfaController, Check, MtdfaInv
<1>2. /\ Len(agreements) = Len(problem.taus) /\ rows = Mtdfa!Multiplied(problem, agreements)
      /\ s0 \in Winning(rows)
  BY <1>1, MtdfaGame DEF MtdfaWonInv
<1>3. Knows(problem, agreements)
  <2>1. DOMAIN agreements = DOMAIN problem.taus
    <3>1. DOMAIN agreements = 1 .. Len(agreements)
      BY LenProperties DEF MtdfaInv
    <3> QED
      BY <1>1, <1>2, <3>1, TausType
  <2> QED
    BY <2>1 DEF Knows, MtdfaInv
<1>4. AnswersEachChoice(problem)
  BY <1>1, KnowledgeAnswersEachChoice
<1>5. IsMealy(my) /\ s0 \in DOMAIN my /\ Guided(WithTau(problem, ControllerAsTransducer(my, s0)))
  BY <1>1, <1>2, <1>3, <1>4, MtdfaControllerGuides
<1>6. Orderly(problem, N)
  BY <1>1, <1>3, AgreementsOrderly
<1> HIDE DEF my, s0, N
<1> QED
  BY <1>1, <1>5, <1>6, SelfCheckBegins

LEMMA SelfCheckStep ==
  ASSUME SelfInv, checked \in {"dfa-product", "mtdfa-product"}, Verify
  PROVE  SelfInv'
<1>1. /\ Verifier!Next /\ checked' = checked
  BY DEF Verify
<1>2. /\ WellFormed(vProblem) /\ Guided(vProblem) /\ vPhase \in {"build", "shrink", "done"}
      /\ vPhase = "build" => VerifierInv
      /\ vPhase = "shrink" => /\ Closed(vProblem, DOMAIN info) /\ InfoMeans(vProblem, info)
                              /\ bad \subseteq DOMAIN info /\ \A s \in bad : ~Accepting(s.goal)
  BY DEF SelfInv
<1>3. PICK S : Unrefusing(vProblem, S) /\ DOMAIN vGraph \subseteq S
  BY DEF SelfInv
<1>4. CASE vPhase = "build" /\ Verifier!Throw
  <2>1. VerifierInv /\ vWorklist # <<>> /\ vWorklist \in Seq(DOMAIN vGraph)
    BY <1>2, <1>4 DEF VerifierInv, Verifier!Throw
  <2>2. Head(vWorklist) \in S
    BY <1>3, <2>1, HeadTailProperties
  <2>3. \E l \in Letter : ThrowsOn(vProblem, Head(vWorklist), l)
    BY <1>4, VerifierThrows DEF Verifier!Throw
  <2> QED
    BY <1>3, <2>2, <2>3 DEF Unrefusing
<1>5. CASE Verifier!Explore
  <2>1. /\ vPhase = "build" /\ VerifierInv' /\ UNCHANGED <<vProblem, vPhase>>
    BY <1>2, <1>5, ExploreVerifier DEF Verifier!Explore
  <2>2. /\ vWorklist # <<>> /\ vWorklist \in Seq(DOMAIN vGraph)
    BY <1>2, <1>5, <2>1 DEF VerifierInv, Verifier!Explore
  <2> DEFINE s0 == Head(vWorklist)
  <2>3. s0 \in S
    BY <1>3, <2>2, HeadTailProperties
  <2>4. DOMAIN vGraph' = DOMAIN vGraph \cup ({e[2] : e \in Verifier!Edges(vProblem, s0)} \ DOMAIN vGraph)
    BY <1>5 DEF Verifier!Explore
  <2>5. Verifier!Edges(vProblem, s0) = {<<l, Successor(vProblem, s0, l)>> : l \in Agreeing(vProblem, s0.taus)}
    BY VerifierVocabulary DEF Verifier!Edges
  <2>6. \A e \in Verifier!Edges(vProblem, s0) : e[2] \in S
    BY <1>3, <2>3, <2>5 DEF Unrefusing
  <2>7. DOMAIN vGraph' \subseteq S
    BY <1>3, <2>4, <2>6
  <2> QED
    BY <1>1, <1>2, <1>3, <2>1, <2>7 DEF SelfInv
<1>6. CASE Verifier!BuildInfo
  <2>1. /\ VerifierInv' /\ vPhase' = "shrink" /\ UNCHANGED <<vProblem, vGraph>>
    BY <1>2, <1>6, BuildInfoVerifier DEF Verifier!BuildInfo
  <2>2. /\ Closed(vProblem', DOMAIN info') /\ InfoMeans(vProblem', info')
        /\ bad' \subseteq DOMAIN info' /\ \A s \in bad' : ~Accepting(s.goal)
    BY <2>1 DEF VerifierInv
  <2> QED
    BY <1>2, <1>3, <2>1, <2>2 DEF SelfInv
<1>7. CASE Verifier!Shrink
  <2>1. /\ vPhase = "shrink" /\ bad' = Verifier!Shrunk(info, bad)
        /\ UNCHANGED <<vProblem, vPhase, vGraph, info>>
    BY <1>7 DEF Verifier!Shrink
  <2>2. bad' \subseteq bad
    BY <2>1 DEF Verifier!Shrunk
  <2> QED
    BY <1>2, <1>3, <2>1, <2>2 DEF SelfInv
<1>8. CASE Verifier!Decide
  <2>1. /\ vPhase = "shrink" /\ Verifier!Shrunk(info, bad) = bad
        /\ ok' = Verifier!Correct(info, bad) /\ vPhase' = IF ok' THEN "done" ELSE "extract"
        /\ UNCHANGED <<vProblem, vGraph>>
    BY <1>8 DEF Verifier!Decide, Verifier!Stable
  <2>2. Verifier!Correct(info, bad)
    BY <1>2, <2>1, GuidedSafe
  <2> QED
    BY <1>2, <1>3, <2>1, <2>2 DEF SelfInv
<1>9. ~Verifier!WitnessDeadEnd /\ ~Verifier!Follow /\ (Verifier!Throw => vPhase = "build")
  BY <1>2 DEF Verifier!WitnessDeadEnd, Verifier!Follow, Verifier!Throw
<1> QED
  BY <1>1, <1>4, <1>5, <1>6, <1>7, <1>8, <1>9 DEF Verifier!Next

\* What --dfa-product or --mtdfa-product synthesizes passes its own self-check: every
\* play that agrees with the knowledge and the controller comes nearer to acceptance with
\* each letter, so that no greatest fixpoint of the verifier's keeps a state of it; and
\* the verifier meets no two edges for one letter, which the method would have refused.
THEOREM SelfChecksPass == ToolSpec => []SelfCheckIsSafe
<1>1. ToolInit => SelfInv
  BY DEF ToolInit, SelfInv
<1>2. ToolInv /\ DfaInv /\ DfaWonInv /\ MtdfaInv /\ MtdfaWonInv /\ SelfInv /\ [ToolNext]_<<methodVars, vVars>> => SelfInv'
  <2> SUFFICES ASSUME ToolInv, DfaInv, DfaWonInv, MtdfaInv, MtdfaWonInv, SelfInv, [ToolNext]_<<methodVars, vVars>>
               PROVE  SelfInv'
    OBVIOUS
  <2>1. CASE UNCHANGED vVars
    BY <2>1 DEF vVars, SelfInv, VerifierInv
  <2>2. CASE SelfCheckDfa
    BY <2>2, SelfCheckDfaBegins
  <2>3. CASE SelfCheckMtdfa
    BY <2>3, SelfCheckMtdfaBegins
  <2>4. CASE CheckGiven
    BY <2>4 DEF CheckGiven, Check, SelfInv
  <2>5. CASE Verify
    <3>1. checked' = checked
      BY <2>5 DEF Verify
    <3> QED
      BY <2>5, <3>1, SelfCheckStep DEF SelfInv
  <2> QED
    BY <2>1, <2>2, <2>3, <2>4, <2>5 DEF ToolNext, Synthesize
<1>3. SelfInv => SelfCheckIsSafe
  BY DEF SelfInv, SelfCheckIsSafe
<1>4. ToolSpec => []DfaInv
  BY ToolRunsDfa, DfaInvariant, PTL
<1> QED
  BY <1>1, <1>2, <1>3, <1>4, ToolInvariant, DfaWonInvariant, MtdfaInvariant, MtdfaWonInvariant, PTL DEF ToolSpec
===============================================================================
