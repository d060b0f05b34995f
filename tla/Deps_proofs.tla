------------------------------- MODULE Deps_proofs -------------------------------
(***************************************************************************)
(* ltlf-ek-deps, its analysis and then its files.  The dependency analysis   *)
(* is right for every automaton and every partition: the backward search     *)
(* finds the states from which acceptance is in reach, what the greedy loop  *)
(* accumulates is determined as a whole, and it misses nothing.  And for any *)
(* dependent sets, any number of invocations, failures and crashes: nothing  *)
(* truncated is ever installed, a part file that declares dependent          *)
(* variables is covered by a transducer, and a success leaves a consistent   *)
(* pair.                                                                    *)
(***************************************************************************)
EXTENDS DependencyCore, DepsCommit, SequenceTheorems, TLAPS

(* The analysis, run_dependency_analysis *)

\* What a well-formed call gives the proofs below: an automaton whose edges
\* out of a state have exactly one that admits a letter.
LEMMA CallShape ==
  ASSUME NEW c \in Calls
  PROVE  /\ c.dfa.init \in c.dfa.states /\ c.dfa.accepting \subseteq c.dfa.states
         /\ \A s \in c.dfa.states : \A e \in c.dfa.edges[s] :
              e.guard \subseteq Letters(c.partition) /\ e.dst \in c.dfa.states
         /\ \A s \in c.dfa.states : \A l \in Letters(c.partition) :
              \E e \in c.dfa.edges[s] : l \in e.guard /\ \A x \in c.dfa.edges[s] : l \in x.guard => x = e
<1>1. WellFormed(c)
  BY CallsWellFormed
<1>2. IsDfa(c.dfa, Letters(c.partition))
  BY <1>1 DEF WellFormed
<1> DEFINE d == c.dfa
           E == [guard : SUBSET Letters(c.partition), dst : d.states]
<1>3. d.edges \in [d.states -> SUBSET E]
  BY <1>2 DEF IsDfa
<1>4. ASSUME NEW s \in d.states, NEW e \in d.edges[s]
      PROVE  e.guard \subseteq Letters(c.partition) /\ e.dst \in d.states
  <2>1. e \in E
    BY <1>3, <1>4
  <2> QED
    BY <2>1
<1> QED
  BY <1>2, <1>4 DEF IsDfa

\* The players' variables.
LEMMA PartitionShape ==
  ASSUME call \in Calls
  PROVE  /\ inputs(call.partition) \cap outputs(call.partition) = {}
         /\ inputs(call.partition) \cup outputs(call.partition) = universe(call.partition)
         /\ Letter = SUBSET universe(call.partition)
<1>1. WellFormed(call)
  BY CallsWellFormed
<1> QED
  BY <1>1 DEF WellFormed, universe, Letter, Letters

-----------------------------------------------------------------------------
\* The automaton of the call: Succ is its transition function, and the edge
\* that carries a letter is the only one.
LEMMA SuccEdge ==
  ASSUME call \in Calls, NEW s \in Dfa.states, NEW l \in Letter
  PROVE  /\ Succ(s, l) \in Dfa.states
         /\ \E e \in Dfa.edges[s] : l \in e.guard /\ e.dst = Succ(s, l)
         /\ \A e \in Dfa.edges[s] : l \in e.guard => e.dst = Succ(s, l)
<1> DEFINE e == CHOOSE x \in Dfa.edges[s] : l \in x.guard
<1>1. PICK y \in Dfa.edges[s] : l \in y.guard /\ \A x \in Dfa.edges[s] : l \in x.guard => x = y
  BY CallShape DEF Dfa, Letter
<1>2. e \in Dfa.edges[s] /\ l \in e.guard
  BY <1>1
<1>3. e = y
  BY <1>1, <1>2
<1>4. Succ(s, l) = y.dst
  BY <1>3 DEF Succ
<1> QED
  BY <1>1, <1>4, CallShape DEF Dfa, Letter

\* Acceptance is in reach of every accepting state ...
LEMMA AcceptingExtend ==
  ASSUME call \in Calls
  PROVE  Dfa.accepting \subseteq Extendable
<1>1. Dfa.accepting \subseteq Dfa.states
  BY CallShape DEF Dfa
<1> QED
  BY <1>1 DEF Extendable

\* ... and of every state from which a letter leads to where it is in reach.
LEMMA ExtendableBackwards ==
  ASSUME call \in Calls, NEW p \in Dfa.states, NEW l \in Letter, Succ(p, l) \in Extendable
  PROVE  p \in Extendable
<1> DEFINE Closed(S) == \A r \in S : \A m \in Letter : Succ(r, m) \in S
<1>1. SUFFICES ASSUME NEW S \in SUBSET Dfa.states, p \in S, Closed(S)
               PROVE  S \cap Dfa.accepting # {}
  BY DEF Extendable
<1>2. Succ(p, l) \in S
  BY <1>1
<1> QED
  BY <1>1, <1>2 DEF Extendable

LEMMA PredsExtend ==
  ASSUME call \in Calls, NEW s \in Extendable
  PROVE  Preds(s) \subseteq Extendable
<1>1. SUFFICES ASSUME NEW p \in Preds(s) PROVE p \in Extendable
  OBVIOUS
<1>2. PICK e \in Dfa.edges[p] : e.dst = s /\ e.guard # {}
  BY DEF Preds
<1>3. p \in Dfa.states
  BY DEF Preds
<1>4. PICK l \in e.guard : TRUE
  BY <1>2
<1>5. l \in Letter
  BY <1>3, <1>4, CallShape DEF Dfa, Letter
<1>6. Succ(p, l) = s
  BY <1>2, <1>3, <1>4, <1>5, SuccEdge
<1> QED
  BY <1>3, <1>5, <1>6, ExtendableBackwards

\* When nothing is left to propagate, no state with acceptance in reach was
\* missed: the other states would be closed and without acceptance.
LEMMA SearchComplete ==
  ASSUME call \in Calls, NEW L \in SUBSET Dfa.states, Dfa.accepting \subseteq L,
         \A s \in L : Preds(s) \subseteq L
  PROVE  Extendable \subseteq L
<1> DEFINE S == Dfa.states \ L
<1>1. ASSUME NEW r \in S, NEW m \in Letter
      PROVE  Succ(r, m) \in S
  <2>1. PICK e \in Dfa.edges[r] : m \in e.guard /\ e.dst = Succ(r, m)
    BY <1>1, SuccEdge
  <2>2. Succ(r, m) \in Dfa.states
    BY <1>1, SuccEdge
  <2>3. r \in Preds(Succ(r, m))
    BY <2>1 DEF Preds
  <2> QED
    BY <2>2, <2>3
<1>2. S \cap Dfa.accepting = {}
  OBVIOUS
<1> QED
  BY <1>1, <1>2 DEF Extendable

-----------------------------------------------------------------------------
\* The cofactor test is the pairwise one: two letters of the relation that
\* differ on X and nowhere else.
LEMMA UndeterminedPairs ==
  ASSUME NEW R \in SUBSET Letter, NEW X
  PROVE  Undetermined(R, X) <=> \E l, m \in R : l \ X = m \ X /\ l \cap X # m \cap X
<1>1. ASSUME Undetermined(R, X)
      PROVE  \E l, m \in R : l \ X = m \ X /\ l \cap X # m \cap X
  <2>1. PICK x \in X : Exist({l \in R : x \in l}, X) \cap Exist({l \in R : x \notin l}, X) # {}
    BY <1>1 DEF Undetermined
  <2>2. PICK k : k \in Exist({l \in R : x \in l}, X) /\ k \in Exist({l \in R : x \notin l}, X)
    BY <2>1
  <2>3. PICK l \in R : x \in l /\ l \ X = k \ X
    BY <2>2 DEF Exist
  <2>4. PICK m \in R : x \notin m /\ m \ X = k \ X
    BY <2>2 DEF Exist
  <2> QED
    BY <2>1, <2>3, <2>4
<1>2. ASSUME NEW l \in R, NEW m \in R, l \ X = m \ X, l \cap X # m \cap X
      PROVE  Undetermined(R, X)
  <2>1. PICK x \in X : (x \in l /\ x \notin m) \/ (x \in m /\ x \notin l)
    BY <1>2
  <2>2. CASE x \in l /\ x \notin m
    <3>1. l \in Exist({k \in R : x \in k}, X) /\ l \in Exist({k \in R : x \notin k}, X)
      BY <1>2, <2>2 DEF Exist
    <3> QED
      BY <2>1, <3>1 DEF Undetermined
  <2>3. CASE x \in m /\ x \notin l
    <3>1. l \in Exist({k \in R : x \in k}, X) /\ l \in Exist({k \in R : x \notin k}, X)
      BY <1>2, <2>3 DEF Exist
    <3> QED
      BY <2>1, <3>1 DEF Undetermined
  <2> QED
    BY <2>1, <2>2, <2>3
<1> QED
  BY <1>1, <1>2

\* So a candidate that fails keeps failing as the accumulated set grows.
LEMMA RejectedStaysRejected ==
  ASSUME NEW R \in SUBSET Letter, NEW X, NEW Y, X \subseteq Y, Undetermined(R, X)
  PROVE  Undetermined(R, Y)
<1>1. PICK l \in R, m \in R : l \ X = m \ X /\ l \cap X # m \cap X
  BY UndeterminedPairs
<1>2. l \ Y = m \ Y /\ l \cap Y # m \cap Y
  BY <1>1
<1> QED
  BY <1>2, UndeterminedPairs

-----------------------------------------------------------------------------
\* The live-letter region is what its name says, once live is Extendable.
LEMMA RegionIsLiveLetters ==
  ASSUME call \in Calls, live = Extendable, NEW s \in Dfa.states
  PROVE  /\ s \in live => LiveRegion(s) = LiveLetters(s)
         /\ s \notin live => LiveLetters(s) = {}
<1>1. ASSUME s \notin live
      PROVE  LiveLetters(s) = {}
  BY <1>1, ExtendableBackwards DEF LiveLetters
<1>2. ASSUME s \in live, NEW l \in LiveRegion(s)
      PROVE  l \in LiveLetters(s)
  <2>1. PICK e \in Dfa.edges[s] : e.dst \in live /\ l \in e.guard
    BY <1>2 DEF LiveRegion
  <2>2. l \in Letter
    BY <2>1, CallShape DEF Dfa, Letter
  <2>3. Succ(s, l) = e.dst
    BY <2>1, <2>2, SuccEdge
  <2> QED
    BY <2>1, <2>2, <2>3 DEF LiveLetters
<1>3. ASSUME s \in live, NEW l \in LiveLetters(s)
      PROVE  l \in LiveRegion(s)
  <2>1. l \in Letter /\ Succ(s, l) \in Extendable
    BY <1>3 DEF LiveLetters
  <2>2. PICK e \in Dfa.edges[s] : l \in e.guard /\ e.dst = Succ(s, l)
    BY <2>1, SuccEdge
  <2> QED
    BY <1>3, <2>1, <2>2 DEF LiveRegion
<1> QED
  BY <1>1, <1>2, <1>3

\* The variables the role may make dependent.
Own == IF IsInput THEN inputs(call.partition) ELSE outputs(call.partition)

RegionsComputed == regions = [s \in Dfa.states |-> AnalysisRegion(s)]

\* The relation a state of the automaton is tested with, and emits.
Region(s) == IF s \in live THEN regions[s] ELSE {}

LEMMA RegionShape ==
  ASSUME call \in Calls, live = Extendable, RegionsComputed, NEW s \in Dfa.states
  PROVE  /\ Region(s) \subseteq Letter
         /\ LiveLetters(s) \subseteq Region(s)
         /\ ~IsInput => Region(s) = LiveLetters(s)
         /\ IsInput => Region(s) = {l \in Letter : \E m \in LiveLetters(s) :
                                      m \ outputs(call.partition) = l \ outputs(call.partition)}
<1>1. LiveLetters(s) \subseteq Letter
  BY DEF LiveLetters
<1>2. CASE s \notin live
  BY <1>1, <1>2, RegionIsLiveLetters DEF Region
<1>3. CASE s \in live
  <2>1. Region(s) = AnalysisRegion(s) /\ LiveRegion(s) = LiveLetters(s)
    BY <1>3, RegionIsLiveLetters DEF Region, RegionsComputed
  <2>2. CASE ~IsInput
    BY <1>1, <2>1, <2>2 DEF AnalysisRegion
  <2>3. CASE IsInput
    BY <1>1, <2>1, <2>3 DEF AnalysisRegion, Exist
  <2> QED
    BY <2>2, <2>3
<1> QED
  BY <1>2, <1>3

\* For t_in the region does not see the outputs.
LEMMA RegionIgnoresOutputs ==
  ASSUME call \in Calls, live = Extendable, RegionsComputed, NEW s \in Dfa.states, IsInput,
         NEW l \in Region(s), NEW m \in Letter,
         l \cap inputs(call.partition) = m \cap inputs(call.partition)
  PROVE  m \in Region(s)
<1> DEFINE Out == outputs(call.partition)
<1>1. l \in Letter
  BY RegionShape
<1>2. l \ Out = m \ Out
  BY <1>1, PartitionShape
<1>3. PICK k \in LiveLetters(s) : k \ Out = l \ Out
  BY RegionShape
<1> QED
  BY <1>2, <1>3, RegionShape

\* The test of the code on the projected regions is the criterion on the
\* automaton itself.
LEMMA TestIsCriterion ==
  ASSUME call \in Calls, live = Extendable, RegionsComputed, NEW X \in SUBSET Own
  PROVE  IsDependent(X) <=> Determined(X)
<1> DEFINE In == inputs(call.partition)
           Out == outputs(call.partition)
<1>0. live \subseteq Dfa.states
  BY DEF Extendable
<1>1. ASSUME NEW s \in Dfa.states
      PROVE  Undetermined(Region(s), X) <=>
               \E l, m \in LiveLetters(s) : l \cap Observed(X) = m \cap Observed(X) /\ l \cap X # m \cap X
  <2>1. LiveLetters(s) \subseteq SUBSET universe(call.partition) /\ Region(s) \subseteq Letter
    BY <1>1, RegionShape, PartitionShape DEF LiveLetters
  <2>2. CASE ~IsInput
    <3>1. ASSUME NEW l \in LiveLetters(s)
          PROVE  l \cap Observed(X) = l \ X
      BY <2>1, <2>2 DEF Observed
    <3>2. Region(s) = LiveLetters(s)
      BY <1>1, <2>2, RegionShape
    <3> QED
      BY <2>1, <3>1, <3>2, UndeterminedPairs
  <2>3. CASE IsInput
    <3>0. X \subseteq In /\ Observed(X) = In \ X
      BY <2>3 DEF Own, Observed
    <3>1. ASSUME NEW l \in Region(s), NEW m \in Region(s), l \ X = m \ X, l \cap X # m \cap X
          PROVE  \E k, n \in LiveLetters(s) : k \cap Observed(X) = n \cap Observed(X) /\ k \cap X # n \cap X
      <4>1. PICK k \in LiveLetters(s) : k \ Out = l \ Out
        BY <1>1, <2>3, <3>1, RegionShape
      <4>2. PICK n \in LiveLetters(s) : n \ Out = m \ Out
        BY <1>1, <2>3, <3>1, RegionShape
      <4>3. l \cap In = k \cap In /\ m \cap In = n \cap In
        BY <4>1, <4>2, <2>1, PartitionShape
      <4>4. k \cap (In \ X) = n \cap (In \ X)
        BY <3>1, <4>3
      <4>5. k \cap X # n \cap X
        BY <3>0, <3>1, <4>3
      <4> QED
        BY <3>0, <4>4, <4>5
    <3>2. ASSUME NEW k \in LiveLetters(s), NEW n \in LiveLetters(s),
                 k \cap Observed(X) = n \cap Observed(X), k \cap X # n \cap X
          PROVE  \E l, m \in Region(s) : l \ X = m \ X /\ l \cap X # m \cap X
      <4>1. k \cap In \in Letter /\ n \cap In \in Letter
        BY <2>1, PartitionShape
      <4>2. k \cap In \in Region(s) /\ n \cap In \in Region(s)
        BY <1>1, <2>3, <4>1, RegionShape, RegionIgnoresOutputs
      <4>3. (k \cap In) \ X = (n \cap In) \ X
        BY <3>0, <3>2
      <4>4. (k \cap In) \cap X # (n \cap In) \cap X
        BY <3>0, <3>2
      <4> QED
        BY <4>2, <4>3, <4>4
    <3> QED
      BY <2>1, <3>1, <3>2, UndeterminedPairs
  <2> QED
    BY <2>2, <2>3
<1>2. IsDependent(X) <=> \A s \in Dfa.states : s \in live => ~Undetermined(Region(s), X)
  BY <1>0 DEF IsDependent, Region
<1>3. \A s \in Dfa.states : s \notin live => ~Undetermined(Region(s), X)
  BY DEF Region, Undetermined, Exist
<1>4. Determined(X) <=> \A s \in Dfa.states : ~Undetermined(Region(s), X)
  BY <1>1 DEF Determined
<1> QED
  BY <1>2, <1>3, <1>4

-----------------------------------------------------------------------------
\* What the transducer emits, given a dependent set that is determined.
LambdaEmitted == lambda = [s \in Dfa.states |-> Totalised(Region(s))]

Emitting ==
  /\ call \in Calls /\ live = Extendable /\ RegionsComputed
  /\ dependent \subseteq Own /\ Determined(dependent) /\ LambdaEmitted

LEMMA LambdaShape ==
  ASSUME Emitting, NEW s \in Dfa.states
  PROVE  /\ Region(s) \subseteq Letter
         /\ lambda[s] = Region(s) \cup {l \in Letter \ Exist(Region(s), dependent) : l \cap dependent = {}}
         /\ dependent \subseteq universe(call.partition)
         /\ Observed(dependent) \cap dependent = {}
         /\ ~IsInput => Observed(dependent) = universe(call.partition) \ dependent
         /\ IsInput => /\ dependent \subseteq inputs(call.partition)
                       /\ Observed(dependent) = inputs(call.partition) \ dependent
<1>1. Region(s) \subseteq Letter
  BY RegionShape DEF Emitting
<1>2. lambda[s] = Totalised(Region(s))
  BY DEF Emitting, LambdaEmitted
<1>3. dependent \subseteq Own /\ Own \subseteq universe(call.partition)
  BY PartitionShape DEF Emitting, Own
<1> QED
  BY <1>1, <1>2, <1>3 DEF Totalised, Observed, Own

\* Every observation is answered ...
LEMMA LambdaTotal ==
  ASSUME Emitting, NEW s \in Dfa.states, NEW l \in Letter
  PROVE  \E m \in lambda[s] : m \cap Observed(dependent) = l \cap Observed(dependent)
<1> DEFINE U == universe(call.partition)
<1>0. Letter = SUBSET U /\ Observed(dependent) \subseteq U \ dependent
  BY PartitionShape, LambdaShape DEF Emitting
<1>1. CASE l \in Exist(Region(s), dependent)
  <2>1. PICK m \in Region(s) : m \ dependent = l \ dependent
    BY <1>1 DEF Exist
  <2>2. m \cap Observed(dependent) = l \cap Observed(dependent)
    BY <1>0, <2>1
  <2> QED
    BY <2>1, <2>2, LambdaShape
<1>2. CASE l \notin Exist(Region(s), dependent)
  <2> DEFINE m == l \ dependent
  <2>1. m \in Letter
    BY <1>0
  <2>2. m \ dependent = l \ dependent /\ m \cap dependent = {}
    OBVIOUS
  <2>3. m \notin Exist(Region(s), dependent)
    BY <1>2, <2>2 DEF Exist
  <2>4. m \in lambda[s]
    BY <2>1, <2>2, <2>3, LambdaShape
  <2>5. m \cap Observed(dependent) = l \cap Observed(dependent)
    BY <1>0
  <2> QED
    BY <2>4, <2>5
<1> QED
  BY <1>1, <1>2

\* ... with one valuation: within the region because the set is determined,
\* outside by the default, and an observation cannot be on both sides.
LEMMA RegionAnswersOnce ==
  ASSUME Emitting, NEW s \in Dfa.states, NEW l \in Region(s), NEW m \in Region(s),
         l \cap Observed(dependent) = m \cap Observed(dependent)
  PROVE  l \cap dependent = m \cap dependent
<1> DEFINE In == inputs(call.partition)
           Out == outputs(call.partition)
<1>0. /\ call \in Calls /\ live = Extendable /\ RegionsComputed
      /\ Letter = SUBSET universe(call.partition)
      /\ \A k, n \in LiveLetters(s) :
           k \cap Observed(dependent) = n \cap Observed(dependent) => k \cap dependent = n \cap dependent
  BY PartitionShape DEF Emitting, Determined
<1>1. CASE ~IsInput
  BY <1>0, <1>1, RegionShape
<1>2. CASE IsInput
  <2>1. PICK k \in LiveLetters(s) : k \ Out = l \ Out
    BY <1>0, <1>2, RegionShape
  <2>2. PICK n \in LiveLetters(s) : n \ Out = m \ Out
    BY <1>0, <1>2, RegionShape
  <2>3. l \in Letter /\ m \in Letter /\ k \in Letter /\ n \in Letter
    BY LambdaShape DEF LiveLetters
  <2>4. l \cap In = k \cap In /\ m \cap In = n \cap In
    BY <1>0, <2>1, <2>2, <2>3, PartitionShape
  <2>5. dependent \subseteq In /\ Observed(dependent) \subseteq In
    BY <1>2, LambdaShape
  <2> QED
    BY <1>0, <2>4, <2>5
<1> QED
  BY <1>1, <1>2

LEMMA ObservationInOneSide ==
  ASSUME Emitting, NEW s \in Dfa.states, NEW l \in Region(s), NEW m \in Letter,
         l \cap Observed(dependent) = m \cap Observed(dependent)
  PROVE  m \in Exist(Region(s), dependent)
<1> DEFINE In == inputs(call.partition)
           U == universe(call.partition)
<1>0. /\ call \in Calls /\ live = Extendable /\ RegionsComputed
      /\ Letter = SUBSET U /\ l \in Letter /\ In \subseteq U
  BY PartitionShape, LambdaShape DEF Emitting
<1>1. CASE ~IsInput
  <2>1. Observed(dependent) = U \ dependent
    BY <1>1, LambdaShape
  <2>2. l \ dependent = m \ dependent
    BY <1>0, <2>1
  <2> QED
    BY <2>2 DEF Exist
<1>2. CASE IsInput
  <2> DEFINE k == (l \cap In) \cup (m \ In)
  <2>1. k \in Letter /\ k \cap In = l \cap In
    BY <1>0
  <2>2. k \in Region(s)
    BY <1>0, <1>2, <2>1, RegionIgnoresOutputs
  <2>3. Observed(dependent) = In \ dependent /\ dependent \subseteq In
    BY <1>2, LambdaShape
  <2>4. k \ dependent = m \ dependent
    BY <1>0, <2>3
  <2> QED
    BY <2>2, <2>4 DEF Exist
<1> QED
  BY <1>1, <1>2

LEMMA LambdaFunctional ==
  ASSUME Emitting, NEW s \in Dfa.states, NEW l \in lambda[s], NEW m \in lambda[s],
         l \cap Observed(dependent) = m \cap Observed(dependent)
  PROVE  l \cap dependent = m \cap dependent
<1>0. l \in Letter /\ m \in Letter
  BY LambdaShape
<1>1. CASE l \in Region(s) /\ m \in Region(s)
  BY <1>1, RegionAnswersOnce
<1>2. CASE l \in Region(s) /\ m \notin Region(s)
  <2>1. m \in Exist(Region(s), dependent)
    BY <1>0, <1>2, ObservationInOneSide
  <2> QED
    BY <1>2, <2>1, LambdaShape
<1>3. CASE l \notin Region(s) /\ m \in Region(s)
  <2>1. l \in Exist(Region(s), dependent)
    BY <1>0, <1>3, ObservationInOneSide
  <2> QED
    BY <1>3, <2>1, LambdaShape
<1>4. CASE l \notin Region(s) /\ m \notin Region(s)
  BY <1>4, LambdaShape
<1> QED
  BY <1>1, <1>2, <1>3, <1>4

LEMMA LambdaCommits ==
  ASSUME Emitting
  PROVE  TransducerCommits
<1>1. ASSUME NEW s \in Dfa.states
      PROVE  LiveLetters(s) \subseteq lambda[s]
  <2>1. LiveLetters(s) \subseteq Region(s)
    BY <1>1, RegionShape DEF Emitting
  <2> QED
    BY <1>1, <2>1, LambdaShape
<1> QED
  BY <1>1, LambdaTotal, LambdaFunctional DEF TransducerCommits

-----------------------------------------------------------------------------
\* The game with and without the transducer.
Good == IF IsInput THEN Dfa.states \ Dfa.accepting ELSE Dfa.accepting

Forces(env, allowed, s, W) ==
  \A e \in SUBSET env : \E l \in allowed[s] : l \cap env = e /\ Succ(s, l) \in W \cup Good

Everything == [s \in Dfa.states |-> Letter]

LEMMA WinsByForces ==
  ASSUME NEW env, NEW allowed
  PROVE  Wins(env, allowed) <=>
           \A W \in SUBSET Dfa.states :
             (\A s \in Dfa.states : Forces(env, allowed, s, W) => s \in W) => Dfa.init \in W
BY DEF Wins, Forces, Good

\* For t_out the environment plays the same variables; a system that plays by
\* the transducer plays letters of its game, and the letters that the transducer
\* forbids leave the states from which the system can win at all.
LEMMA PreservedForOutputs ==
  ASSUME Emitting, ~IsInput, Dfa.init \in live, NEW env
  PROVE  Wins(env, lambda) <=> Wins(env, Everything)
<1>0. call \in Calls /\ live = Extendable /\ Good = Dfa.accepting
  BY DEF Emitting, Good
<1>1. \A s \in Dfa.states : lambda[s] \subseteq Letter
  BY LambdaShape
<1>2. \A s \in Dfa.states : \A W : Forces(env, lambda, s, W) => Forces(env, Everything, s, W)
  BY <1>1 DEF Forces, Everything
<1>3. ASSUME Wins(env, lambda) PROVE Wins(env, Everything)
  BY <1>2, <1>3, WinsByForces
<1>4. ASSUME Wins(env, Everything), NEW W \in SUBSET Dfa.states,
             \A s \in Dfa.states : Forces(env, lambda, s, W) => s \in W
      PROVE  Dfa.init \in W
  <2> DEFINE V == W \cap Extendable
  <2>1. ASSUME NEW s \in Dfa.states, Forces(env, Everything, s, V)
        PROVE  s \in V
    <3>1. ASSUME NEW l \in Letter, Succ(s, l) \in V \cup Good
          PROVE  l \in LiveLetters(s) /\ Succ(s, l) \in W \cup Good
      BY <1>0, <3>1, AcceptingExtend DEF LiveLetters
    <3>2. LiveLetters(s) \subseteq lambda[s]
      BY <2>1, RegionShape, LambdaShape DEF Emitting
    <3>3. Forces(env, lambda, s, W)
      BY <2>1, <3>1, <3>2 DEF Forces, Everything
    <3>4. PICK l \in Letter : Succ(s, l) \in V \cup Good
      BY <2>1 DEF Forces, Everything
    <3>5. s \in Extendable
      BY <1>0, <2>1, <3>1, <3>4, ExtendableBackwards DEF LiveLetters
    <3> QED
      BY <1>4, <2>1, <3>3, <3>5
  <2>2. V \in SUBSET Dfa.states
    OBVIOUS
  <2> QED
    BY <1>4, <2>1, <2>2, WinsByForces
<1> QED
  BY <1>3, <1>4, WinsByForces

\* For t_in the environment loses the dependent variables: whatever it plays
\* against the transducer leaves the negated goal's language, and the system has
\* won; and the transducer leaves it at least one answer.
LEMMA LambdaIgnoresOutputs ==
  ASSUME Emitting, IsInput, NEW s \in Dfa.states, NEW l \in lambda[s], NEW m \in Letter,
         l \cap inputs(call.partition) = m \cap inputs(call.partition)
  PROVE  m \in lambda[s]
<1> DEFINE In == inputs(call.partition)
<1>0. /\ call \in Calls /\ live = Extendable /\ RegionsComputed
      /\ dependent \subseteq In /\ Observed(dependent) = In \ dependent
  BY LambdaShape DEF Emitting
<1>1. CASE l \in Region(s)
  <2>1. m \in Region(s)
    BY <1>0, <1>1, RegionIgnoresOutputs
  <2> QED
    BY <2>1, LambdaShape
<1>2. CASE l \notin Region(s)
  <2>1. l \in Letter \ Exist(Region(s), dependent) /\ l \cap dependent = {}
    BY <1>2, LambdaShape
  <2>2. m \cap dependent = {}
    BY <1>0, <2>1
  <2>3. ASSUME m \in Exist(Region(s), dependent)
        PROVE  FALSE
    <3>1. PICK k \in Region(s) : k \ dependent = m \ dependent
      BY <2>3 DEF Exist
    <3>2. k \cap Observed(dependent) = l \cap Observed(dependent)
      BY <1>0, <3>1
    <3> QED
      BY <2>1, <3>2, ObservationInOneSide
  <2> QED
    BY <2>2, <2>3, LambdaShape
<1> QED
  BY <1>1, <1>2

LEMMA PreservedForInputs ==
  ASSUME Emitting, IsInput
  PROVE  Wins(inputs(call.partition) \ dependent, lambda) <=> Wins(inputs(call.partition), Everything)
<1> DEFINE In == inputs(call.partition)
           Rest == In \ dependent
<1>0. /\ call \in Calls /\ live = Extendable /\ Good = Dfa.states \ Dfa.accepting
      /\ dependent \subseteq In /\ Observed(dependent) = Rest
      /\ Letter = SUBSET universe(call.partition) /\ In \subseteq universe(call.partition)
  <2>1. call \in Calls /\ live = Extendable
    BY DEF Emitting
  <2>2. Dfa.init \in Dfa.states
    BY <2>1, CallShape DEF Dfa
  <2> QED
    BY <2>1, <2>2, LambdaShape, PartitionShape DEF Good
<1>1. ASSUME NEW s \in Dfa.states, NEW W \in SUBSET Dfa.states, Forces(In, Everything, s, W)
      PROVE  Forces(Rest, lambda, s, W)
  <2>1. SUFFICES ASSUME NEW e \in SUBSET Rest
                 PROVE  \E l \in lambda[s] : l \cap Rest = e /\ Succ(s, l) \in W \cup Good
    BY DEF Forces
  <2>2. PICK m \in lambda[s] : m \cap Rest = e
    <3>1. e \in Letter /\ e \cap Rest = e
      BY <1>0
    <3> QED
      BY <1>0, <1>1, <3>1, LambdaTotal
  <2>3. PICK l \in Letter : l \cap In = m \cap In /\ Succ(s, l) \in W \cup Good
    BY <1>1 DEF Forces, Everything
  <2>4. l \in lambda[s]
    BY <1>1, <2>3, LambdaIgnoresOutputs
  <2>5. l \cap Rest = e
    BY <2>2, <2>3
  <2> QED
    BY <2>3, <2>4, <2>5
<1>2. ASSUME NEW s \in Dfa.states, NEW W \in SUBSET Dfa.states, Forces(Rest, lambda, s, W)
      PROVE  Forces(In, Everything, s, W)
  <2>1. SUFFICES ASSUME NEW e \in SUBSET In
                 PROVE  \E l \in Letter : l \cap In = e /\ Succ(s, l) \in W \cup Good
    BY <1>2 DEF Forces, Everything
  <2>2. PICK l \in lambda[s] : l \cap Rest = e \ dependent /\ Succ(s, l) \in W \cup Good
    BY <1>0, <1>2 DEF Forces
  <2>3. l \in Letter
    BY <1>2, LambdaShape
  <2>4. CASE l \cap In = e
    BY <2>2, <2>3, <2>4
  <2>5. CASE l \cap In # e
    <3>1. e \in Letter /\ e \cap In = e /\ e \cap Rest = l \cap Rest /\ e \cap dependent # l \cap dependent
      BY <1>0, <2>2, <2>5
    <3>2. e \notin lambda[s]
      BY <1>0, <1>2, <3>1, LambdaFunctional
    <3>3. e \notin LiveLetters(s)
      BY <1>2, <3>2, RegionShape, LambdaShape DEF Emitting
    <3>4. Succ(s, e) \notin Extendable
      BY <3>1, <3>3 DEF LiveLetters
    <3>5. Succ(s, e) \in Good
      BY <1>0, <1>2, <3>1, <3>4, AcceptingExtend, SuccEdge
    <3> QED
      BY <3>1, <3>5
  <2> QED
    BY <2>4, <2>5
<1>3. ASSUME NEW W \in SUBSET Dfa.states
      PROVE  (\A s \in Dfa.states : Forces(Rest, lambda, s, W) => s \in W)
               <=> (\A s \in Dfa.states : Forces(In, Everything, s, W) => s \in W)
  BY <1>1, <1>2
<1> HIDE DEF In, Rest
<1>4. Wins(Rest, lambda) <=>
        \A W \in SUBSET Dfa.states : (\A s \in Dfa.states : Forces(Rest, lambda, s, W) => s \in W) => Dfa.init \in W
  BY WinsByForces
<1>5. Wins(In, Everything) <=>
        \A W \in SUBSET Dfa.states : (\A s \in Dfa.states : Forces(In, Everything, s, W) => s \in W) => Dfa.init \in W
  BY WinsByForces
<1>6. Wins(Rest, lambda) <=> Wins(In, Everything)
  BY <1>3, <1>4, <1>5
<1> QED
  BY <1>6 DEF In, Rest

-----------------------------------------------------------------------------
\* The inductive invariant.  Nothing of it after the loop follows from the loop's
\* outcome alone: the regions must still be those of a complete search, and each
\* rejection must be remembered against the set as it is now.
Analysed == phase \in {"greedy", "emit"} \/ result \in {"nothing dependent", "transducer"}

Control ==
  /\ call \in Calls
  /\ phase # "start" /\ result # "invalid_argument" => ~Refused
  /\ phase # "done" => result = "none"
  /\ phase \in {"start", "live", "greedy"} => partition = call.partition
  /\ phase \in {"start", "live"} => dependent = {}
  /\ phase = "emit" \/ result = "transducer" =>
       scanned = {} /\ partition = Repartitioned(call.partition)
  /\ result = "transducer" => LambdaEmitted

Search ==
  /\ phase = "live" =>
       /\ Dfa.accepting \subseteq live /\ live \subseteq Extendable
       /\ \A s \in live \ queue : Preds(s) \subseteq live
  /\ Analysed => live = Extendable /\ Dfa.init \in live /\ RegionsComputed

Accumulated ==
  Analysed =>
    /\ dependent \subseteq Own /\ scanned \subseteq Own
    /\ IsDependent(dependent)
    /\ \A z \in Own \ (dependent \cup scanned) : ~IsDependent(dependent \cup {z})

IInv == TypeOK /\ Control /\ Search /\ Accumulated

\* What only depends on the call stays as it is.
LEMMA SameCall ==
  ASSUME call' = call
  PROVE  /\ Dfa' = Dfa /\ Letter' = Letter /\ IsInput' = IsInput /\ Refused' = Refused
         /\ Own' = Own /\ Extendable' = Extendable
<1>1. Dfa' = Dfa /\ Letter' = Letter /\ IsInput' = IsInput
  BY DEF Dfa, Letter, IsInput
<1>2. Refused' = Refused
  BY <1>1 DEF Refused
<1>3. Own' = Own
  BY <1>1 DEF Own
<1>4. Extendable' = Extendable
  BY <1>1 DEF Extendable, Succ
<1> QED
  BY <1>1, <1>2, <1>3, <1>4

\* The facts the loop and the search have established survive a step that does not touch
\* what they are about.
LEMMA SameAnalysis ==
  ASSUME UNCHANGED <<call, live, regions>>
  PROVE  /\ RegionsComputed' = RegionsComputed
         /\ \A X : IsDependent(X)' = IsDependent(X)
<1>1. Dfa' = Dfa /\ Letter' = Letter /\ IsInput' = IsInput
  BY SameCall
<1>2. RegionsComputed' = RegionsComputed
  BY <1>1 DEF RegionsComputed, AnalysisRegion, LiveRegion, Exist
<1>3. ASSUME NEW X PROVE IsDependent(X)' = IsDependent(X)
  BY <1>1 DEF IsDependent, Undetermined, Exist
<1> QED
  BY <1>2, <1>3

LEMMA InitInv == Init => IInv
<1>1. ASSUME Init PROVE IInv
  <2>1. TypeOK
    <3>1. WellFormed(call)
      BY <1>1, CallsWellFormed DEF Init
    <3>2. call.partition \in [DOMAIN call.partition -> SUBSET universe(call.partition)]
      BY <3>1 DEF WellFormed, universe, inputs, outputs
    <3> QED
      BY <1>1, <3>2 DEF Init, TypeOK
  <2>2. Control /\ Search /\ Accumulated
    BY <1>1 DEF Init, Control, Search, Accumulated, Analysed
  <2> QED
    BY <2>1, <2>2 DEF IInv
<1> QED
  BY <1>1

LEMMA SubsetsOfUniverse ==
  ASSUME TypeOK, Control
  PROVE  /\ Own \subseteq universe(call.partition)
         /\ dependent \subseteq universe(call.partition)
BY PartitionShape DEF TypeOK, Control, Own

LEMMA RefuseStep == IInv /\ Refuse => IInv'
<1> SUFFICES ASSUME IInv, Refuse PROVE IInv'
  OBVIOUS
<1>1. TypeOK'
  BY DEF IInv, TypeOK, Refuse, Dfa, Letter
<1>2. Control' /\ Search' /\ Accumulated'
  BY DEF IInv, Control, Search, Accumulated, Analysed, Refuse
<1> QED
  BY <1>1, <1>2 DEF IInv

LEMMA SeedLiveStep == IInv /\ SeedLive => IInv'
<1> SUFFICES ASSUME IInv, SeedLive PROVE IInv'
  OBVIOUS
<1>0. call' = call /\ call \in Calls /\ Dfa.accepting \subseteq Dfa.states
  BY CallShape DEF IInv, Control, SeedLive, Dfa
<1>1. TypeOK'
  BY <1>0 DEF IInv, TypeOK, SeedLive, Dfa, Letter
<1>2. Control'
  BY <1>0, SameCall DEF IInv, Control, SeedLive
<1>3. Search'
  BY <1>0, SameCall, AcceptingExtend DEF IInv, Control, Search, Analysed, SeedLive
<1>4. Accumulated'
  BY DEF IInv, Control, Accumulated, Analysed, SeedLive
<1> QED
  BY <1>1, <1>2, <1>3, <1>4 DEF IInv

LEMMA PropagateStep == IInv /\ Propagate => IInv'
<1> SUFFICES ASSUME IInv, Propagate PROVE IInv'
  OBVIOUS
<1>0. call' = call /\ call \in Calls /\ phase = "live" /\ phase' = "live" /\ result' = "none"
  BY DEF IInv, Control, Propagate
<1>1. PICK s \in queue : live' = live \cup Preds(s) /\ queue' = (queue \ {s}) \cup (Preds(s) \ live)
  BY DEF Propagate
<1>2. \A r : Preds(r) \subseteq Dfa.states
  BY DEF Preds
<1>3. TypeOK'
  BY <1>0, <1>1, <1>2 DEF IInv, TypeOK, Propagate, Dfa, Letter
<1>4. Control'
  BY <1>0, SameCall DEF IInv, Control, Propagate
<1>5. Search'
  <2>1. s \in live /\ live \subseteq Extendable /\ Dfa.accepting \subseteq live
        /\ \A r \in live \ queue : Preds(r) \subseteq live
    BY <1>0, <1>1 DEF IInv, TypeOK, Search
  <2>2. Preds(s) \subseteq Extendable
    BY <1>0, <2>1, PredsExtend
  <2>3. \A r : Preds(r)' = Preds(r)
    BY <1>0, SameCall DEF Preds
  <2>4. \A r \in live' \ queue' : Preds(r) \subseteq live'
    BY <1>1, <2>1
  <2>5. live' \subseteq Extendable' /\ Dfa'.accepting \subseteq live'
    BY <1>0, <1>1, <2>1, <2>2, SameCall
  <2>6. \A r \in live' \ queue' : Preds(r)' \subseteq live'
    BY <2>3, <2>4
  <2> QED
    BY <1>0, <2>5, <2>6 DEF Search, Analysed
<1>6. Accumulated'
  BY <1>0 DEF Accumulated, Analysed
<1> QED
  BY <1>3, <1>4, <1>5, <1>6 DEF IInv

LEMMA ThrowUnsatisfiableStep == IInv /\ ThrowUnsatisfiable => IInv'
<1> SUFFICES ASSUME IInv, ThrowUnsatisfiable PROVE IInv'
  OBVIOUS
<1>1. TypeOK'
  BY DEF IInv, TypeOK, ThrowUnsatisfiable, Dfa, Letter
<1>2. Control'
  BY SameCall DEF IInv, Control, ThrowUnsatisfiable
<1>3. Search' /\ Accumulated'
  BY DEF Search, Accumulated, Analysed, ThrowUnsatisfiable
<1> QED
  BY <1>1, <1>2, <1>3 DEF IInv

LEMMA ComputeRegionsStep == IInv /\ ComputeRegions => IInv'
<1> SUFFICES ASSUME IInv, ComputeRegions PROVE IInv'
  OBVIOUS
<1>0. /\ call' = call /\ live' = live /\ dependent' = dependent /\ partition' = partition
      /\ call \in Calls /\ dependent = {}
      /\ phase = "live" /\ queue = {} /\ phase' = "greedy" /\ result' = "none"
  BY DEF IInv, Control, ComputeRegions
<1>1. \A s \in Dfa.states : AnalysisRegion(s) \subseteq Letter
  <2>1. ASSUME NEW s \in Dfa.states PROVE LiveRegion(s) \subseteq Letter
    BY <1>0, <2>1, CallShape DEF LiveRegion, Dfa, Letter
  <2> QED
    BY <2>1 DEF AnalysisRegion, Exist
<1>2. scanned' = Own
  <2>1. ~Refused /\ WellFormed(call)
    BY <1>0, CallsWellFormed DEF IInv, Control
  <2> QED
    BY <2>1 DEF ComputeRegions, Own, Refused, WellFormed, inputs, outputs
<1>3. TypeOK'
  <2>1. Own \subseteq universe(call.partition)
    BY <1>0, PartitionShape DEF Own
  <2>2. regions' \in [Dfa.states -> SUBSET Letter]
    BY <1>1 DEF ComputeRegions
  <2> QED
    BY <1>0, <1>2, <2>1, <2>2, SameCall DEF IInv, TypeOK, ComputeRegions
<1>4. Control'
  BY <1>0, SameCall DEF IInv, Control, ComputeRegions
<1>5. Search'
  <2>1. live = Extendable
    <3>1. live \subseteq Extendable /\ live \subseteq Dfa.states /\ Dfa.accepting \subseteq live
          /\ \A s \in live : Preds(s) \subseteq live
      BY <1>0 DEF IInv, TypeOK, Search
    <3> QED
      BY <1>0, <3>1, SearchComplete
  <2>2. RegionsComputed'
    BY <1>0, SameCall DEF ComputeRegions, RegionsComputed, AnalysisRegion, LiveRegion, Exist
  <2>3. Dfa.init \in live
    BY DEF ComputeRegions
  <2> QED
    BY <1>0, <2>1, <2>2, <2>3, SameCall DEF Search, Analysed
<1>6. Accumulated'
  BY <1>0, <1>2, SameCall DEF Accumulated, IsDependent, Undetermined
<1> QED
  BY <1>3, <1>4, <1>5, <1>6 DEF IInv

LEMMA TryCandidateStep == IInv /\ TryCandidate => IInv'
<1> SUFFICES ASSUME IInv, TryCandidate PROVE IInv'
  OBVIOUS
<1>0. /\ call' = call /\ live' = live /\ regions' = regions /\ partition' = partition /\ lambda' = lambda
      /\ phase = "greedy" /\ phase' = "greedy" /\ result' = "none" /\ queue' = queue
      /\ call \in Calls /\ live = Extendable /\ RegionsComputed
      /\ dependent \subseteq Own /\ scanned \subseteq Own
      /\ IsDependent(dependent)
      /\ \A z \in Own \ (dependent \cup scanned) : ~IsDependent(dependent \cup {z})
  BY DEF IInv, Control, Search, Accumulated, Analysed, TryCandidate
<1>1. PICK z \in scanned :
        /\ dependent' = IF IsDependent(dependent \cup {z}) THEN dependent \cup {z} ELSE dependent
        /\ scanned' = scanned \ {z}
  BY DEF TryCandidate, Candidate
<1>2. Own \subseteq universe(call.partition)
  BY <1>0, PartitionShape DEF Own
<1>3. TypeOK'
  BY <1>0, <1>1, <1>2, SameCall DEF IInv, TypeOK
<1>4. Control'
  BY <1>0, SameCall DEF IInv, Control
<1>5. Search'
  BY <1>0, SameCall, SameAnalysis DEF IInv, Search, Analysed
<1>6. dependent' \subseteq Own /\ scanned' \subseteq Own /\ dependent \subseteq dependent'
  BY <1>0, <1>1
<1>7. IsDependent(dependent')
  BY <1>0, <1>1
<1>8. ASSUME NEW y \in Own \ (dependent' \cup scanned')
      PROVE  ~IsDependent(dependent' \cup {y})
  <2>1. ~IsDependent(dependent \cup {y})
    BY <1>0, <1>1, <1>8
  <2>2. PICK s \in live : Undetermined(regions[s], dependent \cup {y})
    BY <2>1 DEF IsDependent
  <2>3. regions[s] \subseteq Letter
    BY <1>0, <2>2, RegionShape DEF Region, Extendable
  <2>4. Undetermined(regions[s], dependent' \cup {y})
    BY <1>6, <2>2, <2>3, RejectedStaysRejected
  <2> QED
    BY <2>2, <2>4 DEF IsDependent
<1>9. Accumulated'
  <2>1. IsDependent(dependent)' <=> IsDependent(dependent')
    BY <1>0, SameCall DEF IsDependent, Undetermined, Exist
  <2>2. ASSUME NEW y
        PROVE  IsDependent(dependent \cup {y})' <=> IsDependent(dependent' \cup {y})
    BY <1>0, SameCall DEF IsDependent, Undetermined, Exist
  <2>3. Own' = Own
    BY <1>0, SameCall
  <2>4. \A y \in (Own \ (dependent \cup scanned))' : ~IsDependent(dependent \cup {y})'
    BY <1>8, <2>2, <2>3
  <2> QED
    BY <1>6, <1>7, <2>1, <2>3, <2>4 DEF Accumulated
<1> QED
  BY <1>3, <1>4, <1>5, <1>9 DEF IInv

LEMMA SameAccumulated ==
  ASSUME UNCHANGED <<call, live, regions, scanned, dependent>>, Accumulated, Analysed
  PROVE  Accumulated'
<1>0. Own' = Own /\ Letter' = Letter
  BY SameCall
<1>1. IsDependent(dependent)' <=> IsDependent(dependent)
  BY <1>0 DEF IsDependent, Undetermined, Exist
<1>2. ASSUME NEW y
      PROVE  IsDependent(dependent \cup {y})' <=> IsDependent(dependent \cup {y})
  BY <1>0 DEF IsDependent, Undetermined, Exist
<1>3. \A y \in (Own \ (dependent \cup scanned))' : ~IsDependent(dependent \cup {y})'
  BY <1>0, <1>2 DEF Accumulated
<1> QED
  BY <1>0, <1>1, <1>3 DEF Accumulated

LEMMA RepartitionStep == IInv /\ Repartition => IInv'
<1> SUFFICES ASSUME IInv, Repartition PROVE IInv'
  OBVIOUS
<1>0. /\ UNCHANGED <<call, live, queue, regions, scanned, dependent, lambda, result>>
      /\ phase = "greedy" /\ phase' = "emit" /\ scanned = {} /\ result = "none"
      /\ call \in Calls /\ dependent \subseteq Own
      /\ partition = call.partition /\ partition' = Repartitioned(call.partition)
  BY DEF IInv, Control, Accumulated, Analysed, Repartition
<1>1. Own \subseteq universe(call.partition) /\ WellFormed(call)
  BY <1>0, PartitionShape, CallsWellFormed DEF Own
<1>2. TypeOK'
  <2> DEFINE p == call.partition
             q == Repartitioned(p)
  <2>1. p \in [{"input_free", "input_known", "output_free", "output_known"} -> SUBSET universe(p)]
    BY <1>1 DEF WellFormed, universe, inputs, outputs
  <2>2. inputs(p) \subseteq universe(p) /\ outputs(p) \subseteq universe(p)
    BY DEF universe
  <2>3. q \in [{"input_free", "input_known", "output_free", "output_known"} -> SUBSET universe(p)]
    BY <1>0, <1>1, <2>1, <2>2 DEF Repartitioned
  <2>4. inputs(q) = inputs(p) /\ outputs(q) = outputs(p)
    <3>1. CASE IsInput
      BY <1>0, <2>1, <3>1 DEF Repartitioned, Own, inputs, outputs
    <3>2. CASE ~IsInput
      BY <1>0, <2>1, <3>2 DEF Repartitioned, Own, inputs, outputs
    <3> QED
      BY <3>1, <3>2
  <2>5. q \in [DOMAIN p -> SUBSET universe(p)]
    BY <2>1, <2>3
  <2> HIDE DEF q
  <2>6. partition' = q
    BY <1>0 DEF q
  <2> QED
    BY <1>0, <2>4, <2>5, <2>6, SameCall DEF IInv, TypeOK, inputs, outputs
<1>3. Control'
  <2>1. Repartitioned(call.partition)' = Repartitioned(call.partition)
    BY <1>0, SameCall DEF Repartitioned
  <2> QED
    BY <1>0, <2>1, SameCall DEF IInv, Control
<1>4. Search'
  BY <1>0, SameCall, SameAnalysis DEF IInv, Search, Analysed
<1>5. Accumulated'
  BY <1>0, SameAccumulated DEF IInv, Analysed
<1> QED
  BY <1>2, <1>3, <1>4, <1>5 DEF IInv

LEMMA EmitStep == IInv /\ Emit => IInv'
<1> SUFFICES ASSUME IInv, Emit PROVE IInv'
  OBVIOUS
<1>0. /\ UNCHANGED <<call, live, queue, regions, scanned, dependent, partition>>
      /\ phase = "emit" /\ phase' = "done" /\ scanned = {}
      /\ call \in Calls /\ live = Extendable /\ RegionsComputed
      /\ partition = Repartitioned(call.partition) /\ ~Refused
  BY DEF IInv, Control, Search, Analysed, Emit
<1>1. \/ result' = "nothing dependent" /\ lambda' = lambda
      \/ result' = "transducer" /\ lambda' = [s \in Dfa.states |-> Totalised(Region(s))]
  BY DEF Emit, Region
<1>2. TypeOK'
  <2>1. ASSUME NEW s \in Dfa.states PROVE Totalised(Region(s)) \subseteq Letter
    BY <1>0, <2>1, RegionShape DEF Totalised
  <2>2. lambda' \in {<<>>} \cup [Dfa.states -> SUBSET Letter]
    BY <1>1, <2>1 DEF IInv, TypeOK
  <2> QED
    BY <1>0, <1>1, <2>2, SameCall DEF IInv, TypeOK, inputs, outputs
<1>3. Control'
  <2>1. Repartitioned(call.partition)' = Repartitioned(call.partition)
    BY <1>0, SameCall DEF Repartitioned
  <2>2. \A s : Totalised(Region(s))' = Totalised(Region(s))
    BY <1>0, SameCall DEF Totalised, Region, Exist
  <2>3. result' = "transducer" => LambdaEmitted'
    BY <1>0, <1>1, <2>2, SameCall DEF LambdaEmitted
  <2> QED
    <3>1. call' \in Calls /\ ~Refused' /\ phase' = "done" /\ scanned' = {}
      BY <1>0, SameCall
    <3>2. partition' = Repartitioned(call.partition)'
      BY <1>0, <2>1
    <3> QED
      BY <2>3, <3>1, <3>2 DEF Control
<1>4. Search'
  BY <1>0, SameCall, SameAnalysis DEF IInv, Search, Analysed
<1>5. Accumulated'
  BY <1>0, SameAccumulated DEF IInv, Analysed
<1> QED
  BY <1>2, <1>3, <1>4, <1>5 DEF IInv

LEMMA StutterStep == IInv /\ UNCHANGED vars => IInv'
<1> SUFFICES ASSUME IInv, UNCHANGED vars PROVE IInv'
  OBVIOUS
<1>0. UNCHANGED <<call, phase, live, queue, regions, scanned, dependent, partition, lambda, result>>
  BY DEF vars
<1>1. TypeOK'
  BY <1>0, SameCall DEF IInv, TypeOK
<1>2. Control'
  <2>1. Repartitioned(call.partition)' = Repartitioned(call.partition)
    BY <1>0, SameCall DEF Repartitioned
  <2>2. LambdaEmitted' = LambdaEmitted
    BY <1>0, SameCall DEF LambdaEmitted, Totalised, Region, Exist
  <2> QED
    BY <1>0, <2>1, <2>2, SameCall DEF IInv, Control
<1>3. Search'
  <2>1. \A r : Preds(r)' = Preds(r)
    BY <1>0, SameCall DEF Preds
  <2> QED
    BY <1>0, <2>1, SameCall, SameAnalysis DEF IInv, Search, Analysed
<1>4. Accumulated'
  <2>1. CASE Analysed
    BY <1>0, <2>1, SameAccumulated DEF IInv
  <2>2. CASE ~Analysed
    BY <1>0, <2>2 DEF Accumulated, Analysed
  <2> QED
    BY <2>1, <2>2
<1> QED
  BY <1>1, <1>2, <1>3, <1>4 DEF IInv

-----------------------------------------------------------------------------
\* IInv holds in every reachable state of every analysis.
THEOREM InductiveInvariant == Spec => []IInv
<1>1. IInv /\ [Next]_vars => IInv'
  BY RefuseStep, SeedLiveStep, PropagateStep, ThrowUnsatisfiableStep, ComputeRegionsStep,
     TryCandidateStep, RepartitionStep, EmitStep, StutterStep DEF Next
<1> QED
  BY InitInv, <1>1, PTL DEF Spec

\* The variables keep their types and the partition its inputs and outputs.
THEOREM TypeCorrect == Spec => []TypeOK
<1>1. IInv => TypeOK
  BY DEF IInv
<1> QED
  BY InductiveInvariant, <1>1, PTL

\* The backward search finds exactly the states from which acceptance is in
\* reach, in whatever order it visits them.
THEOREM SearchIsExact == Spec => []LiveIsExtendable
<1>1. IInv => LiveIsExtendable
  BY DEF IInv, Search, Analysed, LiveIsExtendable
<1> QED
  BY InductiveInvariant, <1>1, PTL

\* What the greedy loop has accumulated is determined as a whole.
THEOREM AccumulatedIsDetermined == Spec => []DependentIsDetermined
<1>1. ASSUME IInv, phase = "emit" PROVE Determined(dependent)
  <2>1. /\ call \in Calls /\ live = Extendable /\ RegionsComputed
        /\ dependent \subseteq Own /\ IsDependent(dependent)
    BY <1>1 DEF IInv, Control, Search, Accumulated, Analysed
  <2> QED
    BY <2>1, TestIsCriterion
<1>2. IInv => DependentIsDetermined
  BY <1>1 DEF DependentIsDetermined
<1> QED
  BY InductiveInvariant, <1>2, PTL

\* The greedy loop misses no variable, although each is tried only once and
\* against a part of the final set.
THEOREM NothingMissed == Spec => []DependentIsMaximal
<1>1. ASSUME IInv, phase = "emit", NEW z \in Own \ dependent PROVE ~Determined(dependent \cup {z})
  <2>1. /\ call \in Calls /\ live = Extendable /\ RegionsComputed /\ scanned = {}
        /\ dependent \subseteq Own /\ ~IsDependent(dependent \cup {z})
    BY <1>1 DEF IInv, Control, Search, Accumulated, Analysed
  <2>2. dependent \cup {z} \subseteq Own
    BY <1>1, <2>1
  <2> QED
    BY <2>1, <2>2, TestIsCriterion
<1>2. IInv => DependentIsMaximal
  BY <1>1 DEF DependentIsMaximal, Own
<1> QED
  BY InductiveInvariant, <1>2, PTL

LEMMA InvEmitting ==
  ASSUME IInv, result = "transducer"
  PROVE  Emitting /\ Dfa.init \in live /\ ~Refused /\ partition = Repartitioned(call.partition)
<1>1. /\ call \in Calls /\ live = Extendable /\ RegionsComputed /\ LambdaEmitted
      /\ dependent \subseteq Own /\ IsDependent(dependent) /\ Dfa.init \in live
      /\ ~Refused /\ partition = Repartitioned(call.partition)
  BY DEF IInv, TypeOK, Control, Search, Accumulated, Analysed
<1>2. Determined(dependent)
  BY <1>1, TestIsCriterion
<1> QED
  BY <1>1, <1>2 DEF Emitting

\* The emitted transducer is total and functional on what its role may see, and
\* allows every word of the analysed language.
THEOREM EmittedCommits == Spec => []TransducerCommits
<1>1. IInv => TransducerCommits
  BY InvEmitting, LambdaCommits DEF TransducerCommits
<1> QED
  BY InductiveInvariant, <1>1, PTL

\* Handing the dependent variables to the transducer changes no verdict.
THEOREM VerdictsPreserved == Spec => []RealizabilityPreserved
<1>1. ASSUME IInv, result = "transducer"
      PROVE  Wins(partition.input_free, lambda) <=> Wins(call.partition.input_free, Everything)
  <2>1. /\ Emitting /\ Dfa.init \in live /\ ~Refused /\ WellFormed(call)
        /\ partition = Repartitioned(call.partition)
    BY <1>1, InvEmitting, CallsWellFormed DEF IInv, Control
  <2>2. CASE IsInput
    <3>1. call.partition.input_free = inputs(call.partition)
      BY <2>1, <2>2 DEF Refused, WellFormed, inputs
    <3>2. partition.input_free = inputs(call.partition) \ dependent
      BY <2>1, <2>2 DEF Repartitioned, WellFormed
    <3> QED
      BY <2>1, <2>2, <3>1, <3>2, PreservedForInputs
  <2>3. CASE ~IsInput
    <3>1. partition.input_free = call.partition.input_free
      BY <2>1, <2>3 DEF Repartitioned, WellFormed
    <3> QED
      BY <2>1, <2>3, <3>1, PreservedForOutputs
  <2> QED
    BY <2>2, <2>3
<1>2. Wins(partition.input_free, lambda) \in BOOLEAN
      /\ Wins(call.partition.input_free, Everything) \in BOOLEAN
  BY DEF Wins
<1>3. IInv => RealizabilityPreserved
  BY <1>1, <1>2 DEF RealizabilityPreserved, Everything
<1> QED
  BY InductiveInvariant, <1>3, PTL

-----------------------------------------------------------------------------
-----------------------------------------------------------------------------
(* The files, CommitArtifacts *)

\* What the current invocation writes.
Mine == [run |-> run, xdep |-> xdep, whole |-> TRUE]
Last == Len(Artifacts(xdep))

\* A running invocation has a number and no result yet, and no file is from a
\* later one.
Numbered ==
  /\ pc # "idle" => run >= 1 /\ exit = "none"
  /\ \A a \in Artifact : disk[a].run <= run

\* Staging has filled the temp files before next.
Staging == pc = "stage" => \A n \in 1 .. Last : n < next => temp[Artifacts(xdep)[n]] = Mine

\* Installing has moved the files before next and still holds the others.
Installing ==
  pc = "install" =>
    \A n \in 1 .. Last : IF n < next THEN disk[Artifacts(xdep)[n]] = Mine
                                     ELSE temp[Artifacts(xdep)[n]] = Mine

\* The clearing follows the installation of a part file with nothing dependent.
Clearing == pc = "clear" => HasStale /\ (flags = Artifact => disk["part"] = Mine)

CommitInv ==
  /\ CommitTypeOK /\ Numbered /\ Staging /\ Installing /\ Clearing
  /\ TargetsWhole /\ PartIsCovered /\ SuccessIsConsistent

-----------------------------------------------------------------------------
LEMMA ArtifactsCases ==
  ASSUME NEW x
  PROVE  \/ Artifacts(x) = <<>> /\ "part" \notin flags /\ ("transducer" \notin flags \/ x = none)
         \/ Artifacts(x) = <<"part">> /\ "part" \in flags /\ ("transducer" \notin flags \/ x = none)
         \/ Artifacts(x) = <<"transducer">> /\ "part" \notin flags /\ "transducer" \in flags /\ x # none
         \/ Artifacts(x) = <<"transducer", "part">> /\ flags \cap Artifact = Artifact /\ x # none
<1>1. IfWanted("part", x) = IF "part" \in flags THEN <<"part">> ELSE <<>>
  BY DEF IfWanted
<1>2. IfWanted("transducer", x) = IF "transducer" \in flags /\ x # none THEN <<"transducer">> ELSE <<>>
  BY DEF IfWanted
<1>3. <<>> \o <<>> = <<>> /\ <<>> \o <<"part">> = <<"part">>
  OBVIOUS
<1>4. <<"transducer">> \o <<>> = <<"transducer">>
  <2>1. <<"transducer">> \in Seq({"transducer"})
    OBVIOUS
  <2> QED
    BY <2>1, ConcatEmptySeq
<1>5. <<"transducer">> \o <<"part">> = <<"transducer", "part">>
  <2> DEFINE s == <<"transducer">>
             u == <<"part">>
             v == <<"transducer", "part">>
  <2>1. s \in Seq(Artifact) /\ u \in Seq(Artifact) /\ v \in Seq(Artifact)
    BY DEF Artifact
  <2>2. s \o u \in Seq(Artifact) /\ Len(s \o u) = 2
    BY <2>1
  <2>3. (s \o u)[1] = "transducer" /\ (s \o u)[2] = "part"
    BY <2>1
  <2>4. Len(v) = 2 /\ v[1] = "transducer" /\ v[2] = "part"
    OBVIOUS
  <2> HIDE DEF s, u, v
  <2>5. s \o u = v
    BY <2>1, <2>2, <2>3, <2>4, SeqEqual
  <2> QED
    BY <2>5 DEF s, u, v
<1> QED
  BY <1>1, <1>2, <1>3, <1>4, <1>5 DEF Artifacts, Artifact

LEMMA ArtifactsType ==
  ASSUME NEW x
  PROVE  /\ Len(Artifacts(x)) \in 0 .. 2
         /\ \A n \in 1 .. Len(Artifacts(x)) : Artifacts(x)[n] \in Artifact
         /\ \A m, n \in 1 .. Len(Artifacts(x)) : Artifacts(x)[m] = Artifacts(x)[n] => m = n
  BY ArtifactsCases DEF Artifact

LEMMA MineType ==
  ASSUME CommitTypeOK, run >= 1
  PROVE  Mine \in File /\ Mine.run = run /\ Mine.xdep = xdep /\ Mine.whole
  BY DepsAssumption DEF CommitTypeOK, Mine, File

-----------------------------------------------------------------------------
LEMMA InitCommitInv == CommitInit => CommitInv
<1> SUFFICES ASSUME CommitInit PROVE CommitInv
  OBVIOUS
<1>1. CommitTypeOK
  BY DepsAssumption, ArtifactsType DEF CommitInit, CommitTypeOK, File, Absent
<1> QED
  BY <1>1, DepsAssumption DEF CommitInit, CommitInv, Numbered, Staging, Installing, Clearing, TargetsWhole,
     PartIsCovered, SuccessIsConsistent, Absent, Artifact

LEMMA AnalyseCommitInv == CommitInv /\ Analyse => CommitInv'
<1> SUFFICES ASSUME CommitInv, Analyse PROVE CommitInv'
  OBVIOUS
<1>1. CommitTypeOK'
  BY DepsAssumption, ArtifactsType DEF CommitInv, CommitTypeOK, Analyse, Ends, First, Numbered
<1>2. Numbered' /\ Staging' /\ Installing' /\ Clearing'
  BY DEF CommitInv, CommitTypeOK, Analyse, Ends, First, Numbered, Staging, Installing, Clearing, Artifact, File, Absent
<1>3. TargetsWhole' /\ PartIsCovered' /\ SuccessIsConsistent'
  BY DEF CommitInv, Analyse, Ends, TargetsWhole, PartIsCovered, SuccessIsConsistent
<1> QED
  BY <1>1, <1>2, <1>3 DEF CommitInv

\* A step that only ends the invocation without success, whatever it does to
\* the temp files, keeps the invariant.
LEMMA GivesUpCommitInv ==
  ASSUME CommitInv, pc' = "idle", exit' \in {"failed", "killed"}, temp' \in [Artifact -> File \cup {Absent}],
         UNCHANGED <<flags, disk, run, xdep, next>>
  PROVE  CommitInv'
<1>1. CommitTypeOK'
  BY DEF CommitInv, CommitTypeOK, Artifacts, IfWanted
<1>2. Numbered' /\ Staging' /\ Installing' /\ Clearing'
  BY DEF CommitInv, Numbered, Staging, Installing, Clearing
<1>3. TargetsWhole' /\ PartIsCovered' /\ SuccessIsConsistent'
  BY DEF CommitInv, TargetsWhole, PartIsCovered, SuccessIsConsistent
<1> QED
  BY <1>1, <1>2, <1>3 DEF CommitInv

LEMMA DiscardedType == ASSUME CommitTypeOK PROVE Discarded \in [Artifact -> File \cup {Absent}]
  BY DEF CommitTypeOK, Discarded

LEMMA FailureCommitInv == CommitInv /\ (OpenFails \/ InstallFails \/ RemoveFails \/ Killed) => CommitInv'
<1> SUFFICES ASSUME CommitInv, OpenFails \/ InstallFails \/ RemoveFails \/ Killed PROVE CommitInv'
  OBVIOUS
<1>1. CASE OpenFails
  BY <1>1, DiscardedType, GivesUpCommitInv DEF CommitInv, OpenFails, Ends
<1>2. CASE InstallFails
  <2>1. temp' \in [Artifact -> File \cup {Absent}]
    BY <1>2 DEF CommitInv, CommitTypeOK, InstallFails
  <2> QED
    BY <1>2, <2>1, GivesUpCommitInv DEF InstallFails, Ends
<1>3. CASE RemoveFails
  BY <1>3, GivesUpCommitInv DEF CommitInv, CommitTypeOK, RemoveFails, Ends
<1>4. CASE Killed
  <2>1. temp' \in [Artifact -> File \cup {Absent}]
    <3>1. [run |-> run, xdep |-> xdep, whole |-> FALSE] \in File
      BY <1>4, DepsAssumption DEF CommitInv, Numbered, CommitTypeOK, Killed, File
    <3> QED
      BY <1>4, <3>1 DEF CommitInv, CommitTypeOK, Killed
  <2> QED
    BY <1>4, <2>1, GivesUpCommitInv DEF Killed, Ends
<1> QED
  BY <1>1, <1>2, <1>3, <1>4

LEMMA StageCommitInv == CommitInv /\ Stage => CommitInv'
<1> SUFFICES ASSUME CommitInv, Stage PROVE CommitInv'
  OBVIOUS
<1> DEFINE a == Artifacts(xdep)[next]
           f(w) == [run |-> run, xdep |-> xdep, whole |-> w]
<1>0. next \in 1 .. Last /\ a \in Artifact /\ pc = "stage" /\ run >= 1
  BY ArtifactsType DEF CommitInv, CommitTypeOK, Numbered, Stage, Last
<1>1. \A w \in BOOLEAN : f(w) \in File
  BY <1>0, DepsAssumption DEF CommitInv, CommitTypeOK, File
<1>2. PICK w \in BOOLEAN :
        IF LateFailure(f(w))
        THEN temp' = [Discarded EXCEPT ![a] = f(w)] /\ Ends("failed") /\ UNCHANGED next
        ELSE temp' = [temp EXCEPT ![a] = f(w)] /\ next' = next + 1 /\ UNCHANGED <<pc, exit>>
  BY DEF Stage
<1>3. UNCHANGED <<flags, disk, run, xdep>>
  BY DEF Stage
<1>4. CASE LateFailure(f(w))
  <2>1. temp' \in [Artifact -> File \cup {Absent}]
    BY <1>1, <1>2, <1>4, DiscardedType DEF CommitInv
  <2> QED
    BY <1>2, <1>3, <1>4, <2>1, GivesUpCommitInv DEF Ends
<1>5. CASE ~LateFailure(f(w))
  <2>1. f(w) = Mine
    BY <1>2, <1>5 DEF LateFailure, Mine
  <2>2. temp' = [temp EXCEPT ![a] = Mine] /\ next' = next + 1 /\ UNCHANGED <<pc, exit>>
    BY <1>2, <1>5, <2>1
  <2>3. Mine \in File /\ Mine' = Mine /\ Last' = Last /\ Artifacts(xdep)' = Artifacts(xdep)
    BY <1>1, <1>3, <2>1 DEF Mine, Last, Artifacts, IfWanted
  <2>4. CommitTypeOK'
    BY <1>0, <1>3, <2>2, <2>3, ArtifactsType DEF CommitInv, CommitTypeOK, Last
  <2>5. Staging'
    <3> SUFFICES ASSUME NEW n \in 1 .. Last, n < next' PROVE temp'[Artifacts(xdep)[n]] = Mine
      BY <2>3 DEF Staging
    <3>1. Artifacts(xdep)[n] \in Artifact /\ temp \in [Artifact -> File \cup {Absent}]
      BY ArtifactsType DEF Last, CommitInv, CommitTypeOK
    <3>2. CASE n = next
      BY <1>0, <2>2, <3>1, <3>2
    <3>3. CASE n < next
      <4>1. Artifacts(xdep)[n] # a
        BY <1>0, <3>3, ArtifactsType DEF Last
      <4>2. temp[Artifacts(xdep)[n]] = Mine
        BY <1>0, <3>3 DEF CommitInv, Staging
      <4> QED
        BY <2>2, <3>1, <4>1, <4>2
    <3> QED
      BY <1>0, <2>2, <3>2, <3>3
  <2>6. Numbered' /\ Installing' /\ Clearing'
    BY <1>0, <1>3, <2>2 DEF CommitInv, Numbered, Installing, Clearing
  <2>7. TargetsWhole' /\ PartIsCovered' /\ SuccessIsConsistent'
    BY <1>3, <2>2 DEF CommitInv, TargetsWhole, PartIsCovered, SuccessIsConsistent
  <2> QED
    BY <2>4, <2>5, <2>6, <2>7 DEF CommitInv
<1> QED
  BY <1>4, <1>5

LEMMA StagedAllCommitInv == CommitInv /\ StagedAll => CommitInv'
<1> SUFFICES ASSUME CommitInv, StagedAll PROVE CommitInv'
  OBVIOUS
<1>0. Mine' = Mine /\ Last' = Last /\ Artifacts(xdep)' = Artifacts(xdep)
  BY DEF StagedAll, Mine, Last, Artifacts, IfWanted
<1>1. CommitTypeOK'
  BY <1>0, ArtifactsType DEF CommitInv, CommitTypeOK, StagedAll, First
<1>2. Installing'
  BY <1>0, ArtifactsType DEF CommitInv, CommitTypeOK, Staging, StagedAll, First, Installing, Last
<1>3. Numbered' /\ Staging' /\ Clearing'
  BY DEF CommitInv, Numbered, Staging, Clearing, StagedAll
<1>4. TargetsWhole' /\ PartIsCovered' /\ SuccessIsConsistent'
  BY DEF CommitInv, TargetsWhole, PartIsCovered, SuccessIsConsistent, StagedAll
<1> QED
  BY <1>1, <1>2, <1>3, <1>4 DEF CommitInv

LEMMA InstallCommitInv == CommitInv /\ Install => CommitInv'
<1> SUFFICES ASSUME CommitInv, Install PROVE CommitInv'
  OBVIOUS
<1> DEFINE a == Artifacts(xdep)[next]
<1>0. next \in 1 .. Last /\ a \in Artifact /\ pc = "install" /\ run >= 1 /\ run \in Nat /\ exit = "none"
  BY ArtifactsType DEF CommitInv, CommitTypeOK, Numbered, Install, Last
<1>1. /\ Mine' = Mine /\ Last' = Last /\ Artifacts(xdep)' = Artifacts(xdep)
      /\ UNCHANGED <<flags, pc, run, xdep, exit>>
  BY DEF Install, Mine, Last, Artifacts, IfWanted
<1>2. Mine \in File /\ Mine.run = run /\ Mine.xdep = xdep /\ Mine.whole /\ Mine # Absent
  BY <1>0, MineType DEF CommitInv, Absent
<1>3. temp[a] = Mine
  BY <1>0 DEF CommitInv, Installing
<1>4. disk' = [disk EXCEPT ![a] = Mine] /\ temp' = [temp EXCEPT ![a] = Absent] /\ next' = next + 1
  BY <1>3 DEF Install
<1>5. CommitTypeOK'
  BY <1>0, <1>1, <1>2, <1>4, ArtifactsType DEF CommitInv, CommitTypeOK, Last
<1>6. Installing'
  <2> SUFFICES ASSUME NEW n \in 1 .. Last
               PROVE  IF n < next' THEN disk'[Artifacts(xdep)[n]] = Mine ELSE temp'[Artifacts(xdep)[n]] = Mine
    BY <1>1 DEF Installing
  <2>1. /\ Artifacts(xdep)[n] \in Artifact
        /\ disk \in [Artifact -> File \cup {Absent}] /\ temp \in [Artifact -> File \cup {Absent}]
    BY ArtifactsType DEF Last, CommitInv, CommitTypeOK
  <2>2. CASE n = next
    BY <1>0, <1>4, <2>1, <2>2
  <2>3. CASE n # next
    <3>1. Artifacts(xdep)[n] # a
      BY <1>0, <2>3, ArtifactsType DEF Last
    <3>2. IF n < next THEN disk[Artifacts(xdep)[n]] = Mine ELSE temp[Artifacts(xdep)[n]] = Mine
      BY <1>0 DEF CommitInv, Installing
    <3>3. n < next' <=> n < next
      BY <1>0, <1>4, <2>3
    <3> QED
      BY <1>4, <2>1, <3>1, <3>2, <3>3
  <2> QED
    BY <2>2, <2>3
<1>7. Numbered' /\ Staging' /\ Clearing'
  BY <1>0, <1>1, <1>2, <1>4 DEF CommitInv, CommitTypeOK, Numbered, Staging, Clearing
<1>8. TargetsWhole'
  BY <1>0, <1>2, <1>4 DEF CommitInv, CommitTypeOK, TargetsWhole
<1>9. PartIsCovered'
  <2> SUFFICES ASSUME flags = Artifact, disk'["part"].xdep # none
               PROVE  disk'["transducer"] # Absent /\ disk'["transducer"].run >= disk'["part"].run
    BY <1>1 DEF PartIsCovered
  <2>1. CASE a = "transducer"
    <3>1. disk'["transducer"] = Mine /\ disk'["part"] = disk["part"] /\ disk["part"].run <= run
      BY <1>0, <1>4, <2>1 DEF CommitInv, CommitTypeOK, Numbered, Artifact
    <3> QED
      BY <1>2, <3>1
  <2>2. CASE a = "part"
    <3>1. disk'["part"] = Mine /\ disk'["transducer"] = disk["transducer"]
      BY <1>0, <1>4, <2>2 DEF CommitInv, CommitTypeOK, Artifact
    <3>2. Artifacts(xdep) = <<"transducer", "part">>
      BY <1>2, <3>1, ArtifactsCases DEF Artifact
    <3>3. next = 2 /\ Last = 2 /\ Artifacts(xdep)[1] = "transducer"
      BY <1>0, <2>2, <3>2 DEF Last
    <3>4. disk["transducer"] = Mine
      BY <1>0, <3>3 DEF CommitInv, Installing
    <3> QED
      BY <1>0, <1>2, <3>1, <3>4
  <2> QED
    BY <1>0, <2>1, <2>2 DEF Artifact
<1>10. SuccessIsConsistent'
  BY <1>0, <1>1 DEF SuccessIsConsistent
<1> QED
  BY <1>5, <1>6, <1>7, <1>8, <1>9, <1>10 DEF CommitInv

LEMMA InstalledAllCommitInv == CommitInv /\ InstalledAll => CommitInv'
<1> SUFFICES ASSUME CommitInv, InstalledAll PROVE CommitInv'
  OBVIOUS
<1>0. /\ pc = "install" /\ run >= 1 /\ exit = "none" /\ next > Last /\ next \in Nat /\ Last \in 0 .. 2
      /\ \A n \in 1 .. Last : disk[Artifacts(xdep)[n]] = Mine
  BY ArtifactsType DEF CommitInv, CommitTypeOK, Numbered, Installing, InstalledAll, Last
<1>1. /\ UNCHANGED <<flags, disk, temp, run, xdep, next>>
      /\ Artifacts(xdep)' = Artifacts(xdep) /\ Mine' = Mine
  BY DEF InstalledAll, Artifacts, IfWanted, Mine
<1>2. HasStale' = HasStale /\ (HasStale => pc' = "clear" /\ exit' = exit) /\ (~HasStale => pc' = "idle" /\ exit' = "ok")
  BY <1>1 DEF InstalledAll, HasStale, Ends
<1>3. CommitTypeOK'
  BY <1>0, <1>1, <1>2 DEF CommitInv, CommitTypeOK
<1>4. flags = Artifact => disk["part"] = Mine
  BY <1>0, ArtifactsCases DEF Last, Artifact
<1>5. Numbered' /\ Staging' /\ Installing' /\ Clearing'
  BY <1>0, <1>1, <1>2, <1>4 DEF CommitInv, Numbered, Staging, Installing, Clearing
<1>6. TargetsWhole' /\ PartIsCovered'
  BY <1>1 DEF CommitInv, TargetsWhole, PartIsCovered
<1>7. SuccessIsConsistent'
  <2> SUFFICES ASSUME flags = Artifact, ~HasStale
               PROVE  /\ disk["part"].run = run
                      /\ disk["transducer"] = IF disk["part"].xdep = none THEN Absent ELSE disk["part"]
    BY <1>0, <1>1, <1>2 DEF SuccessIsConsistent
  <2>1. xdep # none /\ Artifacts(xdep) = <<"transducer", "part">>
    BY ArtifactsCases DEF HasStale, Artifact
  <2>2. disk["transducer"] = Mine
    BY <1>0, <2>1 DEF Last
  <2> QED
    BY <1>0, <1>4, <2>1, <2>2, MineType DEF CommitInv
<1> QED
  BY <1>3, <1>5, <1>6, <1>7 DEF CommitInv

LEMMA RemoveCommitInv == CommitInv /\ RemoveStaleTransducer => CommitInv'
<1> SUFFICES ASSUME CommitInv, RemoveStaleTransducer PROVE CommitInv'
  OBVIOUS
<1>0. /\ pc = "clear" /\ HasStale /\ (flags = Artifact => disk["part"] = Mine) /\ run >= 1 /\ run \in Nat
      /\ disk \in [Artifact -> File \cup {Absent}]
  BY DEF CommitInv, CommitTypeOK, Numbered, Clearing, RemoveStaleTransducer
<1>1. /\ UNCHANGED <<flags, temp, run, xdep, next>>
      /\ disk' = [disk EXCEPT !["transducer"] = Absent] /\ pc' = "idle" /\ exit' = "ok"
      /\ disk'["transducer"] = Absent /\ disk'["part"] = disk["part"]
      /\ Artifacts(xdep)' = Artifacts(xdep)
  BY <1>0 DEF RemoveStaleTransducer, Ends, Artifact, Artifacts, IfWanted
<1>2. CommitTypeOK'
  BY <1>0, <1>1 DEF CommitInv, CommitTypeOK
<1>3. Numbered' /\ Staging' /\ Installing' /\ Clearing'
  BY <1>0, <1>1 DEF CommitInv, Numbered, Staging, Installing, Clearing, Artifact, Absent
<1>4. TargetsWhole'
  BY <1>1 DEF CommitInv, TargetsWhole, Artifact, Absent
<1>5. flags = Artifact => disk["part"].xdep = none /\ disk["part"].run = run
  BY <1>0, MineType DEF CommitInv, HasStale
<1>6. PartIsCovered' /\ SuccessIsConsistent'
  BY <1>1, <1>5 DEF PartIsCovered, SuccessIsConsistent
<1> QED
  BY <1>2, <1>3, <1>4, <1>6 DEF CommitInv

LEMMA StutterCommitInv == CommitInv /\ UNCHANGED commitVars => CommitInv'
<1> SUFFICES ASSUME CommitInv, UNCHANGED commitVars PROVE CommitInv'
  OBVIOUS
<1>1. Mine' = Mine /\ Last' = Last /\ Artifacts(xdep)' = Artifacts(xdep) /\ HasStale' = HasStale
  BY DEF commitVars, Mine, Last, Artifacts, IfWanted, HasStale
<1>2. CommitTypeOK' /\ Numbered'
  BY <1>1 DEF CommitInv, commitVars, CommitTypeOK, Numbered
<1>3. Staging' /\ Installing' /\ Clearing'
  BY <1>1 DEF CommitInv, commitVars, Staging, Installing, Clearing
<1>4. TargetsWhole' /\ PartIsCovered' /\ SuccessIsConsistent'
  BY DEF CommitInv, commitVars, TargetsWhole, PartIsCovered, SuccessIsConsistent
<1> QED
  BY <1>2, <1>3, <1>4 DEF CommitInv

-----------------------------------------------------------------------------
\* The inductive invariant: the temp files and the targets follow the staging
\* and the installation of the running invocation.
THEOREM CommitInvariant == CommitSpec => []CommitInv
<1>1. CommitInv /\ [CommitNext]_commitVars => CommitInv'
  BY AnalyseCommitInv, FailureCommitInv, StageCommitInv, StagedAllCommitInv, InstallCommitInv, InstalledAllCommitInv, RemoveCommitInv,
     StutterCommitInv DEF CommitNext
<1> QED
  BY InitCommitInv, <1>1, PTL DEF CommitSpec

\* Every variable has its type, for any dependent sets and any bound on the runs.
THEOREM CommitTypeCorrect == CommitSpec => []CommitTypeOK
<1>1. CommitInv => CommitTypeOK
  BY DEF CommitInv
<1> QED
  BY <1>1, CommitInvariant, PTL

\* CommitArtifacts never installs a truncated file, whatever fails.
THEOREM NothingTruncated == CommitSpec => []TargetsWhole
<1>1. CommitInv => TargetsWhole
  BY DEF CommitInv
<1> QED
  BY <1>1, CommitInvariant, PTL

\* The order of the artifacts keeps ltlf-ek-synth from ever meeting an orphan.
THEOREM KeystoneLast == CommitSpec => []PartIsCovered
<1>1. CommitInv => PartIsCovered
  BY DEF CommitInv
<1> QED
  BY <1>1, CommitInvariant, PTL

\* An invocation that exits 0 leaves a part file and a transducer that agree.
THEOREM SuccessLeavesAPair == CommitSpec => []SuccessIsConsistent
<1>1. CommitInv => SuccessIsConsistent
  BY DEF CommitInv
<1> QED
  BY <1>1, CommitInvariant, PTL
===============================================================================
