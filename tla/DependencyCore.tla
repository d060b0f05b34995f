----------------------------- MODULE DependencyCore -----------------------------
(***************************************************************************)
(* run_dependency_analysis: which of a player's variables are determined by  *)
(* the history and the other variables as long as the analysed language can  *)
(* still be reached, and the transducer that emits them.  For t_out the      *)
(* automaton is the goal's, for t_in the negated goal's.  A variable is a    *)
(* number, its rank in the lexicographic order; a letter is the set of the   *)
(* variables that hold, a BDD a set of letters.                            *)
(***************************************************************************)
EXTENDS Integers, FiniteSets

CONSTANT Calls  \* role, partition, aps of the formula, analysed automaton

inputs(p) == p.input_free \cup p.input_known
outputs(p) == p.output_free \cup p.output_known
universe(p) == inputs(p) \cup outputs(p)

Letters(p) == SUBSET universe(p)

\* A complete deterministic automaton; it may carry edges on bddfalse.
IsDfa(d, letters) ==
  /\ d.init \in d.states /\ d.accepting \subseteq d.states
  /\ d.edges \in [d.states -> SUBSET [guard : SUBSET letters, dst : d.states]]
  /\ \A s \in d.states : \A l \in letters :
       \E e \in d.edges[s] : l \in e.guard /\ \A x \in d.edges[s] : l \in x.guard => x = e

WellFormed(c) ==
  /\ c.role \in {"t_in", "t_out", "t_c"}
  /\ c.partition \in [{"input_free", "input_known", "output_free", "output_known"} -> SUBSET Nat]
  /\ inputs(c.partition) \cap outputs(c.partition) = {}
  /\ c.partition.input_free \cap c.partition.input_known = {}
  /\ c.partition.output_free \cap c.partition.output_known = {}
  /\ IsFiniteSet(universe(c.partition)) /\ c.aps \subseteq Nat
  /\ IsDfa(c.dfa, Letters(c.partition))

ASSUME CallsWellFormed == \A c \in Calls : WellFormed(c)

VARIABLES
  call,       \* the arguments and the automaton: never assigned
  phase,      \* "start", "live", "greedy", "emit", "done"
  live,       \* the states found live so far
  queue,      \* those whose predecessors are still to be visited
  regions,    \* analysis_regions
  scanned,    \* the variables still to be tried
  dependent,  \* result.dependent
  partition,  \* result.partition
  lambda,     \* lambda_by_state of the emitted transducer; <<>> without one
  result      \* "none" until the call returns or throws

vars == <<call, phase, live, queue, regions, scanned, dependent, partition, lambda, result>>

-----------------------------------------------------------------------------
Dfa == call.dfa
Letter == Letters(call.partition)
IsInput == call.role = "t_in"

Refused ==
  \/ call.role = "t_c"
  \/ IF IsInput THEN call.partition.input_known # {} ELSE call.partition.output_known # {}
  \/ ~(call.aps \subseteq universe(call.partition))

\* One step of the backward search, over satisfiable guards only.
Preds_AnyGuard(s) == {p \in Dfa.states : \E e \in Dfa.edges[p] : e.dst = s}
Preds(s) == {p \in Dfa.states : \E e \in Dfa.edges[p] : e.dst = s /\ e.guard # {}}

\* bdd_exist: forget the variables of X.
Exist(R, X) == {l \in Letter : \E m \in R : m \ X = l \ X}

LiveRegion_AnySuccessor(s) == IF s \in live THEN UNION {e.guard : e \in Dfa.edges[s]} ELSE {}
LiveRegion(s) ==
  IF s \in live THEN UNION {e.guard : e \in {x \in Dfa.edges[s] : x.dst \in live}} ELSE {}

\* t_in moves before the outputs of its step are known.
AnalysisRegion_SeesOutputs(s) == LiveRegion(s)
AnalysisRegion(s) ==
  IF IsInput THEN Exist(LiveRegion(s), outputs(call.partition)) ELSE LiveRegion(s)

\* undetermined_variable: some x of X is left open by an observation.
Undetermined(R, X) ==
  \E x \in X : Exist({l \in R : x \in l}, X) \cap Exist({l \in R : x \notin l}, X) # {}

Candidate_Alone(z) == {z}
Candidate(z) == dependent \cup {z}

IsDependent(X) == \A s \in live : ~Undetermined(regions[s], X)

\* Outside its region a state emits the all-negative default.
Totalised_Not(R) == R
Totalised(R) == R \cup {l \in Letter \ Exist(R, dependent) : l \cap dependent = {}}

\* The role's own pair is regrouped, the other one passes through.
Repartitioned(p) ==
  IF IsInput THEN [p EXCEPT !.input_free = inputs(p) \ dependent, !.input_known = dependent]
  ELSE [p EXCEPT !.output_free = outputs(p) \ dependent, !.output_known = dependent]

-----------------------------------------------------------------------------
Init ==
  /\ call \in Calls
  /\ phase = "start" /\ result = "none"
  /\ live = {} /\ queue = {} /\ regions = <<>> /\ scanned = {} /\ dependent = {}
  /\ partition = call.partition /\ lambda = <<>>

Refuse ==
  /\ phase = "start" /\ Refused
  /\ phase' = "done" /\ result' = "invalid_argument"
  /\ UNCHANGED <<call, live, queue, regions, scanned, dependent, partition, lambda>>

SeedLive ==
  /\ phase = "start" /\ ~Refused
  /\ phase' = "live" /\ live' = Dfa.accepting /\ queue' = Dfa.accepting
  /\ UNCHANGED <<call, regions, scanned, dependent, partition, lambda, result>>

Propagate ==
  /\ phase = "live"
  /\ \E s \in queue :
       /\ live' = live \cup Preds(s)
       /\ queue' = (queue \ {s}) \cup (Preds(s) \ live)
  /\ UNCHANGED <<call, phase, regions, scanned, dependent, partition, lambda, result>>

ThrowUnsatisfiable ==
  /\ phase = "live" /\ queue = {} /\ Dfa.init \notin live
  /\ phase' = "done" /\ result' = "unsatisfiable"
  /\ UNCHANGED <<call, live, queue, regions, scanned, dependent, partition, lambda>>

ComputeRegions ==
  /\ phase = "live" /\ queue = {} /\ Dfa.init \in live
  /\ phase' = "greedy"
  /\ regions' = [s \in Dfa.states |-> AnalysisRegion(s)]
  /\ scanned' = IF IsInput THEN call.partition.input_free ELSE call.partition.output_free
  /\ UNCHANGED <<call, live, queue, dependent, partition, lambda, result>>

TryCandidate ==
  /\ phase = "greedy"
  /\ \E z \in scanned :
       /\ \A y \in scanned : z <= y
       /\ dependent' = IF IsDependent(Candidate(z)) THEN dependent \cup {z} ELSE dependent
       /\ scanned' = scanned \ {z}
  /\ UNCHANGED <<call, phase, live, queue, regions, partition, lambda, result>>

Repartition ==
  /\ phase = "greedy" /\ scanned = {}
  /\ phase' = "emit"
  /\ partition' = Repartitioned(partition)
  /\ UNCHANGED <<call, live, queue, regions, scanned, dependent, lambda, result>>

Emit ==
  /\ phase = "emit" /\ phase' = "done"
  /\ IF dependent = {}
     THEN result' = "nothing dependent" /\ UNCHANGED lambda
     ELSE /\ result' = "transducer"
          /\ lambda' = [s \in Dfa.states |-> Totalised(IF s \in live THEN regions[s] ELSE {})]
  /\ UNCHANGED <<call, live, queue, regions, scanned, dependent, partition>>

Next ==
  \/ Refuse \/ SeedLive \/ Propagate \/ ThrowUnsatisfiable
  \/ ComputeRegions \/ TryCandidate \/ Repartition \/ Emit

Spec == Init /\ [][Next]_vars
-----------------------------------------------------------------------------
\* Every variable has its type; the partition always splits the same inputs and
\* the same outputs.
TypeOK ==
  /\ phase \in {"start", "live", "greedy", "emit", "done"}
  /\ live \subseteq Dfa.states /\ queue \subseteq live
  /\ regions \in {<<>>} \cup [Dfa.states -> SUBSET Letter]
  /\ scanned \subseteq universe(call.partition) /\ dependent \subseteq universe(call.partition)
  /\ partition \in [DOMAIN call.partition -> SUBSET universe(call.partition)]
  /\ inputs(partition) = inputs(call.partition) /\ outputs(partition) = outputs(call.partition)
  /\ lambda \in {<<>>} \cup [Dfa.states -> SUBSET Letter]
  /\ result \in {"none", "invalid_argument", "unsatisfiable", "nothing dependent", "transducer"}

Succ(s, l) == (CHOOSE e \in Dfa.edges[s] : l \in e.guard).dst

\* The states from which some word leads to acceptance: those that every set
\* closed under all letters leads from into an accepting state.
Extendable ==
  {s \in Dfa.states : \A S \in SUBSET Dfa.states :
     s \in S /\ (\A r \in S : \A l \in Letter : Succ(r, l) \in S) => S \cap Dfa.accepting # {}}

\* The letters that keep acceptance in reach.
LiveLetters(s) == LET ext == Extendable IN {l \in Letter : Succ(s, l) \in ext}

\* The backward search finds exactly the states from which acceptance can still
\* be reached by letters; an edge on bddfalse carries nothing.
LiveIsExtendable == phase \in {"greedy", "emit"} => live = Extendable

\* What the player's transducer sees of a letter when X is emitted: t_in moves
\* before the outputs.
Observed(X) == (IF IsInput THEN inputs(call.partition) ELSE universe(call.partition)) \ X

\* The dependency criterion, on the automaton itself: after any history, two
\* continuations that look the same and keep acceptance in reach agree on X.
Determined(X) ==
  \A s \in Dfa.states : \A l, m \in LiveLetters(s) :
    l \cap Observed(X) = m \cap Observed(X) => l \cap X = m \cap X

\* The variables that are returned are dependent together, not just one by one.
DependentIsDetermined == phase = "emit" => Determined(dependent)

\* And none was missed: a variable that was rejected against the smaller set of
\* its turn would be rejected against the final one as well.
DependentIsMaximal ==
  phase = "emit" =>
    \A z \in (IF IsInput THEN inputs(call.partition) ELSE outputs(call.partition)) \ dependent :
      ~Determined(dependent \cup {z})

\* The transducer answers every observation with exactly one valuation of the
\* dependent variables, sees nothing else, and forbids no word of the language.
TransducerCommits ==
  result = "transducer" =>
    \A s \in Dfa.states :
      /\ \A l \in Letter : \E m \in lambda[s] : m \cap Observed(dependent) = l \cap Observed(dependent)
      /\ \A l, m \in lambda[s] :
           l \cap Observed(dependent) = m \cap Observed(dependent) => l \cap dependent = m \cap dependent
      /\ LiveLetters(s) \subseteq lambda[s]

\* The game for the goal in which the environment chooses the variables of env,
\* the system the others, only letters of allowed[s] may be played, and the
\* automaton accepts the goal (t_out) or its negation (t_in).
Wins(env, allowed) ==
  LET good == IF IsInput THEN Dfa.states \ Dfa.accepting ELSE Dfa.accepting
      forces(s, W) == \A e \in SUBSET env : \E l \in allowed[s] : l \cap env = e /\ Succ(s, l) \in W \cup good
  IN  \A W \in SUBSET Dfa.states : (\A s \in Dfa.states : forces(s, W) => s \in W) => Dfa.init \in W

\* What the analysis is for: giving the dependent variables to the transducer
\* changes no verdict of a synthesis method.
RealizabilityPreserved ==
  result = "transducer" =>
    Wins(partition.input_free, lambda)
      = Wins(call.partition.input_free, [s \in Dfa.states |-> Letter])
===============================================================================
