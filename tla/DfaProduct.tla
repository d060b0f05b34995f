------------------------------ MODULE DfaProduct ------------------------------
(***************************************************************************)
(* The explicit method: the goal's complete DFA, the reachable product with  *)
(* the transducers (build_product_symbolic), the automaton materialized from *)
(* it, and the turn-based game over the free variables (solve_dfa).         *)
(***************************************************************************)
EXTENDS ExplicitProduct, SolveDfa, Interning

CONSTANT MaxTaus  \* only the contract mentions it; this method has no limit

VARIABLES
  problem,   \* phi, taus and vars: the arguments, never assigned
  phase,     \* "build", "built", "materialized", "done"
  nodes,     \* pg.nodes: state -> [acc, guards], guards: destination -> letters
  worklist,
  product,   \* the materialized automaton: state -> set of edges
  result

vars == <<problem, phase, nodes, worklist, product, result>>

-----------------------------------------------------------------------------
\* symbolic_successors: the letters that lead to each destination.
Enabled_FirstEdges(p, s) ==
  {l \in Agreeing(p, s.taus) : \A t \in DOMAIN p.taus : 1 \in Matching(p.taus[t], s.taus[t], l)}
Enabled(p, s) == Agreeing(p, s.taus)

Guards(p, s) ==
  [d \in {Successor(p, s, l) : l \in Enabled(p, s)} |-> {l \in Enabled(p, s) : Successor(p, s, l) = d}]

Fresh(s) == [acc |-> Accepting(s.goal), guards |-> <<>>]

-----------------------------------------------------------------------------
Init ==
  /\ problem \in Problems
  /\ phase = "build"
  /\ nodes = [s \in {InitialState(problem)} |-> Fresh(s)]
  /\ worklist = <<InitialState(problem)>>
  /\ product = <<>> /\ result = "none"

ThrowNondeterministic ==
  /\ phase = "build" /\ worklist # <<>>
  /\ Nondeterministic(problem, Head(worklist).taus)
  /\ phase' = "done" /\ result' = "runtime_error"
  /\ worklist' = Tail(worklist)
  /\ UNCHANGED <<problem, nodes, product>>

\* dst_guards is a std::map, so its states enter the worklist in key order;
\* which order that is depends on the numbering of the goal's states.
Explore ==
  /\ phase = "build" /\ worklist # <<>>
  /\ ~Nondeterministic(problem, Head(worklist).taus)
  /\ LET cur    == Head(worklist)
         guards == Guards(problem, cur)
         new    == DOMAIN guards \ DOMAIN nodes
     IN  /\ nodes' = [s \in DOMAIN nodes \cup new |->
                        IF s = cur THEN [nodes[cur] EXCEPT !.guards = guards]
                        ELSE IF s \in new THEN Fresh(s) ELSE nodes[s]]
         /\ \E ns \in Orders(new) : worklist' = Tail(worklist) \o ns
  /\ UNCHANGED <<problem, phase, product, result>>

FinishBuild ==
  /\ phase = "build" /\ worklist = <<>>
  /\ phase' = "built"
  /\ UNCHANGED <<problem, nodes, worklist, product, result>>

Materialize ==
  /\ phase = "built"
  /\ phase' = "materialized"
  /\ product' = Materialized(nodes)
  /\ UNCHANGED <<problem, nodes, worklist, result>>

Solve ==
  /\ phase = "materialized"
  /\ phase' = "done"
  /\ result' = IF WinsArena(product, InitialState(problem)) THEN "controller" ELSE "unrealizable"
  /\ UNCHANGED <<problem, nodes, worklist, product>>

Next == ThrowNondeterministic \/ Explore \/ FinishBuild \/ Materialize \/ Solve

Spec == Init /\ [][Next]_vars

-----------------------------------------------------------------------------

\* A finished build holds the product states that words of agreeing letters
\* lead to, no other one and none missing.
NodesAreReachable ==
  phase = "built" =>
    {<<s.goal.psi, s.taus>> : s \in {t \in DOMAIN nodes : t.goal.kind = "next"}} = Reachable(problem)

\* The method implements the contract of a synthesis method; as the on-the-fly
\* method does, so the two agree on every problem.
Contract == INSTANCE SynthesisContract
ImplementsContract == Contract!Spec
===============================================================================
