------------------------------ MODULE NfaProduct ------------------------------
(***************************************************************************)
(* Method 1 over explicit automata: complete the goal NFA, build its product *)
(* with the transducers letter by letter (build_product_nondet), materialize *)
(* it, determinize it by the subset construction (nfa_to_dfa) and solve the   *)
(* game on the result.                                                      *)
(***************************************************************************)
EXTENDS NfaGoal, ExplicitProduct, SolveDfa, Interning

CONSTANT MaxTaus  \* only the contract mentions it; this method has no limit

VARIABLES
  problem,   \* phi, taus and vars: the arguments, never assigned
  phase,     \* "complete", "build", "determinize", "determinized", "done"
  goal,      \* the goal NFA, completed in place
  nodes,     \* pg.nodes: state -> [acc, guards], guards: destination -> letters
  worklist,  \* of product states, then of sets of product states
  product,   \* the materialized product
  dfa,       \* the determinized product: set of states -> set of edges
  interned,  \* nfa_to_dfa's map: the sets that have a state
  result

vars == <<problem, phase, goal, nodes, worklist, product, dfa, interned, result>>

-----------------------------------------------------------------------------
Sink == "sink"

ASSUME SinkIsNew == \A p \in Problems : Sink \notin DOMAIN p.nfa

Uncovered(es) == Letter \ UNION {e.guard : e \in es}

\* complete_here: the missing letters lead to a rejecting sink, by edges that
\* carry the mark of their state.
Completed(g) ==
  IF \A s \in DOMAIN g : Uncovered(g[s]) = {} THEN g
  ELSE [s \in DOMAIN g \cup {Sink} |->
          IF s = Sink THEN {[dst |-> Sink, guard |-> Letter, mark |-> FALSE]}
          ELSE g[s] \cup {[dst |-> Sink, guard |-> u, mark |-> StateIsAccepting(g[s])] :
                            u \in {Uncovered(g[s])} \ {{}}}]

\* The goal that the product is built from.  (A name with an underscore is a
\* faulty variant of the definition that follows it.)
CompleteGoal_AsItIs(p) == p.nfa
CompleteGoal(p) == Completed(p.nfa)

NfaInitialState(p) == [goal |-> p.init, taus |-> InitialVector(p)]
FreshNode(g, s) == [acc |-> StateIsAccepting(g[s.goal]), guards |-> <<>>]

\* The product states that a letter leads to from s: every goal successor, with
\* the one vector the transducers move to.
NondetSuccessors(p, g, s, l) ==
  {[goal |-> t, taus |-> Delta(p, s.taus, l)] : t \in NfaSuccessors(g, {s.goal}, l)}

NondetGuards(p, g, s) ==
  LET to == [l \in Agreeing(p, s.taus) |-> NondetSuccessors(p, g, s, l)]
  IN  [t \in UNION Range(to) |-> {l \in DOMAIN to : t \in to[l]}]

-----------------------------------------------------------------------------
\* nfa_to_dfa: the states reached from a set by a letter; a letter that leads
\* nowhere gets no edge.
SubsetSuccessor(aut, S, l) == NfaSuccessors(aut, S, l)

SubsetAccepting_EveryState(aut, S) == \A s \in S : StateIsAccepting(aut[s])
SubsetAccepting(aut, S) == SomeAccepting(aut, S)

SubsetEdges(aut, S) ==
  {[dst |-> SubsetSuccessor(aut, S, l), guard |-> {l}, mark |-> SubsetAccepting(aut, S)] :
     l \in {m \in Letter : SubsetSuccessor(aut, S, m) # {}}}

-----------------------------------------------------------------------------
Init ==
  /\ problem \in Problems
  /\ phase = "complete"
  /\ goal = problem.nfa
  /\ nodes = <<>> /\ worklist = <<>> /\ product = <<>>
  /\ dfa = <<>> /\ interned = {} /\ result = "none"

Complete ==
  /\ phase = "complete"
  /\ phase' = "build"
  /\ goal' = CompleteGoal(problem)
  /\ LET s == NfaInitialState(problem)
     IN  nodes' = [x \in {s} |-> FreshNode(goal', s)] /\ worklist' = <<s>>
  /\ UNCHANGED <<problem, product, dfa, interned, result>>

\* delta is asked only about letters that are emitted, so a non-deterministic
\* transducer is met on such a letter or not at all.
Throws(s) == \E l \in Letter : ThrowsOn(problem, s, l)

ThrowNondeterministic ==
  /\ phase = "build" /\ worklist # <<>> /\ Throws(Head(worklist))
  /\ phase' = "done" /\ result' = "runtime_error"
  /\ worklist' = Tail(worklist)
  /\ UNCHANGED <<problem, goal, nodes, product, dfa, interned>>

Explore ==
  /\ phase = "build" /\ worklist # <<>> /\ ~Throws(Head(worklist))
  /\ LET cur    == Head(worklist)
         guards == NondetGuards(problem, goal, cur)
         new    == DOMAIN guards \ DOMAIN nodes
     IN  /\ nodes' = [s \in DOMAIN nodes \cup new |->
                        IF s = cur THEN [nodes[cur] EXCEPT !.guards = guards]
                        ELSE IF s \in new THEN FreshNode(goal, s) ELSE nodes[s]]
         /\ \E ns \in Orders(new) : worklist' = Tail(worklist) \o ns
  /\ UNCHANGED <<problem, phase, goal, product, dfa, interned, result>>

Materialize ==
  /\ phase = "build" /\ worklist = <<>>
  /\ phase' = "determinize"
  /\ product' = Materialized(nodes)
  /\ LET init == {NfaInitialState(problem)}
     IN  interned' = {init} /\ worklist' = <<init>>
  /\ UNCHANGED <<problem, goal, nodes, dfa, result>>

Determinize ==
  /\ phase = "determinize" /\ worklist # <<>>
  /\ LET cur   == Head(worklist)
         edges == SubsetEdges(product, cur)
         new   == {e.dst : e \in edges} \ interned
     IN  /\ dfa' = [S \in DOMAIN dfa \cup {cur} |->
                      IF S = cur THEN Readable(cur, SubsetAccepting(product, cur), edges) ELSE dfa[S]]
         /\ interned' = interned \cup new
         /\ \E ns \in Orders(new) : worklist' = Tail(worklist) \o ns
  /\ UNCHANGED <<problem, phase, goal, nodes, product, result>>

FinishDeterminize ==
  /\ phase = "determinize" /\ worklist = <<>>
  /\ phase' = "determinized"
  /\ UNCHANGED <<problem, goal, nodes, worklist, product, dfa, interned, result>>

Solve ==
  /\ phase = "determinized"
  /\ phase' = "done"
  /\ result' = IF WinsArena(dfa, {NfaInitialState(problem)}) THEN "controller" ELSE "unrealizable"
  /\ UNCHANGED <<problem, goal, nodes, worklist, product, dfa, interned>>

Next ==
  \/ Complete
  \/ ThrowNondeterministic \/ Explore
  \/ Materialize
  \/ Determinize \/ FinishDeterminize
  \/ Solve

Spec == Init /\ [][Next]_vars

-----------------------------------------------------------------------------

VectorsOf(S) == {s.taus : s \in S}

\* Why the goal NFA is completed first: a letter the knowledge allows keeps its
\* edge in the determinized product also when the goal is lost on it, and one
\* it forbids has none.
AgreeingLettersKept ==
  phase = "determinized" =>
    \A S \in DOMAIN dfa : \A q \in VectorsOf(S) :
      UNION {e.guard : e \in dfa[S]} = Agreeing(problem, q)

\* The method implements the contract of a synthesis method.
Contract == INSTANCE SynthesisContract
ImplementsContract == Contract!Spec
===============================================================================
