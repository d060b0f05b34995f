--------------------------- MODULE AgreementAutomata ---------------------------
(***************************************************************************)
(* emits_dfa: the automaton of the words whose every letter agrees with a     *)
(* transducer's lambda along its run.  Every state accepts, also one without   *)
(* edges, where every agreeing word must end; a letter no edge covers is      *)
(* rejected.                                                                *)
(***************************************************************************)
EXTENDS SynthesisProblem, TwaGraph

\* The guards of the delta edges, narrowed to the letters that lambda allows;
\* an edge that keeps no letter is dropped.  (A name with an underscore is a
\* faulty variant of the definition that follows it.)
Narrowed_Not(tau, q, m) == tau.edges[q][m].guard
Narrowed(tau, q, m) == tau.edges[q][m].guard \cap tau.emits[q]

AgreementEdges(tau, q) ==
  {[dst |-> tau.edges[q][m].dst, guard |-> Narrowed(tau, q, m), mark |-> TRUE] :
     m \in {x \in DOMAIN tau.edges[q] : Narrowed(tau, q, x) # {}}}

\* The edges that q gets when the breadth-first search expands it.
AgreementNode(tau, q) == Readable(q, TRUE, AgreementEdges(tau, q))

\* twadfa_to_mtdfa refuses a non-deterministic automaton.
NarrowedOverlap(tau, q) ==
  \E m, n \in DOMAIN tau.edges[q] : m < n /\ Narrowed(tau, q, m) \cap Narrowed(tau, q, n) # {}
===============================================================================
