---------------------------- MODULE ExplicitProduct ----------------------------
(***************************************************************************)
(* Product states of the explicit constructions: a state of the goal's       *)
(* complete DFA and one state per transducer (ProductState).                *)
(***************************************************************************)
EXTENDS SynthesisProblem, TwaGraph

\* The goal DFA.  A state remembers the leaf that the last letter led to; the
\* two constant leaves are the accepting and the rejecting sink.
GoalInit(p) == NextCell(p.phi, FALSE)
GoalDelta(p, s, l) == IF s.kind = "next" THEN p.progress[s.psi][l] ELSE s
Accepting(s) == s.kind = "true" \/ (s.kind = "next" /\ s.last)

\* ProductState.
InitialState(p) == [goal |-> GoalInit(p), taus |-> InitialVector(p)]

Successor(p, s, l) == [goal |-> GoalDelta(p, s.goal, l), taus |-> Delta(p, s.taus, l)]

\* agreeing_successor asks the taus in order; delta throws on the first tau that
\* emits the letter and has two edges for it.
ThrowsOn(p, s, l) ==
  \E t \in DOMAIN p.taus :
    /\ \A u \in 1 .. t : l \in p.taus[u].emits[s.taus[u]]
    /\ \A u \in 1 .. (t - 1) : Matching(p.taus[u], s.taus[u], l) # {}
    /\ Cardinality(Matching(p.taus[t], s.taus[t], l)) > 1

\* materialize_product: acceptance becomes a mark on the edges of the state.
Materialized(ns) ==
  [s \in DOMAIN ns |->
     Readable(s, ns[s].acc, {[dst |-> d, guard |-> ns[s].guards[d], mark |-> ns[s].acc] : d \in DOMAIN ns[s].guards})]
===============================================================================
