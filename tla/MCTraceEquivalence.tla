-------------------------- MODULE MCTraceEquivalence --------------------------
EXTENDS TraceEquivalence, SampleProblems

Taus == {NoKnowledge, Mirror, Delay, Partial, Echo, MaskedOverlap}

\* Three states: p before the first letter, a and r after it.
RowOn(G, s, t) == [l \in Letter |-> IF l \in G THEN s ELSE t]
Regions == {Letter, K(k0), I(i0), O(o0), Where(LAMBDA l : (l.k = k0) = (l.i = i0))}
Small ==
  {[init |-> "p", final |-> F,
    delta |-> [s \in {"p", "a", "r"} |->
       IF s = "p" THEN RowOn(G, "a", "r") ELSE IF s = "a" THEN RowOn(H, "a", back) ELSE RowOn({}, "a", "r")]] :
     F \in {{"a"}, {"r"}}, G \in Regions, H \in Regions, back \in {"p", "r"}}

\* The words of a transducer exactly, except for those that end in a state of Cut.
Exact(x, Cut) ==
  LET to(q, l) == IF l \in x.emits[q] /\ Matching(x, q, l) # {} THEN x.edges[q][First(Matching(x, q, l))].dst
                  ELSE "r"
  IN  [init |-> "p", final |-> x.states \ Cut,
       delta |-> [s \in x.states \cup {"p", "r"} |->
          [l \in Letter |-> IF s = "r" THEN "r" ELSE to(IF s = "p" THEN x.init ELSE s, l)]]]

MCQuestions ==
  {[tau |-> x, psi |-> m] : x \in Taus, m \in Small}
    \cup UNION {{[tau |-> x, psi |-> Exact(x, Cut)] : Cut \in SUBSET x.states} : x \in Taus}
===============================================================================
