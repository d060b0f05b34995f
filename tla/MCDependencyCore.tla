--------------------------- MODULE MCDependencyCore ---------------------------
(***************************************************************************)
(* Automata of three states over the variables 1, 2, 3; 2 is the output for  *)
(* t_in and 3 the input for t_out.  States 0 and 1 split the letters by a predicate, perhaps beside an edge   *)
(* on bddfalse to state 0; state 2 loops.  A call that must be refused is    *)
(* made for each reason to refuse it.                                      *)
(***************************************************************************)
EXTENDS DependencyCore

Part(inFree, inKnown, outFree, outKnown) ==
  [input_free |-> inFree, input_known |-> inKnown, output_free |-> outFree, output_known |-> outKnown]

AllLetters == SUBSET (1 .. 3)

Same(x, y) == {l \in AllLetters : (x \in l) = (y \in l)}
Holds(x) == {l \in AllLetters : x \in l}

Edge(guard, d) == [guard |-> guard, dst |-> d]
Split(P, yes, no) == {Edge(P, yes), Edge(AllLetters \ P, no)}

Automata ==
  {[states |-> 0 .. 2, init |-> 0, accepting |-> acc,
    edges |-> [s \in 0 .. 2 |-> CASE s = 0 -> Split(P, to0[1], to0[2])
                                  [] s = 1 -> Split(Q, to1[1], to1[2]) \cup vacuous
                                  [] s = 2 -> {Edge(AllLetters, 2)}]] :
     P \in {Same(1, 2), Same(1, 3), Same(1, 2) \cap Same(2, 3)},
     Q \in {Same(2, 3), Holds(1), Same(1, 2) \cap Holds(3)},
     vacuous \in {{}, {Edge({}, 0)}},
     to0 \in {<<1, 2>>, <<0, 1>>, <<2, 1>>}, to1 \in {<<2, 2>>, <<0, 2>>, <<1, 2>>},
     acc \in {{}, {0}, {1}, {2}, {0, 1}, {1, 2}}}

Call(role, p, d) == [role |-> role, partition |-> p, aps |-> {1, 2, 3}, dfa |-> d]

MCCalls ==
  {Call("t_in", Part({1, 3}, {}, {2}, {}), d) : d \in Automata}
    \cup {Call("t_out", Part({3}, {}, {1, 2}, {}), d) : d \in Automata}
    \cup LET d == CHOOSE a \in Automata : a.accepting = {1}
         IN  {Call("t_c", Part({3}, {}, {1, 2}, {}), d), Call("t_in", Part({3}, {1}, {2}, {}), d),
              Call("t_out", Part({1, 3}, {}, {}, {2}), d), Call("t_out", Part({1}, {3}, {2}, {}), d),
              [Call("t_in", Part({1, 3}, {}, {2}, {}), d) EXCEPT !.aps = {1, 5}]}
===============================================================================
