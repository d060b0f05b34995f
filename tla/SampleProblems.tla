---------------------------- MODULE SampleProblems ----------------------------
(***************************************************************************)
(* Problems for TLC.  The row of f depends on (i, o): every pair of leaves   *)
(* for i0, three pairs for i1.  g has one of four rows, h has the row of f,   *)
(* so that f and h are fused.  The knowledge is one of five pairs of         *)
(* transducers; four more problems exceed MaxTaus.                          *)
(***************************************************************************)
EXTENDS SynthesisProblem

CONSTANTS i0, i1, o0, o1, k0, k1, f, g, h

Where(P(_)) == {l \in Letter : P(l)}
Edge(guard, d) == [guard |-> guard, dst |-> d]
NoKnowledge == [states |-> {"a"}, init |-> "a", emits |-> [s \in {"a"} |-> Letter],
                edges |-> [s \in {"a"} |-> <<Edge(Letter, "a")>>]]
\* k follows i.
Mirror == [NoKnowledge EXCEPT !.emits = [s \in {"a"} |-> {l \in Letter : (l.k = k0) = (l.i = i0)}]]
TwoStates(emitsA, emitsB, edgesA, edgesB) ==
  [states |-> {"a", "b"}, init |-> "a",
   emits |-> [s \in {"a", "b"} |-> IF s = "a" THEN emitsA ELSE emitsB],
   edges |-> [s \in {"a", "b"} |-> IF s = "a" THEN edgesA ELSE edgesB]]

K(k) == Where(LAMBDA l : l.k = k)
I(i) == Where(LAMBDA l : l.i = i)
O(o) == Where(LAMBDA l : l.o = o)

\* k follows the previous i.
Delay == TwoStates(K(k0), K(k1), <<Edge(I(i0), "a"), Edge(I(i1), "b")>>,
                                 <<Edge(I(i0), "a"), Edge(I(i1), "b")>>)
\* Partial: in a delta is undefined on (i1, o1); in b it is nowhere defined, so
\* every trace must end there.
Partial == TwoStates(K(k0), K(k1), <<Edge(I(i0), "b"), Edge(I(i1) \cap O(o0), "a")>>, <<>>)
\* Overlapping guards in b; in Silent b also emits nothing.
Overlapping == TwoStates(K(k0), K(k1), <<Edge(I(i0), "a"), Edge(I(i1), "b")>>,
                                       <<Edge(I(i0), "a"), Edge(Letter, "b")>>)
Silent == TwoStates(K(k0), {}, <<Edge(O(o0), "a"), Edge(O(o1), "b")>>,
                               <<Edge(I(i0), "a"), Edge(Letter, "b")>>)
\* An output-side transducer that reacts to o and k.
Echo == TwoStates(Letter, Letter, <<Edge(O(o0) \cap K(k0), "a"), Edge(O(o1), "b"),
                                    Edge(O(o0) \cap K(k1), "b")>>, <<Edge(Letter, "a")>>)

\* Overlapping guards in b, but on no letter that b emits.
MaskedOverlap == TwoStates(K(k0), K(k1) \cap I(i1), <<Edge(I(i0), "a"), Edge(I(i1), "b")>>,
                                            <<Edge(I(i0), "a"), Edge(Letter, "b")>>)

Knowledge == {<<Delay, NoKnowledge>>, <<Partial, NoKnowledge>>, <<Overlapping, NoKnowledge>>,
              <<Silent, NoKnowledge>>, <<Mirror, Echo>>}

Leaves == {FalseCell, TrueCell, NextCell(g, FALSE), NextCell(f, FALSE), NextCell(g, TRUE)}
OnI1 == {<<FalseCell, NextCell(g, FALSE)>>, <<NextCell(g, FALSE), NextCell(f, FALSE)>>,
         <<TrueCell, FalseCell>>}
RowsOfF == {[l \in Letter |-> LET r == IF l.i = i0 THEN r0 ELSE r1
                              IN  IF l.o = o0 THEN r[1] ELSE r[2]] :
              r0 \in Leaves \X Leaves, r1 \in OnI1}
RowsOfG == {[l \in Letter |-> IF l.o = o0 THEN TrueCell ELSE NextCell(h, FALSE)],
            [l \in Letter |-> IF l.k = k1 THEN NextCell(h, TRUE) ELSE NextCell(g, FALSE)],
            [l \in Letter |-> IF l.k = k0 THEN FalseCell ELSE IF l.o = o0 THEN NextCell(h, FALSE) ELSE TrueCell],
            [l \in Letter |-> IF l.i = i0 THEN NextCell(g, FALSE) ELSE NextCell(h, FALSE)]}

Goal(rf, rg) == [psi \in {f, g, h} |-> IF psi = g THEN rg ELSE rf]

WithKnowledge(knowledge) ==
  {[phi |-> f, formulas |-> {f, g, h}, progress |-> Goal(rf, rg), taus |-> taus] :
     rf \in RowsOfF, rg \in RowsOfG, taus \in knowledge}

TwoTaus == WithKnowledge(Knowledge)

FiveTaus ==
  {[phi |-> g, formulas |-> {f, g, h}, taus |-> <<Delay, NoKnowledge, NoKnowledge, NoKnowledge, NoKnowledge>>,
         progress |-> Goal([l \in Letter |-> TrueCell], rg)] : rg \in RowsOfG}
===============================================================================
