----------------------------- MODULE MCSynthTool -----------------------------
(***************************************************************************)
(* The sample problems; a part of them is also model-checked, each with six  *)
(* given controllers of two states: in a state o is constant, or follows i, or  *)
(* is missing for i1.                                                       *)
(***************************************************************************)
EXTENDS SynthTool, SampleProblems

Cases == WithKnowledge(Knowledge \cup {<<MaskedOverlap, Mirror>>})
MCProblems == Cases

Sample == {p \in Cases :
             \A l \in Letter : l.i = i0 => p.progress[f][l] \in {NextCell(f, FALSE), NextCell(g, TRUE)}}
MCModelChecked == Sample

Outputs == {O(o0), Where(LAMBDA l : (l.o = o0) = (l.i = i0)), I(i0) \cap O(o1)}

SampleControllers ==
  {TwoStates(outA, outB, <<Edge(I(i0), "a"), Edge(I(i1), "b")>>, <<Edge(Letter, "a")>>) :
     outA \in Outputs, outB \in {O(o1), I(i0) \cap O(o0)}}
MCControllers == SampleControllers
===============================================================================
