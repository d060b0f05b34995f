------------------------------- MODULE SolveDfa -------------------------------
(***************************************************************************)
(* solve_dfa: the reachability game on an explicit automaton, over the free  *)
(* variables only.                                                          *)
(***************************************************************************)
EXTENDS SynthesisProblem, TwaGraph

\* solve_dfa's arena: a final state absorbs, every other edge keeps its free part.
FreePart(guard) == {<<l.i, l.o>> : l \in guard}

Final(aut) == {s \in DOMAIN aut : StateIsAccepting(aut[s])}

ArenaEdges(aut, s) ==
  UNION {{[i |-> x[1], o |-> x[2], dst |-> e.dst] : x \in FreePart(e.guard)} : e \in aut[s]}

\* The environment moves first; where it has a letter that no edge covers, the
\* split completes the arena with a losing sink.
Attracts_NoCompletion(arena, s, W) ==
  \A i \in {e.i : e \in arena[s]} : \E e \in arena[s] : e.i = i /\ e.dst \in W
Attracts(arena, s, W) == \A i \in IFree : \E e \in arena[s] : e.i = i /\ e.dst \in W

\* The states from which acceptance is at most n rounds away.
Attractor(aut, n) ==
  LET open  == DOMAIN aut \ Final(aut)
      arena == [s \in open |-> ArenaEdges(aut, s)]
      won[m \in 0 .. n] ==
        IF m = 0 THEN Final(aut)
        ELSE LET W == won[m - 1] IN W \cup {s \in open : Attracts(arena, s, W)}
  IN  won[n]
WinsArena(aut, s0) == s0 \in Attractor(aut, Cardinality(DOMAIN aut))
===============================================================================
