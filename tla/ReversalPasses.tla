---------------------------- MODULE ReversalPasses ----------------------------
(***************************************************************************)
(* The passes of reverse_dfa_to_nfa as operators on automata.  An automaton   *)
(* under construction is a set of states and a set of edges; a DFA has its    *)
(* initial state too.                                                       *)
(***************************************************************************)
EXTENDS TwaGraph

FreshInit == "fresh"

EdgeOf(src, e) == [src |-> src, dst |-> e.dst, guard |-> e.guard, mark |-> e.mark]

\* The edges of state s, and the finished automaton, as TwaGraph has them.
Out(g, s) == {[dst |-> e.dst, guard |-> e.guard, mark |-> e.mark] : e \in {x \in g.edges : x.src = s}}
AsTwa(g) == [s \in g.states |-> Out(g, s)]

-----------------------------------------------------------------------------
\* The edge e turned round.
Turned(e, src, mark) == [src |-> src, dst |-> e.src, guard |-> e.guard, mark |-> mark]

\* The fresh state goes where the last letter of an accepted word comes from.
FreshEdges(d) ==
  {Turned(e, FreshInit, FALSE) : e \in {x \in d.edges : StateIsAccepting(Out(d, x.dst))}}

Reversed(d) ==
  [states |-> d.states \cup {FreshInit},
   edges  |-> {Turned(e, e.dst, e.dst = d.init) : e \in d.edges} \cup FreshEdges(d)]

EnsureInit(d, g) ==
  [g EXCEPT !.edges = {e \in @ : e.src # d.init}
                        \cup {EdgeOf(d.init, e) : e \in Readable(d.init, TRUE, Out(g, d.init))}]

\* purge_unreachable_states and purge_dead_states.  A state is dead when every
\* path from it ends; the self-loop on bddfalse that only carries a mark counts
\* as a path, the initial state always stays.
Keep(g, S) == [g EXCEPT !.states = S, !.edges = {e \in @ : e.src \in S /\ e.dst \in S}]

PurgeUnreachable(g, init) ==
  LET closed == {S \in SUBSET g.states : init \in S /\ \A e \in g.edges : e.src \in S => e.dst \in S}
  IN  Keep(g, {s \in g.states : \A S \in closed : s \in S})

PurgeDead(g) ==
  LET alive == {S \in SUBSET g.states : \A s \in S : \E e \in g.edges : e.src = s /\ e.dst \in S}
  IN  Keep(g, (UNION alive) \cup {FreshInit})
===============================================================================
