-------------------------------- MODULE MonaDfa --------------------------------
(***************************************************************************)
(* From the table MONA prints to the DFA of the goal's mirror image:         *)
(* mona_output_to_dfa and the rest of past_ltlf_to_dfa, as operators.        *)
(***************************************************************************)
EXTENDS SynthesisProblem, MirrorEncoding, ReversalPasses

CONSTANT Region  \* the letters in which a proposition holds, by name

ASSUME NamesHaveRegions == \A name \in Range(Names) : Region[name] \subseteq Letter

-----------------------------------------------------------------------------
\* mona_output_to_dfa, on a table that it accepts.
Accepts(order, t) == t.vars = order

GuardOf(order, bits) ==
  {l \in Letter : \A m \in DOMAIN order : bits[m] # "X" => (bits[m] = "1" <=> l \in Region[order[m]])}

Parsed(order, t) ==
  [init |-> t.init, states |-> t.states,
   edges |-> {[src |-> x.src, dst |-> x.dst, guard |-> GuardOf(order, x.bits), mark |-> x.src \in t.accepting] :
                x \in t.lines}]

\* StripMonaPreludeState: the leading state must have one edge, on every letter.
HasPrelude(m) == \E e \in Out(m, m.init) : Out(m, m.init) = {e} /\ e.guard = Letter

Stripped(m) ==
  LET s == (CHOOSE e \in Out(m, m.init) : TRUE).dst
  IN  PurgeUnreachable([m EXCEPT !.init = s], s)

\* What the front end builds for each goal of cases, records of a goal and the
\* automaton MONA has for it, when MONA prints its table.
GoalNfas(cases) ==
  LET tables    == {[goal |-> x.goal, table |-> MonaTable(x.m, VarOrder(x.goal))] : x \in cases}
      stripped  == {[goal |-> x.goal, d |-> Stripped(Parsed(VarOrder(x.goal), x.table))] : x \in tables}
      turned    == {[goal |-> x.goal, n |-> EnsureInit(x.d, Reversed(x.d))] : x \in stripped}
      reachable == {[x EXCEPT !.n = PurgeUnreachable(x.n, FreshInit)] : x \in turned}
      trimmed   == {[x EXCEPT !.n = PurgeDead(x.n)] : x \in reachable}
  IN  {[goal |-> x.goal, nfa |-> AsTwa(x.n)] : x \in trimmed}
===============================================================================
