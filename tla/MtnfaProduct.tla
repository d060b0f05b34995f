----------------------------- MODULE MtnfaProduct -----------------------------
(***************************************************************************)
(* Method 1 over MTBDDs: mtnfa_product_to_mtdfa fuses the product of the goal *)
(* NFA with the transducers and its determinization into one breadth-first    *)
(* construction of rows, which solve_mtdfa then solves.  Without transducers  *)
(* it is mtnfa_to_mtdfa, the determinization of the goal alone.              *)
(***************************************************************************)
EXTENDS NfaGoal, SolveMtdfa, Interning

CONSTANT MaxTaus  \* only the contract mentions it; this method has no limit

VARIABLES
  problem,      \* goal, taus and vars: the arguments, never assigned
  phase,        \* "build", "built", "done"
  subsetIndex,  \* subset_index: the interned keys and their indices
  pending,      \* pending: the keys still to expand, oldest first
  rows,         \* out->states: the row of index j is rows[j + 1]
  result

vars == <<problem, phase, subsetIndex, pending, rows, result>>

-----------------------------------------------------------------------------
\* A fused state: a set of goal states and one state per transducer.
Key(S, q) == [S |-> S, q |-> q]

InitialKey(p) == Key({p.init}, InitialVector(p))

\* row_set: the leaf of the union of the members' rows, a set of goal states.
\* (A name with an underscore is a faulty variant of the definition that
\* follows it.)
RowSet(p, S, l) == NfaSuccessors(p.nfa, S, l)

\* The letters under some non-empty combination of the delta edges, with cons.
Masked(p, key) == Agreeing(p, key.q)

\* The keys that relabelling the masked row_set interns.
Successors_Unmasked(p, key) ==
  {Key(RowSet(p, key.S, l), Delta(p, key.q, l)) :
     l \in {m \in Letter : DeltaDefined(p, key.q, m) /\ RowSet(p, key.S, m) # {}}}
Successors(p, key) ==
  {Key(RowSet(p, key.S, l), Delta(p, key.q, l)) :
     l \in {m \in Masked(p, key) : RowSet(p, key.S, m) # {}}}

\* Relabel: the empty set is the rejecting sink, any other an interned key; the
\* leaf accepts when some member of the set does.
Relabel_SourceBit(p, key, l, index) ==
  LET T == RowSet(p, key.S, l)
  IN  IF T = {} THEN FalseCell
      ELSE StateCell(index[Key(T, Delta(p, key.q, l))], SomeAccepting(p.nfa, key.S))
Relabel(p, key, l, index) ==
  LET T == RowSet(p, key.S, l)
  IN  IF T = {} THEN FalseCell
      ELSE StateCell(index[Key(T, Delta(p, key.q, l))], SomeAccepting(p.nfa, T))

RowOf(p, key, index) ==
  [l \in Letter |-> IF l \in Masked(p, key) THEN Relabel(p, key, l, index) ELSE FalseCell]

\* The overlap check: only when some letter is emitted at this vector.
Rejects(p, key) == Emitted(p, key.q) # {} /\ Nondeterministic(p, key.q)

-----------------------------------------------------------------------------
Init ==
  /\ problem \in Problems
  /\ phase = "build"
  /\ subsetIndex = [key \in {InitialKey(problem)} |-> 0]
  /\ pending = <<InitialKey(problem)>>
  /\ rows = <<>> /\ result = "none"

ThrowNondeterministic ==
  /\ phase = "build" /\ pending # <<>>
  /\ Rejects(problem, Head(pending))
  /\ phase' = "done" /\ result' = "runtime_error"
  /\ pending' = Tail(pending)
  /\ UNCHANGED <<problem, subsetIndex, rows>>

\* One iteration of the loop: expand the oldest pending key.
Expand ==
  /\ phase = "build" /\ pending # <<>>
  /\ LET key == Head(pending)
         new == Successors(problem, key) \ DOMAIN subsetIndex
     IN  /\ ~Rejects(problem, key)
         /\ \E ns \in Orders(new) :
              /\ subsetIndex' = Intern(subsetIndex, ns)
              /\ pending' = Tail(pending) \o ns
              /\ rows' = Append(rows, RowOf(problem, key, subsetIndex'))
  /\ UNCHANGED <<problem, phase, result>>

FinishBuild ==
  /\ phase = "build" /\ pending = <<>>
  /\ phase' = "built"
  /\ UNCHANGED <<problem, subsetIndex, pending, rows, result>>

\* solve_mtdfa on the product, whose initial state has index 0.
ByIndex == [j \in 0 .. (Len(rows) - 1) |-> rows[j + 1]]

Solve ==
  /\ phase = "built"
  /\ phase' = "done"
  /\ result' = IF 0 \in Winning(ByIndex) THEN "controller" ELSE "unrealizable"
  /\ UNCHANGED <<problem, subsetIndex, pending, rows>>

Next == ThrowNondeterministic \/ Expand \/ FinishBuild \/ Solve

Spec == Init /\ [][Next]_vars

-----------------------------------------------------------------------------

\* A finished product has exactly the reachable positions of the reference game.
KeysAreReachable ==
  phase = "built" => {<<key.S, key.q>> : key \in DOMAIN subsetIndex} = Reachable(problem)

\* The method implements the contract of a synthesis method.
Contract == INSTANCE SynthesisContract
ImplementsContract == Contract!Spec
===============================================================================
