------------------------------ MODULE Strategies ------------------------------
(***************************************************************************)
(* The controllers that solve_dfa and solve_mtdfa read off a won game, and    *)
(* controller_as_transducer, which makes a transducer of either.  Spot's      *)
(* solvers find the strategies: here, in every state a move that comes closer  *)
(* to acceptance.  A Mealy machine maps a state to its edges [guard, dst],     *)
(* the guard a set of pairs <<i, o>>.                                       *)
(***************************************************************************)
EXTENDS SolveDfa, SolveMtdfa, SequencesExt

\* Of the sets of states won in 0, 1, 2, ... rounds, the last without s.
Nearer(rounds, s) == rounds[First({n \in DOMAIN rounds : s \in rounds[n]}) - 1]

\* solve_dfa.  In a won state an edge of the arena for each i, with all its o; in
\* a final state the self-loop that made it absorbing.
DfaRounds(aut) == [n \in 0 .. Cardinality(DOMAIN aut) |-> Attractor(aut, n)]

DfaMealy(aut) ==
  LET rounds  == DfaRounds(aut)
      move(s, i) ==
        LET e == CHOOSE e \in aut[s] : e.dst \in Nearer(rounds, s) /\ \E x \in FreePart(e.guard) : x[1] = i
        IN  [guard |-> {x \in FreePart(e.guard) : x[1] = i}, dst |-> e.dst]
  IN  [s \in rounds[Cardinality(DOMAIN aut)] |->
         IF s \in Final(aut) THEN {[guard |-> IFree \X OFree, dst |-> s]} ELSE {move(s, i) : i \in IFree}]

\* solve_mtdfa.  One letter for each i, its known part projected away; where the
\* game is won the machine stays (loop=true).
MtdfaRounds(rows) == [n \in 0 .. Cardinality(DOMAIN rows) |-> WonWithin(rows, n)]

MtdfaMealy(rows) ==
  LET rounds == MtdfaRounds(rows)
      move(r, i) ==
        LET l == CHOOSE l \in Letter : l.i = i /\ CellWon(rows[r][l], Nearer(rounds, r))
            c == rows[r][l]
        IN  [guard |-> {<<i, l.o>>}, dst |-> IF c.kind = "true" \/ c.acc THEN r ELSE c.to]
  IN  [r \in Winning(rows) |-> {move(r, i) : i \in IFree}]

-----------------------------------------------------------------------------
Lifted(guard) == {l \in Letter : <<l.i, l.o>> \in guard}

\* Lambda at a state is the union of the guards of its edges.  (A name with an
\* underscore is a faulty variant of the definition that follows it.)
Commitment_LastEdge(edges) == Lifted((CHOOSE e \in edges : TRUE).guard)
Commitment(edges) == Lifted(UNION {e.guard : e \in edges})

ControllerAsTransducer(mealy, init) ==
  [states |-> DOMAIN mealy, init |-> init,
   emits |-> [q \in DOMAIN mealy |-> Commitment(mealy[q])],
   edges |-> [q \in DOMAIN mealy |->
                SetToSeq({[guard |-> Lifted(e.guard), dst |-> e.dst] : e \in mealy[q]})]]
===============================================================================
