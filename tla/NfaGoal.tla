-------------------------------- MODULE NfaGoal --------------------------------
(***************************************************************************)
(* Problems whose goal comes with its NFA, as Method 1 takes it.  The field  *)
(* nfa is the automaton reverse_dfa_to_nfa leaves, its residual goals are the *)
(* sets of NFA states: progression reads a letter in all of them at once.    *)
(***************************************************************************)
EXTENDS SynthesisProblem, TwaGraph

NfaSuccessors(nfa, S, l) == UNION {{e.dst : e \in {x \in nfa[s] : l \in x.guard}} : s \in S}

SomeAccepting(nfa, S) == \E s \in S : StateIsAccepting(nfa[s])

ResidualRow(nfa, S) ==
  [l \in Letter |-> LET T == NfaSuccessors(nfa, S, l)
                    IN  IF T = {} THEN FalseCell ELSE NextCell(T, SomeAccepting(nfa, T))]

\* The problem of a goal with the NFA nfa and its initial state init, which no edge
\* enters.
NfaProblem(formula, nfa, init, taus) ==
  LET residuals == {{init}} \cup ((SUBSET (DOMAIN nfa \ {init})) \ {{}})
  IN  [phi |-> {init}, formulas |-> residuals, taus |-> taus, goal |-> formula, nfa |-> nfa, init |-> init,
       progress |-> [S \in residuals |-> ResidualRow(nfa, S)]]

\* An automaton as reverse_dfa_to_nfa builds it.
IsNfa(nfa) ==
  /\ IsFiniteSet(DOMAIN nfa)
  /\ nfa \in [DOMAIN nfa -> SUBSET [dst : DOMAIN nfa, guard : SUBSET Letter, mark : BOOLEAN]]

\* A determinization reads an accepting bit on the way into a state only, so the
\* initial state must not be accepting.
NfaWellFormed(p) ==
  /\ IsNfa(p.nfa) /\ p.init \in DOMAIN p.nfa
  /\ p = NfaProblem(p.goal, p.nfa, p.init, p.taus)
  /\ ~StateIsAccepting(p.nfa[p.init])

ASSUME GoalsAreNfas == \A p \in Problems : NfaWellFormed(p)
===============================================================================
