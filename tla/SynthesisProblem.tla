--------------------------- MODULE SynthesisProblem ---------------------------
(***************************************************************************)
(* The input of a synthesis method: an LTLf goal, given by its progression, *)
(* and the knowledge transducers ("taus").  A letter assigns every variable *)
(* of the universe; its fields follow the VariablePartition: i is the part  *)
(* over input_free, o over output_free and k over the known variables.      *)
(* A BDD over the universe is the set of letters that satisfy it, an MTBDD  *)
(* row is a function of the letters.                                        *)
(***************************************************************************)
EXTENDS Integers, Sequences, FiniteSets

CONSTANTS IFree, OFree, Known,  \* valuations of the three groups of variables
          Problems              \* the calls that are considered

Letter == [i : IFree, o : OFree, k : Known]

ASSUME LettersFinite == IsFiniteSet(Letter)

\* The leaves of a row: the two constants, and the terminals of a progression
\* row ("next", with the residual formula and the may-stop bit).
FalseCell == [kind |-> "false"]
TrueCell  == [kind |-> "true"]
NextCell(psi, b) == [kind |-> "next", psi |-> psi, last |-> b]

Cells(formulas) == {FalseCell, TrueCell} \cup {NextCell(psi, b) : psi \in formulas, b \in BOOLEAN}

\* A transducer: its lambda as the region of letters it allows in each state,
\* its delta as the list of guarded edges of each state.
Transducers(states) ==
  [states : {states}, init : states, emits : [states -> SUBSET Letter],
   edges : [states -> Seq([guard : SUBSET Letter, dst : states])]]

IsTransducer(tau) == tau \in Transducers(tau.states)

WellFormed(p) ==
  /\ {"phi", "formulas", "progress", "taus"} \subseteq DOMAIN p
  /\ p.phi \in p.formulas
  /\ p.progress \in [p.formulas -> [Letter -> Cells(p.formulas)]]
  /\ p.taus \in Seq({p.taus[t] : t \in DOMAIN p.taus})
  /\ \A t \in DOMAIN p.taus : IsTransducer(p.taus[t])

ASSUME ProblemsWellFormed == \A p \in Problems : WellFormed(p)

-----------------------------------------------------------------------------
\* Vectors of transducer states, one per tau.
Vectors(p) == {q \in [DOMAIN p.taus -> UNION {p.taus[t].states : t \in DOMAIN p.taus}] :
                 \A t \in DOMAIN p.taus : q[t] \in p.taus[t].states}

InitialVector(p) == [t \in DOMAIN p.taus |-> p.taus[t].init]

\* The letters that every transducer allows at q.
Emitted(p, q) == {l \in Letter : \A t \in DOMAIN p.taus : l \in p.taus[t].emits[q[t]]}

\* The edges of tau in state s whose guard holds of l.
Matching(tau, s, l) == {n \in DOMAIN tau.edges[s] : l \in tau.edges[s][n].guard}

DeltaDefined(p, q, l) == \A t \in DOMAIN p.taus : Matching(p.taus[t], q[t], l) # {}

First(S) == CHOOSE n \in S : \A m \in S : n <= m

Delta(p, q, l) ==
  [t \in DOMAIN p.taus |-> p.taus[t].edges[q[t]][First(Matching(p.taus[t], q[t], l))].dst]

\* Two edges of one state of one transducer overlap.
Overlap(tau, s) ==
  \E m, n \in DOMAIN tau.edges[s] :
    m < n /\ tau.edges[s][m].guard \cap tau.edges[s][n].guard # {}

Nondeterministic(p, q) == \E t \in DOMAIN p.taus : Overlap(p.taus[t], q[t])

\* The letters the transducers agree on at q and whose delta is defined.
Agreeing(p, q) == {l \in Emitted(p, q) : DeltaDefined(p, q, l)}

-----------------------------------------------------------------------------
\* The reference game.  A position is a residual formula and a vector.  The
\* environment picks i, the system answers with o and the known part; only
\* agreeing letters may be played, and the system wins by stopping on a word
\* that satisfies the goal.
Positions(p) == p.formulas \X Vectors(p)

InitialPosition(p) == <<p.phi, InitialVector(p)>>

\* The system can answer i at s and stop there.
Stops(p, s, i) ==
  \E l \in Agreeing(p, s[2]) :
    /\ l.i = i
    /\ \/ p.progress[s[1]][l] = TrueCell
       \/ \E psi \in p.formulas : p.progress[s[1]][l] = NextCell(psi, TRUE)

\* Where the system can go from s by answering i.
Moves(p, s, i) ==
  {<<p.progress[s[1]][l].psi, Delta(p, s[2], l)>> :
     l \in {m \in Agreeing(p, s[2]) : m.i = i /\ p.progress[s[1]][m].kind = "next"}}

\* The positions that some word of agreeing letters leads to: those in every set
\* that contains the initial position and is closed under the moves.
Reachable(p) ==
  LET all   == Positions(p)
      moves == UNION {{<<s, r>> : r \in UNION {Moves(p, s, i) : i \in IFree}} : s \in all}
      closed == {S \in SUBSET all : InitialPosition(p) \in S /\ \A m \in moves : m[1] \in S => m[2] \in S}
  IN  {s \in all : \A S \in closed : s \in S}

\* The system wins from the initial position: every set W of positions without it
\* leaves out some position from which the system can, whatever i, either stop
\* or move into W; so it is in the least set that leaves out none.
SystemWins(p) ==
  LET all   == Positions(p)
      stops == {x \in all \X IFree : Stops(p, x[1], x[2])}
      moves == UNION {{<<x[1], x[2], r>> : r \in Moves(p, x[1], x[2])} : x \in all \X IFree}
      forces(s, W) == \A i \in IFree : <<s, i>> \in stops \/ \E r \in W : <<s, i, r>> \in moves
  IN  \A W \in SUBSET (all \ {InitialPosition(p)}) : \E s \in all \ W : forces(s, W)
===============================================================================
