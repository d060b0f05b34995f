------------------------------ MODULE OtfProduct ------------------------------
(***************************************************************************)
(* The on-the-fly method: BuildProduct expands one product state per         *)
(* iteration and, when it solves online, feeds the row to the OnlineGame and *)
(* stops as soon as the initial state is decided; the discovered but         *)
(* unexpanded states are padded with a losing row, and a won game is solved  *)
(* again by solve_mtdfa on the padded product.                              *)
(***************************************************************************)
EXTENDS SolveMtdfa, Interning

CONSTANT MaxTaus  \* kMaxTaus

VARIABLES
  problem,     \* phi, taus and vars: the arguments, never assigned
  online,      \* solve_online
  phase,       \* "start", "build", "built", "done"
  stateIndex,  \* state_index: the interned keys and their indices
  pending,     \* pending: the keys still to expand, oldest first
  rows,        \* out->states: the row of index j is rows[j + 1]
  decided,     \* the game's verdict on index 0: "none", "win", "lose"
  expanded,    \* build.expanded
  result

vars == <<problem, online, phase, stateIndex, pending, rows, decided, expanded, result>>
buildVars == <<stateIndex, pending, rows, decided, expanded>>

-----------------------------------------------------------------------------
\* A fused state: the row of its residual formula and one state per tau.  Two
\* residuals with the same row share a key.
KeyOf(p, psi, q) == [row |-> p.progress[psi], q |-> q]

InitialKey(p) == KeyOf(p, p.phi, InitialVector(p))

\* The letters under some non-empty combination of the delta edges, with cons.
Masked(p, key) == Agreeing(p, key.q)

\* The keys that relabelling the masked row meets.  (A name with an underscore
\* is a faulty variant of the definition that follows it: PROJECT.json's mutants
\* put its body in place of the definition's, and the named property fails.)
Successors_Unmasked(p, key) ==
  {KeyOf(p, key.row[l].psi, Delta(p, key.q, l)) :
     l \in {m \in Letter : DeltaDefined(p, key.q, m) /\ key.row[m].kind = "next"}}
Successors(p, key) ==
  {KeyOf(p, key.row[l].psi, Delta(p, key.q, l)) :
     l \in {m \in Masked(p, key) : key.row[m].kind = "next"}}

\* Relabel: a leaf of the progression row becomes a leaf of the product row.
Relabel(p, key, l, index) ==
  LET c == key.row[l]
  IN  IF c.kind = "next"
      THEN StateCell(index[KeyOf(p, c.psi, Delta(p, key.q, l))], c.last)
      ELSE c

RowOf(p, key, index) ==
  [l \in Letter |-> IF l \in Masked(p, key) THEN Relabel(p, key, l, index) ELSE FalseCell]

-----------------------------------------------------------------------------
\* The backpropagation over the fed rows; what is lost is tracked as what is won.
CellLost_IgnoresAcc(c, L) == c.kind = "false" \/ (c.kind = "state" /\ c.to \in L)
CellLost(c, L) == c.kind = "false" \/ (c.kind = "state" /\ ~c.acc /\ c.to \in L)

RowLost(row, L) == \E i \in IFree : \A l \in Letter : l.i = i => CellLost(row[l], L)

Roots(rs) == 0 .. (Len(rs) - 1)

\* The determined roots: the least sets closed under the propagation.  A root
\* whose row was not fed is in neither.
WonRoots(rs) ==
  {j \in Roots(rs) : \A W \in SUBSET Roots(rs) :
     (\A m \in Roots(rs) : RowWon(rs[m + 1], W) => m \in W) => j \in W}
LostRoots(rs) ==
  {j \in Roots(rs) : \A L \in SUBSET Roots(rs) :
     (\A m \in Roots(rs) : RowLost(rs[m + 1], L) => m \in L) => j \in L}

Verdict(rs) == IF 0 \in WonRoots(rs) THEN "win" ELSE IF 0 \in LostRoots(rs) THEN "lose" ELSE "none"

\* solve_mtdfa on a finished product: does index 0 keep a winning strategy?
Realizable(rs) == 0 \in WonRoots(rs)

-----------------------------------------------------------------------------
Init ==
  /\ problem \in Problems
  /\ online \in BOOLEAN
  /\ phase = "start"
  /\ stateIndex = <<>> /\ pending = <<>> /\ rows = <<>>
  /\ decided = "none" /\ expanded = 0 /\ result = "none"

TooManyTaus ==
  /\ phase = "start" /\ Len(problem.taus) > MaxTaus
  /\ phase' = "done" /\ result' = "invalid_argument"
  /\ UNCHANGED <<problem, online, buildVars>>

Seed ==
  /\ phase = "start" /\ Len(problem.taus) <= MaxTaus
  /\ phase' = "build"
  /\ stateIndex' = [key \in {InitialKey(problem)} |-> 0]
  /\ pending' = <<InitialKey(problem)>>
  /\ UNCHANGED <<problem, online, rows, decided, expanded, result>>

\* The overlap check: only when some letter is emitted at this vector.
Rejects(p, key) == Emitted(p, key.q) # {} /\ Nondeterministic(p, key.q)

ThrowNondeterministic ==
  /\ phase = "build" /\ decided = "none" /\ pending # <<>>
  /\ Rejects(problem, Head(pending))
  /\ phase' = "done" /\ result' = "runtime_error"
  /\ pending' = Tail(pending)
  /\ UNCHANGED <<problem, online, stateIndex, rows, decided, expanded>>

\* One iteration of the loop: expand the oldest pending key.
Expand ==
  /\ phase = "build" /\ decided = "none" /\ pending # <<>>
  /\ LET key == Head(pending)
         new == Successors(problem, key) \ DOMAIN stateIndex
     IN  /\ ~Rejects(problem, key)
         /\ \E ns \in Orders(new) :
              /\ stateIndex' = Intern(stateIndex, ns)
              /\ pending' = Tail(pending) \o ns
              /\ rows' = Append(rows, RowOf(problem, key, stateIndex'))
         /\ decided' = IF online THEN Verdict(rows') ELSE "none"
  /\ UNCHANGED <<problem, online, phase, expanded, result>>

LoopEnds == pending = <<>> \/ decided # "none"

\* After the loop: count the expanded states, pad the others.
Pad_FromLast(rs, n) == SubSeq(rs, 1, Len(rs) - 1) \o [m \in 1 .. (n + 1 - Len(rs)) |-> FalseRow]
Pad(rs, n) == rs \o [m \in 1 .. (n - Len(rs)) |-> FalseRow]

FinishBuild ==
  /\ phase = "build" /\ LoopEnds
  /\ phase' = "built"
  /\ expanded' = Len(rows)
  /\ rows' = Pad(rows, Cardinality(DOMAIN stateIndex))
  /\ UNCHANGED <<problem, online, stateIndex, pending, decided, result>>

\* otf_solve_fused after a build that solved online: a game that is lost, or
\* still undetermined, is not solved again.
SolveFused ==
  /\ phase = "built" /\ online
  /\ phase' = "done"
  /\ result' = IF decided = "win" /\ Realizable(rows) THEN "controller" ELSE "unrealizable"
  /\ UNCHANGED <<problem, online, buildVars>>

\* synthesize without the fused solve: solve_mtdfa on the whole product.
SolveBuilt ==
  /\ phase = "built" /\ ~online
  /\ phase' = "done"
  /\ result' = IF Realizable(rows) THEN "controller" ELSE "unrealizable"
  /\ UNCHANGED <<problem, online, buildVars>>

Next ==
  \/ TooManyTaus \/ Seed
  \/ ThrowNondeterministic \/ Expand
  \/ FinishBuild
  \/ SolveFused \/ SolveBuilt

Spec == Init /\ [][Next]_vars

-----------------------------------------------------------------------------
Keys(p) == [row : {p.progress[psi] : psi \in p.formulas}, q : Vectors(p)]

\* Every variable has its type; in particular no leaf of the progression row
\* reaches a product row without having been relabelled.
TypeOK ==
  /\ online \in BOOLEAN
  /\ phase \in {"start", "build", "built", "done"}
  /\ DOMAIN stateIndex \subseteq Keys(problem)
  /\ stateIndex \in [DOMAIN stateIndex -> Nat]
  /\ pending \in Seq(DOMAIN stateIndex)
  /\ rows \in Seq([Letter -> OutCells])
  /\ decided \in {"none", "win", "lose"} /\ expanded \in Nat
  /\ result \in {"none", "controller", "unrealizable", "invalid_argument", "runtime_error"}

\* The assertion before states.push_back: the indices of state_index are
\* 0 .. size - 1, each used once, and the queue holds exactly the states that
\* have no row yet, in index order, so that the key taken next is the one the
\* next pushed row belongs to.
IndexIsDequeueOrder ==
  phase = "build" =>
    /\ Cardinality(DOMAIN stateIndex) = Len(rows) + Len(pending)
    /\ \A n \in DOMAIN pending : stateIndex[pending[n]] = Len(rows) + n - 1
    /\ \A key \in DOMAIN stateIndex :
         \/ stateIndex[key] < Len(rows)
         \/ \E n \in DOMAIN pending : pending[n] = key
    /\ IsInjective(stateIndex)

\* The product handed to solve_mtdfa is a complete automaton: every terminal of
\* every row names a root that exists, also when the build stopped early.
RootsExist ==
  phase = "built" =>
    \A n \in DOMAIN rows : \A l \in Letter :
      rows[n][l].kind = "state" => rows[n][l].to < Len(rows)

\* Masking before walking keeps the pruning: no state is interned unless an
\* agreeing word of the knowledge leads to it.
InternedReachable ==
  phase = "built" =>
    DOMAIN stateIndex \subseteq {KeyOf(problem, s[1], s[2]) : s \in Reachable(problem)}

\* A verdict given before the product is complete is the verdict of the whole
\* game: what is still unknown can neither lose a won game nor win a lost one.
EarlyVerdictSound ==
  phase = "build" /\ decided # "none" => (decided = "win") = SystemWins(problem)

\* The comment on the padding: the losing rows it adds never change a
\* realizable verdict, so solving the padded product finds the strategy again.
WinSurvivesPadding ==
  phase = "built" /\ decided = "win" => Realizable(rows)

\* Both ways of solving implement the contract of a synthesis method.
Contract == INSTANCE SynthesisContract
ImplementsContract == Contract!Spec

===============================================================================
