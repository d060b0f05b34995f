-------------------------------- MODULE LtlfGoal --------------------------------
(***************************************************************************)
(* LTLf goals as Spot's syntax trees, and what it means that a finite word   *)
(* satisfies one.  A word is a sequence of valuations, a valuation the set of *)
(* the atomic propositions that hold; positions count from 0.                *)
(***************************************************************************)
EXTENDS Integers, Sequences, FiniteSets

CONSTANTS Formulas,  \* the goals and their subformulas ...
          Depth      \* ... and how deep each one is

Ap(name) == [op |-> "ap", name |-> name, args |-> <<>>]
Op(op, args) == [op |-> op, name |-> "", args |-> args]

Boolean == {"tt", "ff", "Not", "And", "Or", "Xor", "Implies", "Equiv"}
Temporal == {"X", "strong_X", "F", "G", "U", "R", "W", "M"}

Unary == {"Not", "X", "strong_X", "F", "G"}
Binary == {"Xor", "Implies", "Equiv", "U", "R", "W", "M"}

ASSUME FormulasAreTrees ==
  \A f \in Formulas :
    /\ Depth[f] \in Nat
    /\ f.args \in Seq(Formulas) /\ \A m \in DOMAIN f.args : Depth[f.args[m]] < Depth[f]
    /\ f.op \in Unary => Len(f.args) = 1
    /\ f.op \in Binary => Len(f.args) = 2

Subformulas[f \in Formulas] == {f} \cup UNION {Subformulas[f.args[m]] : m \in DOMAIN f.args}

\* atomic_prop_collect
Support(f) == {g.name : g \in {h \in Subformulas[f] : h.op = "ap"}}

Pos(w) == 0 .. (Len(w) - 1)

\* How the Boolean operators combine the positions at which their operands hold; what
\* is not LTLf holds nowhere.
Combine(f, w, P) ==
  CASE f.op = "ap"      -> {p \in Pos(w) : f.name \in w[p + 1]}
    [] f.op = "tt"      -> Pos(w)
    [] f.op = "ff"      -> {}
    [] f.op = "Not"     -> Pos(w) \ P[1]
    [] f.op = "And"     -> {p \in Pos(w) : \A m \in DOMAIN P : p \in P[m]}
    [] f.op = "Or"      -> {p \in Pos(w) : \E m \in DOMAIN P : p \in P[m]}
    [] f.op = "Xor"     -> {p \in Pos(w) : ~(p \in P[1] <=> p \in P[2])}
    [] f.op = "Implies" -> {p \in Pos(w) : p \in P[1] => p \in P[2]}
    [] f.op = "Equiv"   -> {p \in Pos(w) : p \in P[1] <=> p \in P[2]}
    [] OTHER            -> {}

\* The positions at which f holds, looking towards the end of w; P has those of its
\* operands.
Future(f, w, P) ==
  LET from(p)  == p .. (Len(w) - 1)
      until(p) == \E j \in from(p) : j \in P[2] /\ \A k \in p .. (j - 1) : k \in P[1]
      always(p, A) == from(p) \subseteq A
  IN  CASE f.op = "X"        -> {p \in Pos(w) : p + 1 \in Pos(w) => p + 1 \in P[1]}
        [] f.op = "strong_X" -> {p \in Pos(w) : p + 1 \in P[1]}
        [] f.op = "F"        -> {p \in Pos(w) : ~always(p, Pos(w) \ P[1])}
        [] f.op = "G"        -> {p \in Pos(w) : always(p, P[1])}
        [] f.op = "U"        -> {p \in Pos(w) : until(p)}
        [] f.op = "W"        -> {p \in Pos(w) : until(p) \/ always(p, P[1])}
        [] f.op = "R"        -> {p \in Pos(w) : \A j \in from(p) : j \in P[2] \/ \E k \in p .. (j - 1) : k \in P[1]}
        [] f.op = "M"        -> {p \in Pos(w) : \E j \in from(p) : j \in P[1] /\ p .. j \subseteq P[2]}
        [] OTHER             -> Combine(f, w, P)

HoldsAt(f, w) ==
  LET holds[g \in Formulas] == Future(g, w, [m \in DOMAIN g.args |-> holds[g.args[m]]])
  IN  holds[f]

\* The empty word satisfies no goal.
Satisfies(w, f) == w # <<>> /\ 0 \in HoldsAt(f, w)
===============================================================================
