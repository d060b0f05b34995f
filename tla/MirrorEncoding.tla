----------------------------- MODULE MirrorEncoding -----------------------------
(***************************************************************************)
(* encode_mirror: the goal's mirror image as a formula of M2L-Str, which says *)
(* of the reversed word what the goal says of the word.  A clause is given by *)
(* the positions of the string at which it holds.  MONA, which compiles such  *)
(* formulas, is external: all the code knows of it is the table it prints.   *)
(***************************************************************************)
EXTENDS LtlfGoal, SequencesExt

CONSTANTS Goals,
          Names,      \* of the atomic propositions, in their order: a sequence
          Reserved    \* the names with the prefix kFreshPrefix

-----------------------------------------------------------------------------
\* The clauses of the temporal operators; P, P1 and P2 are the positions at which
\* the operands' clauses hold.  (A name with an underscore is a faulty variant of
\* the definition that follows it.)
WeakYesterday(P, pos) == pos = 0 \/ pos - 1 \in P

StrongYesterday(P, pos) == pos # 0 /\ pos - 1 \in P

Once(P, pos) == \E j \in 0 .. pos : j \in P

Historically(P, pos) == \A j \in 0 .. pos : j \in P

Since_FromWitness(P1, P2, pos) == \E j \in 0 .. pos : j \in P2 /\ \A k \in j .. pos : k \in P1
Since(P1, P2, pos) == \E j \in 0 .. pos : j \in P2 /\ \A k \in (j + 1) .. pos : k \in P1

Trigger(P1, P2, pos) == \A j \in 0 .. pos : j \in P2 \/ \E k \in (j + 1) .. pos : k \in P1

StrongTrigger(P1, P2, pos) == \E j \in 0 .. pos : j \in P1 /\ \A k \in j .. pos : k \in P2

\* Trans: the positions at which the clause of f holds.
Past(f, w, P) ==
  CASE f.op = "X"        -> {pos \in Pos(w) : WeakYesterday(P[1], pos)}
    [] f.op = "strong_X" -> {pos \in Pos(w) : StrongYesterday(P[1], pos)}
    [] f.op = "F"        -> {pos \in Pos(w) : Once(P[1], pos)}
    [] f.op = "G"        -> {pos \in Pos(w) : Historically(P[1], pos)}
    [] f.op = "U"        -> {pos \in Pos(w) : Since(P[1], P[2], pos)}
    [] f.op = "R"        -> {pos \in Pos(w) : Trigger(P[1], P[2], pos)}
    [] f.op = "W"        -> {pos \in Pos(w) : Since(P[1], P[2], pos) \/ Historically(P[1], pos)}
    [] f.op = "M"        -> {pos \in Pos(w) : StrongTrigger(P[1], P[2], pos)}
    [] OTHER             -> Combine(f, w, P)

Trans(f, w) ==
  LET holds[g \in Formulas] == Past(g, w, [m \in DOMAIN g.args |-> holds[g.args[m]]])
  IN  holds[f]

\* The wrapping formula: the clause holds at the last position, and there is one.
Encoded(phi, w) == \E last \in Pos(w) : (\A q \in Pos(w) : q <= last) /\ last \in Trans(phi, w)

\* What encode_mirror refuses.
Encodable(phi) ==
  /\ Support(phi) \cap Reserved = {}
  /\ \A f \in Subformulas[phi] : f.op \in {"ap"} \cup Boolean \cup Temporal

\* The declared variables: the support, sorted.
VarOrder(phi) == SelectSeq(Names, LAMBDA name : name \in Support(phi))

-----------------------------------------------------------------------------
\* MONA's table has one state more, which first reads a letter of no meaning.
Prelude == "prelude"

WordsOver(vals, len) == UNION {[1 .. k -> vals] : k \in 0 .. len}

\* MONA's automaton is deterministic and complete, ...
IsAutomaton(m, vals) ==
  /\ IsFiniteSet(m.states) /\ m.init \in m.states /\ Prelude \notin m.states
  /\ m.accepting \subseteq m.states
  /\ m.moves \subseteq [src : m.states, reads : vals, dst : m.states]
  /\ \A u \in m.states, v \in vals :
       \E x \in m.moves : \A y \in m.moves : y.src = u /\ y.reads = v <=> y = x

\* ... and reads a word to where its moves lead.
Target(m, u, v) == (CHOOSE x \in m.moves : x.src = u /\ x.reads = v).dst

Recognizes(m, w) ==
  LET at[k \in 0 .. Len(w)] == IF k = 0 THEN m.init ELSE Target(m, at[k - 1], w[k])
  IN  at[Len(w)] \in m.accepting

\* One line of the table: "0", "1" or "X" for each declared variable.
Line(src, bits, dst) == [src |-> src, bits |-> bits, dst |-> dst]
AnyBits(order) == [n \in DOMAIN order |-> "X"]
BitsOf(order, v) == [n \in DOMAIN order |-> IF order[n] \in v THEN "1" ELSE "0"]

MonaLines(m, order, u) ==
  LET out == {x \in m.moves : x.src = u}
  IN  IF Cardinality({x.dst : x \in out}) = 1 THEN {Line(u, AnyBits(order), x.dst) : x \in out}
      ELSE {Line(u, BitsOf(order, x.reads), x.dst) : x \in out}

MonaTable(m, order) ==
  [vars |-> order, init |-> Prelude, accepting |-> m.accepting, states |-> m.states \cup {Prelude},
   lines |-> {Line(Prelude, AnyBits(order), m.init)} \cup UNION {MonaLines(m, order, u) : u \in m.states}]
===============================================================================
