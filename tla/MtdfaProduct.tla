----------------------------- MODULE MtdfaProduct -----------------------------
(***************************************************************************)
(* Method 3: the goal's MTDFA is intersected with the agreement automata of   *)
(* T_in and T_out, each found by a breadth-first search (emits_dfa) and lifted *)
(* to rows (twadfa_to_mtdfa), and solve_mtdfa solves the product.            *)
(***************************************************************************)
EXTENDS AgreementAutomata, SolveMtdfa, Interning, SequencesExt

CONSTANTS MaxTaus,  \* only the contract mentions it; this method has no limit
          MaxWord   \* the longest word the properties look at

VARIABLES
  problem,     \* phi, taus and vars: the arguments, never assigned
  phase,       \* "agree", "multiply", "solve", "done"
  graph,       \* the agreement automaton under construction
  worklist,
  agreements,  \* the finished ones
  rows,        \* the product: state -> row
  result

vars == <<problem, phase, graph, worklist, agreements, rows, result>>

-----------------------------------------------------------------------------
\* emits_dfa(t_in) is finished before emits_dfa(t_out) starts.
Current(done) == Len(done) + 1

\* A lifted automaton: the leaf carries the acceptance of the state it names.
LiftedCell(aut, q, l) ==
  LET es == {e \in aut[q] : l \in e.guard}
  IN  IF es = {} THEN FalseCell
      ELSE LET e == CHOOSE x \in es : TRUE IN StateCell(e.dst, StateIsAccepting(aut[e.dst]))

\* spot::product of the goal with the agreement automata.  The goal part of a
\* state is a residual formula, or Fulfilled when the rest of the word is free.
Fulfilled == "fulfilled"

GoalCell(p, psi, l) == IF psi = Fulfilled THEN TrueCell ELSE p.progress[psi][l]

ProductCell(p, auts, s, l) ==
  LET c  == GoalCell(p, s.goal, l)
      ds == [t \in DOMAIN auts |-> LiftedCell(auts[t], s.taus[t], l)]
  IN  IF c = FalseCell \/ FalseCell \in Range(ds) THEN FalseCell
      ELSE StateCell([goal |-> IF c = TrueCell THEN Fulfilled ELSE c.psi, taus |-> [t \in DOMAIN ds |-> ds[t].to]],
                     (c = TrueCell \/ c.last) /\ \A t \in DOMAIN ds : ds[t].acc)

ProductStates(p, auts) ==
  [goal : p.formulas \cup {Fulfilled},
   taus : {q \in Vectors(p) : \A t \in DOMAIN auts : q[t] \in DOMAIN auts[t]}]

Multiplied(p, auts) ==
  [s \in ProductStates(p, auts) |-> [l \in Letter |-> ProductCell(p, auts, s, l)]]

Start(p) == [goal |-> p.phi, taus |-> InitialVector(p)]

-----------------------------------------------------------------------------
Tau == problem.taus[Current(agreements)]

Init ==
  /\ problem \in Problems
  /\ phase = "agree"
  /\ graph = <<>> /\ worklist = <<problem.taus[1].init>>
  /\ agreements = <<>> /\ rows = <<>> /\ result = "none"

Expand ==
  /\ phase = "agree" /\ worklist # <<>>
  /\ LET q   == Head(worklist)
         es  == AgreementNode(Tau, q)
         new == {e.dst : e \in es} \ (DOMAIN graph \cup Range(worklist))
     IN  /\ graph' = [s \in DOMAIN graph \cup {q} |-> IF s = q THEN es ELSE graph[s]]
         /\ \E ns \in Orders(new) : worklist' = Tail(worklist) \o ns
  /\ UNCHANGED <<problem, phase, agreements, rows, result>>

Refused == \E q \in DOMAIN graph : NarrowedOverlap(Tau, q)

LiftRefused ==
  /\ phase = "agree" /\ worklist = <<>> /\ Refused
  /\ phase' = "done" /\ result' = "runtime_error"
  /\ UNCHANGED <<problem, graph, worklist, agreements, rows>>

Lift ==
  /\ phase = "agree" /\ worklist = <<>> /\ ~Refused
  /\ agreements' = Append(agreements, graph)
  /\ graph' = <<>>
  /\ IF Len(agreements') < Len(problem.taus)
     THEN phase' = phase /\ worklist' = <<problem.taus[Current(agreements')].init>>
     ELSE phase' = "multiply" /\ UNCHANGED worklist
  /\ UNCHANGED <<problem, rows, result>>

Multiply ==
  /\ phase = "multiply"
  /\ phase' = "solve"
  /\ rows' = Multiplied(problem, agreements)
  /\ UNCHANGED <<problem, graph, worklist, agreements, result>>

Solve ==
  /\ phase = "solve"
  /\ phase' = "done"
  /\ result' = IF Start(problem) \in Winning(rows) THEN "controller" ELSE "unrealizable"
  /\ UNCHANGED <<problem, graph, worklist, agreements, rows>>

Next == Expand \/ LiftRefused \/ Lift \/ Multiply \/ Solve

Spec == Init /\ [][Next]_vars

-----------------------------------------------------------------------------

\* The leaf that w leads to.
Reads(aut, init, w) ==
  LET leaf[k \in 0 .. Len(w)] ==
        IF k = 0 THEN StateCell(init, TRUE)
        ELSE LET c == leaf[k - 1] IN IF c = FalseCell THEN c ELSE LiftedCell(aut, c.to, w[k])
  IN  leaf[Len(w)]

Accepts(aut, init, w) == LET c == Reads(aut, init, w) IN c # FalseCell /\ c.acc

\* A word is consistent with the knowledge: every letter agrees with every
\* transducer where the letters before it have led.
Consistent(w) ==
  LET led[k \in 0 .. Len(w)] ==
        IF k = 0 THEN {InitialVector(problem)}
        ELSE {Delta(problem, q, w[k]) : q \in {r \in led[k - 1] : w[k] \in Agreeing(problem, r)}}
  IN  led[Len(w)] # {}

\* The cons filter is not built anywhere: it emerges from intersecting the two
\* automata.  Together they accept exactly the words that are consistent with
\* both transducers, those that end in a state without edges included.
ConsEmerges ==
  phase = "multiply" =>
    \A w \in UNION {[1 .. k -> Letter] : k \in 1 .. MaxWord} :
      Consistent(w) <=> \A t \in DOMAIN agreements : Accepts(agreements[t], problem.taus[t].init, w)

\* The method implements the contract of a synthesis method.
Contract == INSTANCE SynthesisContract
ImplementsContract == Contract!Spec
===============================================================================
