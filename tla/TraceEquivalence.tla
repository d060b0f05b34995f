--------------------------- MODULE TraceEquivalence ---------------------------
(***************************************************************************)
(* produced_trace_equivalent: do a transducer and a declared formula have the *)
(* same non-empty words?  A breadth-first walk of the synchronous product of   *)
(* emits_dfa(tau) and the formula's complete DFA looks for a pair that        *)
(* differs in finality, and the parent pointers give a shortest witness.     *)
(***************************************************************************)
EXTENDS AgreementAutomata, Interning

CONSTANT Questions  \* pairs of a transducer and a DFA [init, final, delta]

NoPair == <<>>
SinkDst == "sink"

IsPsi(m) ==
  /\ m.init \in DOMAIN m.delta \ m.final /\ m.final \subseteq DOMAIN m.delta
  /\ m.delta \in [DOMAIN m.delta -> [Letter -> DOMAIN m.delta]]

\* Both automata are finite, and the sink's number, -1, is no state's.
ASSUME QuestionsWellFormed ==
  \A x \in Questions :
    /\ IsTransducer(x.tau) /\ IsFiniteSet(x.tau.states) /\ SinkDst \notin x.tau.states
    /\ IsPsi(x.psi) /\ IsFiniteSet(DOMAIN x.psi.delta)

VARIABLES
  question,   \* the arguments, never assigned
  phase,      \* "walk", "trace", "done"
  root,       \* expanding_root: nothing has been expanded yet
  parent,     \* visited pair -> its predecessor and the letters of the block
  worklist,
  divergent,  \* the first pair that differs in finality, or NoPair
  at,         \* the pair the reconstruction has come to
  witness,    \* counterexample
  equivalent  \* equivalent_on_nonempty, meaningful when done

vars == <<question, phase, root, parent, worklist, divergent, at, witness, equivalent>>

-----------------------------------------------------------------------------
tau == question.tau
psi == question.psi

\* The walk's view of the two automata; a missing edge of tau leads to the sink.
TauNext(q, l) ==
  IF q = SinkDst THEN SinkDst
  ELSE LET ms == {m \in DOMAIN tau.edges[q] : l \in Narrowed(tau, q, m)}
       IN  IF ms = {} THEN SinkDst ELSE tau.edges[q][First(ms)].dst

TauFinal(q) == q # SinkDst /\ StateIsAccepting(AgreementNode(tau, q))

Initial == <<tau.init, psi.init>>
PairNext(pair, l) == <<TauNext(pair[1], l), psi.delta[pair[2]][l]>>
Diverges(pair) == TauFinal(pair[1]) # (pair[2] \in psi.final)

\* The letters that take pair to next: the union of the blocks that do.
Region(pair, next) == {l \in Letter : PairNext(pair, l) = next}

\* (A name with an underscore is a faulty variant of the definition after it.)
\* visited is what parent maps; the initial pair is not in it until some word
\* leads back to it.
Unvisited_InitSeeded(pair) == {PairNext(pair, l) : l \in Letter} \ (DOMAIN parent \cup {Initial})
Unvisited(pair) == {PairNext(pair, l) : l \in Letter} \ DOMAIN parent

\* cur_id: the pairs found from the root have no predecessor, also when the
\* initial pair is expanded again later.
CurId(pair) == IF root THEN NoPair ELSE pair

\* The loop over the blocks stops at the first pair that differs.
UpToDivergent_All(ns) == ns
UpToDivergent(ns) ==
  LET hits == {m \in DOMAIN ns : Diverges(ns[m])}
  IN  IF hits = {} THEN ns ELSE SubSeq(ns, 1, First(hits))

-----------------------------------------------------------------------------
Init ==
  /\ question \in Questions
  /\ phase = "walk" /\ root = TRUE
  /\ parent = <<>> /\ worklist = <<Initial>>
  /\ divergent = NoPair /\ at = NoPair
  /\ witness = <<>> /\ equivalent = FALSE

Expand ==
  /\ phase = "walk" /\ worklist # <<>> /\ divergent = NoPair
  /\ LET cur == Head(worklist)
     IN  \E order \in Orders(Unvisited(cur)) :
           LET ns == UpToDivergent(order)
           IN  /\ parent' = [x \in DOMAIN parent \cup Range(ns) |->
                              IF x \in DOMAIN parent THEN parent[x]
                              ELSE [pred |-> CurId(cur), letters |-> Region(cur, x)]]
               /\ worklist' = Tail(worklist) \o ns
               /\ divergent' = IF ns # <<>> /\ Diverges(ns[Len(ns)]) THEN ns[Len(ns)] ELSE NoPair
  /\ root' = FALSE
  /\ UNCHANGED <<question, phase, at, witness, equivalent>>

Exhausted_EveryPair == DOMAIN parent = (tau.states \cup {SinkDst}) \X DOMAIN psi.delta
Exhausted == worklist = <<>>

FoundEquivalent ==
  /\ phase = "walk" /\ Exhausted /\ divergent = NoPair
  /\ phase' = "done" /\ equivalent' = TRUE
  /\ UNCHANGED <<question, root, parent, worklist, divergent, at, witness>>

FoundDivergent ==
  /\ phase = "walk" /\ divergent # NoPair
  /\ phase' = "trace" /\ at' = divergent
  /\ UNCHANGED <<question, root, parent, worklist, divergent, witness, equivalent>>

\* One step of the reconstruction, which ends at a pair without predecessor.
\* bdd_satone picks some letter of the block.
Reconstruct ==
  /\ phase = "trace"
  /\ \E l \in parent[at].letters : witness' = <<l>> \o witness
  /\ at' = parent[at].pred
  /\ phase' = IF at' = NoPair THEN "done" ELSE "trace"
  /\ UNCHANGED <<question, root, parent, worklist, divergent, equivalent>>

Next == Expand \/ FoundEquivalent \/ FoundDivergent \/ Reconstruct

Spec == Init /\ [][Next]_vars

\* The call runs on one thread until it returns.
FairSpec == Spec /\ WF_vars(Next)

-----------------------------------------------------------------------------
Pairs == (tau.states \cup {SinkDst}) \X DOMAIN psi.delta

\* tau's run on a word, straight from its delta and lambda, and psi's.
Produces(w) ==
  LET run[k \in 0 .. Len(w)] ==
        IF k = 0 THEN {tau.init}
        ELSE {tau.edges[q][First(Matching(tau, q, w[k]))].dst :
                q \in {s \in run[k - 1] : w[k] \in tau.emits[s] /\ Matching(tau, s, w[k]) # {}}}
  IN  run[Len(w)] # {}
Satisfies(w) ==
  LET run[k \in 0 .. Len(w)] == IF k = 0 THEN psi.init ELSE psi.delta[run[k - 1]][w[k]]
  IN  run[Len(w)] \in psi.final

\* The pairs that some word, empty or not, leads to from S.
ReachableFrom(S) ==
  LET next(T) == T \cup {PairNext(x, l) : x \in T, l \in Letter}
      reach[k \in 0 .. Cardinality(Pairs)] == IF k = 0 THEN S ELSE next(reach[k - 1])
  IN  reach[Cardinality(Pairs)]

AfterALetter == {PairNext(Initial, l) : l \in Letter}

\* The verdict decides every non-empty word, those that only differ by leading
\* back to the initial pair included.
VerdictComplete ==
  phase = "done" => (equivalent <=> \A x \in ReachableFrom(AfterALetter) : (x[1] # SinkDst) = (x[2] \in psi.final))

\* The counterexample is a non-empty word that one side has and the other has not,
\* and no shorter one tells the two apart.
WitnessShortest ==
  phase = "done" /\ ~equivalent =>
    /\ witness # <<>> /\ Produces(witness) # Satisfies(witness)
    /\ \A w \in UNION {[1 .. k -> Letter] : k \in 1 .. (Len(witness) - 1)} : Produces(w) = Satisfies(w)

\* The walk and the reconstruction end, also when the witness leads through the
\* initial pair.
Answers == <>(phase = "done")
===============================================================================
