----------------------------- MODULE MCNfaMethods -----------------------------
(***************************************************************************)
(* Goals for TLC over two or three of the propositions i, k and o, which hold *)
(* of the letters with i1, k1 and o1.  Those whose NFA has at most three      *)
(* states are solved with the knowledge of SampleProblems; the others cover   *)
(* the operators, nested and mixed, and what the front end refuses.          *)
(***************************************************************************)
EXTENDS SampleProblems, NfaMethods

\* (TLC evaluates a definition once, but what a configuration substitutes for a
\* constant at every use: hence Regions and Cases beside MCRegion and MCProblems.)
MCNames == <<"_ekpos0", "i", "k", "o">>
Regions == [name \in Range(MCNames) |-> IF name = "o" THEN O(o1) ELSE IF name = "k" THEN K(k1) ELSE I(i1)]
MCRegion == Regions

pi == Ap("i")
po == Ap("o")
pk == Ap("k")
No(x) == Op("Not", <<x>>)

Propositional == {Op("Equiv", <<pi, po>>), Op("Xor", <<pk, po>>)}
Simple ==
  {Op("tt", <<>>), Op("ff", <<>>)} \cup Propositional
    \cup {Op(op, <<x>>) : op \in {"F", "G"}, x \in Propositional}
    \cup {Op(op, <<pi, po>>) : op \in {"U", "R", "W", "M"}}
    \cup {Op("X", <<No(po)>>), Op("F", <<Op("G", <<po>>)>>), Op("G", <<Op("F", <<Op("Equiv", <<pk, po>>)>>)>>)}

Nested ==
  {Op("strong_X", <<pi>>), Op("U", <<Op("X", <<pi>>), po>>),
   Op("G", <<Op("Implies", <<pi, Op("strong_X", <<po>>)>>)>>), Op("G", <<Op("Implies", <<pi, Op("F", <<po>>)>>)>>),
   Op("R", <<Op("X", <<po>>), pi>>), Op("W", <<po, Op("X", <<pi>>)>>), Op("M", <<Op("F", <<pi>>), po>>),
   Op("Or", <<Op("X", <<pi>>), Op("Xor", <<pi, po>>)>>), Op("Equiv", <<Op("strong_X", <<No(pi)>>), po>>),
   Op("F", <<Op("And", <<pi, Op("strong_X", <<No(pi)>>)>>)>>)}

Refused == {Op("Star", <<pi>>), Op("G", <<Op("Or", <<po, Ap("_ekpos0")>>)>>)}

MCGoals == Simple \cup Nested \cup Refused

\* The proper subformulas of the goals.
Parts ==
  {pi, po, pk, No(pi), No(po), Ap("_ekpos0"), Op("X", <<pi>>), Op("X", <<po>>),
   Op("strong_X", <<po>>), Op("strong_X", <<No(pi)>>), Op("F", <<pi>>), Op("F", <<po>>), Op("G", <<po>>),
   Op("F", <<Op("Equiv", <<pk, po>>)>>), Op("Xor", <<pi, po>>), Op("Equiv", <<pk, po>>), Op("Or", <<po, Ap("_ekpos0")>>),
   Op("Implies", <<pi, Op("strong_X", <<po>>)>>), Op("Implies", <<pi, Op("F", <<po>>)>>),
   Op("And", <<pi, Op("strong_X", <<No(pi)>>)>>)}

RECURSIVE Height(_)
Height(x) == IF x.args = <<>> THEN 0 ELSE 1 + CHOOSE d \in 0 .. 9 : (\A y \in Range(x.args) : Height(y) <= d) /\ \E y \in Range(x.args) : Height(y) = d

AllNodes == MCGoals \cup Parts
Heights == [x \in AllNodes |-> Height(x)]
MCFormulas == AllNodes
MCDepth == Heights

\* MONA's minimal automata.  Words of the length RepLength at most reach all the states,
\* and of two states one of the words of length TestLength at most accepts from one only.
\* (Fields and bound names, which TLC evaluates once, where LET would have it decide a
\* word anew for each use.)
RepLength == 3
TestLength == 1
StateNames == <<"s1", "s2", "s3", "s4", "s5", "s6", "s7", "s8">>

Futures(x, u) == {y \in WordsOver(x.vals, TestLength) : u \o y \in x.words}
State(x, F) == StateNames[CHOOSE m \in DOMAIN x.futures : x.futures[m] = F]
Word(x, F) == CHOOSE u \in WordsOver(x.vals, RepLength - 1) : Futures(x, u) = F

Minimal(x) ==
  [init |-> State(x, Futures(x, <<>>)),
   accepting |-> {State(x, F) : F \in {G \in Range(x.futures) : <<>> \in G}},
   states |-> {State(x, F) : F \in Range(x.futures)},
   moves |-> {[src |-> State(x, F), reads |-> v, dst |-> State(x, Futures(x, Append(Word(x, F), v)))] :
                F \in Range(x.futures), v \in x.vals}]

Built ==
  LET blank     == {[goal |-> y, vals |-> SUBSET Support(y), words |-> {}, futures |-> <<>>] : y \in {z \in MCGoals : Encodable(z)}}
      languages == {[x EXCEPT !.words = {u : u \in {w \in WordsOver(x.vals, RepLength + TestLength) : Encoded(x.goal, w)}}] : x \in blank}
      residuals == {[x EXCEPT !.futures = SetToSeq({Futures(x, u) : u \in WordsOver(x.vals, RepLength)})] : x \in languages}
  IN  {[goal |-> x.goal, m |-> Minimal(x)] : x \in residuals}
Automata == CHOOSE fn \in {[y \in {x.goal : x \in B} |-> (CHOOSE x \in B : x.goal = y).m] : B \in {Built}} : TRUE
MCAutomaton == Automata

SampleNfas == GoalNfas(Built)

NfaProblems(knowledge) ==
  LET solved == {x \in SampleNfas : Cardinality(DOMAIN x.nfa) <= MaxNfa}
  IN  {NfaProblem(x.goal, x.nfa, FreshInit, taus) : x \in solved, taus \in knowledge}

Cases == NfaProblems(Knowledge \cup {<<MaskedOverlap, Mirror>>, <<>>})
MCProblems == Cases
===============================================================================
