------------------------------ MODULE NfaMethods ------------------------------
(***************************************************************************)
(* One run of a form of Method 1: the front end builds the goal's NFA, then  *)
(* NfaProduct or MtnfaProduct uses it with the knowledge.                    *)
(***************************************************************************)
EXTENDS Method1, MonaDfa

CONSTANTS MonaAutomaton,  \* what MONA builds for each goal that is encoded: an automaton
          MaxWord,        \* the longest word the properties look at
          MaxNfa          \* goals with larger automata only pass the front end

\* The declared variables are a goal's propositions, which are independent: every
\* valuation of them is some letter's.
ASSUME GoalsAreNamed ==
  \A f \in Goals :
    /\ f \in Formulas
    /\ VarOrder(f) \in Seq(Support(f)) /\ Range(VarOrder(f)) = Support(f)
    /\ \A v \in SUBSET Support(f) :
         \E l \in Letter : \A name \in Support(f) : l \in Region[name] <=> name \in v

\* MONA answers the question it is asked.
ASSUME MonaCompiles ==
  \A f \in {x \in Goals : Encodable(x)} :
    LET m == MonaAutomaton[f]
    IN  /\ IsAutomaton(m, SUBSET Support(f)) /\ FreshInit \notin m.states
        /\ \A w \in WordsOver(SUBSET Support(f), MaxWord) : Recognizes(m, w) <=> Encoded(f, w)

VARIABLES
  arg, mona, fPhase, files, printed, past, built  \* the front end

fVars == <<arg, mona, fPhase, files, printed, past, built>>

FrontEnd == INSTANCE GoalFrontEnd WITH phase <- fPhase

\* A case asks for one goal; one that the front end refuses, or with a
\* larger automaton, is in no problem.
Of(f) == {p \in Problems : p.goal = f}

CaseInit ==
  /\ FrontEnd!Init
  /\ problem \in Of(arg) \/ (Of(arg) = {} /\ problem = CHOOSE p \in Problems : TRUE)
  /\ FormsInit

RunFront == FrontEnd!Next /\ UNCHANGED <<vars, mVars>>

\* The front end returns to the method that called it.
Return ==
  /\ fPhase = "done" /\ Cardinality(built.states) <= MaxNfa
  /\ AsTwa(built) = problem.nfa
  /\ fPhase' \in {"nfa-product", "mtnfa-product"}
  /\ mona' = FrontEnd!NoAutomaton /\ printed' = FrontEnd!NoTable /\ past' = <<>> /\ built' = <<>>
  /\ UNCHANGED <<arg, files, vars, mVars>>

RunNfa == fPhase = "nfa-product" /\ StepNfa /\ UNCHANGED fVars
RunMtnfa == fPhase = "mtnfa-product" /\ StepMtnfa /\ UNCHANGED fVars

CaseSpec == CaseInit /\ [][RunFront \/ Return \/ RunNfa \/ RunMtnfa]_<<fVars, vars, mVars>>

-----------------------------------------------------------------------------
\* The front end's NFA accepts exactly the words that satisfy the goal.
GoalLanguage == FrontEnd!GoalLanguage

\* No temporary file of the front end outlives it, unless the process is killed.
OnlyKillsLeaveFiles == FrontEnd!OnlyKillsLeaveFiles
===============================================================================
