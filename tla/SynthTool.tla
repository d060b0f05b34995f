------------------------------ MODULE SynthTool ------------------------------
(***************************************************************************)
(* ltlf-ek-synth on one problem: --dfa-product or --mtdfa-product, alone, with *)
(* --model-check (the self-check of the controller the method synthesizes), or  *)
(* --model-check with a --controller file, which runs no method at all.  The   *)
(* methods follow one another; a model check ends the case.                  *)
(***************************************************************************)
EXTENDS DfaMethods, Strategies

CONSTANTS ModelChecked,  \* the problems that are also invoked with --model-check
          Controllers    \* the transducers in --controller files

ASSUME ControllersAreTransducers == \A tc \in Controllers : IsTransducer(tc)

WithTau(p, tc) == [p EXCEPT !.taus = Append(@, tc)]

\* The lambdas are functional: whatever the environment chooses, at most one letter
\* agrees with the knowledge and the controller.
AnswersOnce(p) == \A q \in Vectors(p) : \A l, m \in Agreeing(p, q) : l.i = m.i => l = m

ASSUME ControllersAnswerOnce == \A p \in ModelChecked : \A tc \in Controllers : AnswersOnce(WithTau(p, tc))

\* So are those of the knowledge: what both players choose leaves one valuation of the
\* known variables at most (parse_transducer refuses any other lambda).
AnswersEachChoice(p) ==
  \A q \in Vectors(p) : \A l, m \in Agreeing(p, q) : l.i = m.i /\ l.o = m.o => l = m

ASSUME KnowledgeAnswersEachChoice == \A p \in ModelChecked : AnswersEachChoice(p)

VARIABLES
  checked,  \* whose controller is checked: "none", a method's name or "given"
  vProblem, vPhase, vGraph, vWorklist, info, bad, ok, cur, path, cycleAt

vVars == <<checked, vProblem, vPhase, vGraph, vWorklist, info, bad, ok, cur, path, cycleAt>>
methodVars == <<vars, mVars>>

Verifier == INSTANCE VerifyController
  WITH problem <- vProblem, phase <- vPhase, graph <- vGraph, worklist <- vWorklist

-----------------------------------------------------------------------------
ToolInit == CaseInit /\ checked = "none" /\ Verifier!Init

Synthesize == checked = "none" /\ (RunDfa \/ RunMtdfa) /\ UNCHANGED vVars

\* The transducer that the self-check makes of the synthesized controller.
DfaController == ControllerAsTransducer(DfaMealy(product), InitialState(problem))
MtdfaController == ControllerAsTransducer(MtdfaMealy(rows), Mtdfa!Start(problem))

Check(who, tc) ==
  /\ checked = "none" /\ problem \in ModelChecked
  /\ checked' = who
  /\ Verifier!Call(problem, tc)
  /\ UNCHANGED methodVars

SelfCheckDfa ==
  /\ phase = "done" /\ result = "controller" /\ mResult = "none"
  /\ Check("dfa-product", DfaController)

SelfCheckMtdfa == mResult = "controller" /\ Check("mtdfa-product", MtdfaController)

\* --controller short-circuits before the method is even constructed.
CheckGiven ==
  /\ nodes = [s \in {InitialState(problem)} |-> Fresh(s)] /\ phase = "build"
  /\ \E tc \in Controllers : Check("given", tc)

Verify == checked # "none" /\ Verifier!Next /\ UNCHANGED <<checked, methodVars>>

ToolNext == Synthesize \/ SelfCheckDfa \/ SelfCheckMtdfa \/ CheckGiven \/ Verify

ToolSpec == ToolInit /\ [][ToolNext]_<<methodVars, vVars>>

-----------------------------------------------------------------------------
\* What a method synthesizes passes the verifier, which shares no code with the
\* games: a self-check never prints UNSAFE, and never meets a transducer that the
\* method should have refused.
SelfCheckIsSafe ==
  checked \in {"dfa-product", "mtdfa-product"} => vPhase # "threw" /\ (vPhase = "done" => ok)

\* A given controller is accepted exactly when, with its answers added to the
\* knowledge, the system is forced to win; no answer may be missing, no play may
\* avoid acceptance for ever, and stopping before the first letter is no win.  A
\* rejected one comes with a play that refutes it.
VerdictCorrect == checked = "given" => Verifier!VerdictCorrect
===============================================================================
