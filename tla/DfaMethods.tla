------------------------------ MODULE DfaMethods ------------------------------
(***************************************************************************)
(* One case of a sweep under the two methods that start from the goal's        *)
(* deterministic automaton: DfaProduct, then MtdfaProduct on the same problem. *)
(* The runs share nothing but their arguments, so one order stands for both.  *)
(***************************************************************************)
EXTENDS DfaProduct

CONSTANT MaxWord  \* the longest word the properties look at

ASSUME MaxWordIsNatural == MaxWord \in Nat

VARIABLES mPhase, graph, mWorklist, agreements, rows, mResult

mVars == <<mPhase, graph, mWorklist, agreements, rows, mResult>>

Mtdfa == INSTANCE MtdfaProduct WITH phase <- mPhase, worklist <- mWorklist, result <- mResult

\* T_in and T_out are always there, an LTLf goal has finitely many residuals, and the name
\* of the goal that no letter can spoil is none of theirs.
ASSUME MtdfaProblems ==
  \A p \in Problems : p.taus # <<>> /\ IsFiniteSet(p.formulas) /\ Mtdfa!Fulfilled \notin p.formulas

CaseInit == Init /\ Mtdfa!Init

RunDfa == Next /\ UNCHANGED mVars
RunMtdfa == phase = "done" /\ Mtdfa!Next /\ UNCHANGED vars

CaseSpec == CaseInit /\ [][RunDfa \/ RunMtdfa]_<<vars, mVars>>

-----------------------------------------------------------------------------
\* The cons filter is not built anywhere: it emerges from intersecting the two
\* agreement automata.
ConsEmerges == Mtdfa!ConsEmerges

\* The intersection with the agreement automata answers as the contract says, so
\* it agrees with the explicit product wherever neither throws.
MtdfaImplementsContract == Mtdfa!ImplementsContract
===============================================================================
