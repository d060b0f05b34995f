------------------------------- MODULE Method1 -------------------------------
(***************************************************************************)
(* The two forms of Method 1 on one problem, NfaProduct and MtnfaProduct: the *)
(* runs share nothing but their arguments.                                  *)
(***************************************************************************)
EXTENDS NfaProduct

VARIABLES mPhase, subsetIndex, pending, rows, mResult

mVars == <<mPhase, subsetIndex, pending, rows, mResult>>

Mtnfa == INSTANCE MtnfaProduct WITH phase <- mPhase, result <- mResult

FormsInit == Init /\ Mtnfa!Init

StepNfa == Next /\ UNCHANGED mVars
StepMtnfa == Mtnfa!Next /\ UNCHANGED vars

FormsSpec == FormsInit /\ [][StepNfa \/ StepMtnfa]_<<vars, mVars>>

-----------------------------------------------------------------------------
\* "Reachability pruning, Method 1's entire selling point": the fused product has
\* exactly the positions of the reference game that words of agreeing letters lead
\* to; walking the unmasked rows would keep the language and lose this.
KeysAreReachable == Mtnfa!KeysAreReachable

\* The fused construction answers as the contract says, so it agrees with the
\* explicit one wherever neither throws.
MtnfaImplementsContract == Mtnfa!ImplementsContract
===============================================================================
