--------------------------- MODULE SynthesisContract ---------------------------
(***************************************************************************)
(* What every method promises of Method::synthesize: one answer, and a      *)
(* controller exactly when the system wins the reference game.  A call may   *)
(* also refuse its input: more than MaxTaus transducers, or a transducer     *)
(* whose delta is non-deterministic.                                        *)
(***************************************************************************)
EXTENDS SynthesisProblem

CONSTANT MaxTaus

VARIABLES problem,  \* the arguments of the call
          result    \* "none" until the call returns or throws

Answers(p) ==
  {IF SystemWins(p) THEN "controller" ELSE "unrealizable"}
    \cup (IF Len(p.taus) > MaxTaus THEN {"invalid_argument"} ELSE {})
    \cup (IF \E t \in DOMAIN p.taus : \E s \in p.taus[t].states : Overlap(p.taus[t], s)
            THEN {"runtime_error"} ELSE {})

Init == WellFormed(problem) /\ result = "none"

Answer ==
  /\ result = "none" /\ result' # "none"
  /\ result' \in Answers(problem)
  /\ UNCHANGED problem

Spec == Init /\ [][Answer]_<<problem, result>>
===============================================================================
