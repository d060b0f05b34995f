------------------------------- MODULE TwaGraph -------------------------------
(***************************************************************************)
(* Explicit automata as Spot keeps them: a function from states to sets of   *)
(* edges [dst, guard, mark].                                                *)
(***************************************************************************)

\* An automaton is read as Spot reads it: acceptance is a mark on the edges, so
\* a state without edges would read as rejecting.
StateIsAccepting(es) == \E e \in es : e.mark

\* ensure_acceptance_readable: an edgeless accepting state gets a self-loop on
\* bddfalse that carries its mark.
Readable_NotEnsured(s, acc, es) == es
Readable(s, acc, es) ==
  IF es = {} /\ acc THEN {[dst |-> s, guard |-> {}, mark |-> TRUE]} ELSE es
===============================================================================
