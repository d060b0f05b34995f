------------------------------- MODULE Interning -------------------------------
(***************************************************************************)
(* The tables that number states on discovery (state_index, subset_index),  *)
(* and the order in which one step discovers several.                       *)
(***************************************************************************)
EXTENDS Integers, Sequences, FiniteSets, Functions

\* The orders in which one step may discover the members of S: the order of the
\* BDD variables, or of the numbers of states, decides; the models do not.
Orders(S) == {ns \in [1 .. Cardinality(S) -> S] : IsInjective(ns)}

\* Give the keys of ns, in that order, the next free indices.  (A name with an
\* underscore is a faulty variant of the definition that follows it: a mutant of
\* PROJECT.json puts its body in place of the definition's.)
Intern_SkipsOne(index, ns) ==
  [key \in DOMAIN index \cup Range(ns) |->
     IF key \in DOMAIN index THEN index[key]
     ELSE Cardinality(DOMAIN index) + (CHOOSE n \in DOMAIN ns : ns[n] = key)]
Intern(index, ns) ==
  [key \in DOMAIN index \cup Range(ns) |->
     IF key \in DOMAIN index THEN index[key]
     ELSE Cardinality(DOMAIN index) + (CHOOSE n \in DOMAIN ns : ns[n] = key) - 1]
===============================================================================
