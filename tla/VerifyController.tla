---------------------------- MODULE VerifyController ----------------------------
(***************************************************************************)
(* verify_controller: does every trace that agrees with the knowledge and    *)
(* with the controller T_C satisfy the goal?  The product with T_C is built  *)
(* letter by letter (build_product), bucketed by the environment's choice,   *)
(* and the states from which the environment can avoid acceptance for ever   *)
(* are a greatest fixpoint, computed by shrinking.  A rejected controller    *)
(* comes with a witness play.                                              *)
(***************************************************************************)
EXTENDS ExplicitProduct, Functions

VARIABLES
  problem,   \* the arguments, T_C appended to the taus
  phase,     \* "idle", "build", "shrink", "extract", "done", "threw"
  graph,     \* build_product's map: state -> its edges <<letter, state>>
  worklist,
  info,      \* StateInfo: state -> [acc, deadEnd, edges by i]
  bad,
  ok,        \* the verdict, meaningful from "extract" or "done" on
  cur,       \* extract_witness: the current state,
  path,      \* the letters so far, each with the state it leads to,
  cycleAt    \* and the length of the prefix when a state repeats (else 0)

vars == <<problem, phase, graph, worklist, info, bad, ok, cur, path, cycleAt>>
analysis == <<info, bad, ok>>
witness == <<cur, path, cycleAt>>

-----------------------------------------------------------------------------
NoEdge == <<>>

Edges(p, s) == {<<l, Successor(p, s, l)>> : l \in Agreeing(p, s.taus)}

\* One letter per choice of the environment: the first that agrees.
Bucket(es, i) ==
  LET here == {e \in es : e[1].i = i}
  IN  IF here = {} THEN NoEdge ELSE CHOOSE e \in here : TRUE

StateInfo(s, es) ==
  [acc |-> Accepting(s.goal), deadEnd |-> \E i \in IFree : Bucket(es, i) = NoEdge,
   edges |-> [i \in IFree |-> Bucket(es, i)]]

Start == InitialState(problem)

\* Some choice of the environment leads from s into Y.
IntoSome(inf, s, Y) == \E i \in IFree : inf[s].edges[i] # NoEdge /\ inf[s].edges[i][2] \in Y

\* The operator whose greatest fixpoint is Bad, on a candidate Y of rejecting states.
Shrunk_KeepsDeadEndsOnly(inf, Y) == {s \in Y : inf[s].deadEnd}
Shrunk(inf, Y) == {s \in Y : inf[s].deadEnd \/ IntoSome(inf, s, Y)}

Stable(inf, Y) == Shrunk(inf, Y) = Y

\* The first candidate.
Rejecting(inf) == {s \in DOMAIN inf : ~inf[s].acc}

\* The virtual start: acceptance of the initial state itself is irrelevant.
Correct(inf, Y) == ~inf[Start].deadEnd /\ ~IntoSome(inf, Start, Y)

-----------------------------------------------------------------------------
Init ==
  /\ problem = "none" /\ phase = "idle"
  /\ graph = <<>> /\ worklist = <<>>
  /\ info = <<>> /\ bad = {} /\ ok = FALSE
  /\ cur = "none" /\ path = <<>> /\ cycleAt = 0

\* verify_controller is called with a problem and a controller.
Call(p, tc) ==
  /\ phase = "idle"
  /\ problem' = [p EXCEPT !.taus = Append(@, tc)]
  /\ phase' = "build"
  /\ graph' = [s \in {InitialState(problem')} |-> {}]
  /\ worklist' = <<InitialState(problem')>>
  /\ cur' = InitialState(problem')
  /\ UNCHANGED <<analysis, path, cycleAt>>

Throw ==
  /\ phase = "build" /\ worklist # <<>>
  /\ \E l \in Letter : ThrowsOn(problem, Head(worklist), l)
  /\ phase' = "threw"
  /\ UNCHANGED <<problem, graph, worklist, analysis, witness>>

\* The worklist is a queue; the letters' order decides the order of new states,
\* which nothing below depends on.
Explore ==
  /\ phase = "build" /\ worklist # <<>>
  /\ ~\E l \in Letter : ThrowsOn(problem, Head(worklist), l)
  /\ LET s   == Head(worklist)
         es  == Edges(problem, s)
         new == {e[2] : e \in es} \ DOMAIN graph
     IN  /\ graph' = [r \in DOMAIN graph \cup new |-> IF r = s THEN es ELSE IF r \in new THEN {} ELSE graph[r]]
         /\ worklist' = Tail(worklist) \o CHOOSE ns \in [1 .. Cardinality(new) -> new] : IsInjective(ns)
  /\ UNCHANGED <<problem, phase, analysis, witness>>

BuildInfo ==
  /\ phase = "build" /\ worklist = <<>>
  /\ phase' = "shrink"
  /\ info' = [s \in DOMAIN graph |-> StateInfo(s, graph[s])]
  /\ bad' = Rejecting(info')
  /\ UNCHANGED <<problem, graph, worklist, ok, witness>>

Shrink ==
  /\ phase = "shrink" /\ ~Stable(info, bad)
  /\ bad' = Shrunk(info, bad)
  /\ UNCHANGED <<problem, phase, graph, worklist, info, ok, witness>>

Decide ==
  /\ phase = "shrink" /\ Stable(info, bad)
  /\ ok' = Correct(info, bad)
  /\ phase' = IF ok' THEN "done" ELSE "extract"
  /\ UNCHANGED <<problem, graph, worklist, info, bad, witness>>

\* extract_witness: stop in a dead end, ...
WitnessDeadEnd ==
  /\ phase = "extract" /\ info[cur].deadEnd
  /\ phase' = "done"
  /\ UNCHANGED <<problem, graph, worklist, analysis, witness>>

\* ... or follow a choice of the environment that stays bad (the code takes the
\* least one, the model any), until a state repeats.
FirstSeen(s) == {n \in DOMAIN path : path[n][2] = s}
Follow ==
  /\ phase = "extract" /\ ~info[cur].deadEnd
  /\ \E i \in IFree :
       /\ info[cur].edges[i] # NoEdge /\ info[cur].edges[i][2] \in bad
       /\ LET e == info[cur].edges[i]
          IN  /\ path' = Append(path, e)
              /\ IF FirstSeen(e[2]) # {}
                 THEN /\ cycleAt' = First(FirstSeen(e[2]))
                      /\ phase' = "done" /\ UNCHANGED cur
                 ELSE cur' = e[2] /\ UNCHANGED <<phase, cycleAt>>
  /\ UNCHANGED <<problem, graph, worklist, analysis>>

Next ==
  \/ Throw \/ Explore \/ BuildInfo
  \/ Shrink \/ Decide
  \/ WitnessDeadEnd \/ Follow

-----------------------------------------------------------------------------

\* A play that refutes a controller: agreeing letters from the start through
\* rejecting states only, that end where the environment has a choice nobody answers
\* or close a cycle.
WitnessRefutes ==
  LET state(n) == IF n = 0 THEN Start ELSE path[n][2]
  IN  /\ \A n \in DOMAIN path :
           /\ path[n][1] \in Agreeing(problem, state(n - 1).taus)
           /\ path[n][2] = Successor(problem, state(n - 1), path[n][1])
           /\ ~Accepting(path[n][2].goal)
      /\ IF cycleAt = 0
         THEN \E i \in IFree : \A l \in Agreeing(problem, state(Len(path)).taus) : l.i # i
         ELSE cycleAt < Len(path) /\ state(cycleAt) = state(Len(path))

\* The verdict is right: T_C is accepted exactly when, with its answers added to
\* the knowledge, the system is forced to win; no answer may be missing, no play
\* may avoid acceptance for ever, and stopping before the first letter is no win.
\* A rejection comes with a play that refutes T_C.
VerdictCorrect ==
  /\ phase = "done" /\ ok => SystemWins(problem)
  /\ phase = "extract" /\ path = <<>> => ~SystemWins(problem)
  /\ phase = "done" /\ ~ok => WitnessRefutes
===============================================================================
