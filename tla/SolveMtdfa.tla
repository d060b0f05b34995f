------------------------------ MODULE SolveMtdfa ------------------------------
(***************************************************************************)
(* solve_mtdfa: the game on a product given by its rows.  The turn order     *)
(* puts every environment variable above the controllable ones, so in a row  *)
(* the environment fixes i before the system fixes the rest.                 *)
(***************************************************************************)
EXTENDS SynthesisProblem

\* A leaf of a product row: a constant, or a root with its may-stop bit.
StateCell(j, b) == [kind |-> "state", to |-> j, acc |-> b]
OutCells == {FalseCell, TrueCell} \cup [kind : {"state"}, to : Nat, acc : BOOLEAN]
FalseRow == [l \in Letter |-> FalseCell]

CellWon(c, W) == c.kind = "true" \/ (c.kind = "state" /\ (c.acc \/ c.to \in W))

RowWon_SystemFirst(row, W) ==
  \E o \in OFree, k \in Known : \A i \in IFree : CellWon(row[[i |-> i, o |-> o, k |-> k]], W)
RowWon(row, W) == \A i \in IFree : \E l \in Letter : l.i = i /\ CellWon(row[l], W)

\* The roots from which the system wins in at most n rounds; with as many rounds as
\* there are roots, from which it wins.
WonWithin(rows, n) ==
  LET won[m \in 0 .. n] ==
        IF m = 0 THEN {}
        ELSE LET W == won[m - 1] IN {r \in DOMAIN rows : RowWon(rows[r], W)}
  IN  won[n]
Winning(rows) == WonWithin(rows, Cardinality(DOMAIN rows))
===============================================================================
