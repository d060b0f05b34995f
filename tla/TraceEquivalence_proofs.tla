------------------------ MODULE TraceEquivalence_proofs ------------------------
(***************************************************************************)
(* For every transducer and every complete DFA: the walk decides whether they  *)
(* have the same non-empty words, and the witness it reconstructs tells them   *)
(* apart and is as short as any word that does.                              *)
(***************************************************************************)
EXTENDS TraceEquivalence, SynthesisProblem_proofs

-----------------------------------------------------------------------------
(* A graph of pairs, in which every letter leads on, and the walk through it.  *)

IsGraph(g) ==
  /\ g.init \in g.pairs /\ NoPair \notin g.pairs
  /\ g.next \in [g.pairs -> [Letter -> g.pairs]]

\* The pairs that the prefixes of w lead to from a.
Run(g, a, n, w, r) ==
  /\ r \in [0 .. n -> g.pairs] /\ r[0] = a
  /\ \A k \in 1 .. n : r[k] = g.next[r[k - 1]][w[k]]

Leads(g, a, w, b) == w \in Seq(Letter) /\ \E r : Run(g, a, Len(w), w, r) /\ r[Len(w)] = b

\* d is the depth of a visited pair: the length of the word its pointers spell.
Pointers(g, par, d) ==
  /\ DOMAIN par \subseteq g.pairs /\ d \in [DOMAIN par -> Nat]
  /\ \A y \in DOMAIN par :
       \/ /\ par[y].pred = NoPair /\ d[y] = 1
          /\ \A l \in par[y].letters : l \in Letter /\ g.next[g.init][l] = y
       \/ /\ par[y].pred \in DOMAIN par /\ d[y] = d[par[y].pred] + 1
          /\ \A l \in par[y].letters : l \in Letter /\ g.next[par[y].pred][l] = y

\* Where y leads has been visited, at most one letter deeper.
LeadsOn(g, par, d, y) == \A l \in Letter : g.next[y][l] \in DOMAIN par /\ d[g.next[y][l]] <= d[y] + 1

\* The worklist holds the pairs not yet expanded, in the order of their depths, of which
\* there are two at most; nothing deeper has been expanded, and nothing bad been met.
Walked(g, par, wl, d) ==
  /\ wl \in Seq(DOMAIN par)
  /\ \A i, j \in DOMAIN wl : i < j => d[wl[i]] <= d[wl[j]] /\ d[wl[j]] <= d[wl[i]] + 1
  /\ \A y \in DOMAIN par : Waits(wl, y) \/ (LeadsOn(g, par, d, y) /\ \A i \in DOMAIN wl : d[y] <= d[wl[i]])
  /\ \A l \in Letter : g.next[g.init][l] \in DOMAIN par /\ d[g.next[g.init][l]] <= 1
  /\ \A y \in DOMAIN par : y \notin g.bad

\* No word shorter than n leads to a bad pair.
NoneShorter(g, n) ==
  \A m \in Nat : m # 0 /\ m < n =>
    \A w \in [1 .. m -> Letter] : \A r : Run(g, g.init, m, w, r) => r[m] \notin g.bad

\* What a word leads to has been visited unless something shallower still waits.
LEMMA PrefixVisited ==
  ASSUME NEW g, IsGraph(g), NEW par, NEW wl, NEW d, Pointers(g, par, d), Walked(g, par, wl, d),
         NEW n \in Nat, n # 0, NEW w \in [1 .. n -> Letter], NEW r, Run(g, g.init, n, w, r),
         \A i \in DOMAIN wl : n <= d[wl[i]]
  PROVE  r[n] \in DOMAIN par /\ d[r[n]] <= n
<1> DEFINE S == {k \in Nat : k + 1 <= n => r[k + 1] \in DOMAIN par /\ d[r[k + 1]] <= k + 1}
<1>1. 0 \in S
  <2>1. 1 \in 1 .. n /\ r[1] = g.next[r[1 - 1]][w[1]] /\ 1 - 1 = 0
    BY DEF Run
  <2>2. r[1] = g.next[g.init][w[1]] /\ w[1] \in Letter
    BY <2>1 DEF Run
  <2> QED
    BY <2>2 DEF Walked
<1>2. ASSUME NEW k \in Nat, k \in S PROVE k + 1 \in S
  <2> SUFFICES ASSUME (k + 1) + 1 <= n
               PROVE  r[(k + 1) + 1] \in DOMAIN par /\ d[r[(k + 1) + 1]] <= (k + 1) + 1
    OBVIOUS
  <2> DEFINE y == r[k + 1]
             l == w[(k + 1) + 1]
  <2>1. y \in DOMAIN par /\ d[y] <= k + 1
    BY <1>2
  <2>2. l \in Letter /\ r[(k + 1) + 1] = g.next[y][l]
    <3>1. (k + 1) + 1 \in 1 .. n /\ ((k + 1) + 1) - 1 = k + 1
      OBVIOUS
    <3> QED
      BY <3>1 DEF Run
  <2>3. ~Waits(wl, y)
    <3>1. \A i \in DOMAIN wl : n <= d[wl[i]]
      OBVIOUS
    <3>2. d[y] \in Nat
      BY <2>1 DEF Pointers
    <3> HIDE DEF y
    <3> QED
      BY <2>1, <3>1, <3>2 DEF Waits
  <2>4. LeadsOn(g, par, d, y)
    BY <2>1, <2>3 DEF Walked
  <2>5. g.next[y][l] \in DOMAIN par /\ d[g.next[y][l]] <= d[y] + 1
    BY <2>2, <2>4 DEF LeadsOn
  <2>6. d[y] \in Nat /\ d[g.next[y][l]] \in Nat
    BY <2>1, <2>5 DEF Pointers
  <2> HIDE DEF y, l
  <2> QED
    BY <2>1, <2>2, <2>5, <2>6
<1>3. Nat \subseteq S
  <2> HIDE DEF S
  <2> QED
    BY <1>1, <1>2, SetInduction
<1>4. n - 1 \in Nat /\ (n - 1) + 1 = n
  OBVIOUS
<1>5. n - 1 \in S
  BY <1>3, <1>4
<1> QED
  BY <1>4, <1>5

\* Where a pair leads.
Successors(g, y) == {g.next[y][l] : l \in Letter}

\* The pairs of S join those of par, as the successors of a pair whose name is p.
Joined(g, par, more, S, p, from) ==
  /\ DOMAIN more = DOMAIN par \cup S /\ S \cap DOMAIN par = {}
  /\ \A y \in DOMAIN par : more[y] = par[y]
  /\ \A y \in S : more[y].pred = p /\ \A l \in more[y].letters : l \in Letter /\ g.next[from][l] = y

\* The expansion of the root.
LEMMA RootExpanded ==
  ASSUME NEW g, IsGraph(g), NEW par, DOMAIN par = {}, NEW S, S \subseteq Successors(g, g.init),
         NEW more, Joined(g, par, more, S, NoPair, g.init), NEW d, d = [y \in S |-> 1]
  PROVE  /\ Pointers(g, more, d)
         /\ \A ns : /\ ns \in Seq(S) /\ S = Successors(g, g.init)
                    /\ \A y \in S : Waits(ns, y) /\ y \notin g.bad
                    => Walked(g, more, ns, d)
<1>1. DOMAIN more = S /\ S \subseteq g.pairs /\ \A y \in S : d[y] = 1
  BY DEF Joined, Successors, IsGraph
<1>2. Pointers(g, more, d)
  BY <1>1 DEF Pointers, Joined
<1>3. ASSUME NEW ns \in Seq(S), S = Successors(g, g.init), \A y \in S : Waits(ns, y) /\ y \notin g.bad
      PROVE  Walked(g, more, ns, d)
  <2>1. \A i \in DOMAIN ns : ns[i] \in S
    BY LenProperties, ElementOfSeq
  <2>2. \A i, j \in DOMAIN ns : d[ns[i]] = 1 /\ d[ns[j]] = 1
    BY <1>1, <2>1
  <2>3. \A l \in Letter : g.next[g.init][l] \in S
    BY <1>3 DEF Successors
  <2> QED
    BY <1>1, <1>3, <2>2, <2>3 DEF Walked
<1> QED
  BY <1>2, <1>3

\* The expansion of another pair: what it discovers is one letter deeper.
Deeper(par, S, d, cur, e) ==
  /\ e \in [DOMAIN par \cup S -> Nat]
  /\ \A y \in DOMAIN par : e[y] = d[y]
  /\ \A y \in S : e[y] = d[cur] + 1

LEMMA PairPointers ==
  ASSUME NEW g, IsGraph(g), NEW par, NEW d, Pointers(g, par, d), NEW cur \in DOMAIN par,
         NEW S, S \subseteq Successors(g, cur), NEW more, Joined(g, par, more, S, cur, cur),
         NEW e, Deeper(par, S, d, cur, e)
  PROVE  Pointers(g, more, e)
<1>1. DOMAIN more = DOMAIN par \cup S /\ DOMAIN par \subseteq g.pairs /\ S \subseteq g.pairs
  BY DEF Joined, Pointers, Successors, IsGraph
<1>2. ASSUME NEW y \in DOMAIN par
      PROVE  \/ /\ more[y].pred = NoPair /\ e[y] = 1
                /\ \A l \in more[y].letters : l \in Letter /\ g.next[g.init][l] = y
             \/ /\ more[y].pred \in DOMAIN more /\ e[y] = e[more[y].pred] + 1
                /\ \A l \in more[y].letters : l \in Letter /\ g.next[more[y].pred][l] = y
  <2>1. more[y] = par[y] /\ e[y] = d[y] /\ \A x \in DOMAIN par : e[x] = d[x] /\ x \in DOMAIN more
    BY <1>1 DEF Joined, Deeper
  <2> QED
    BY <2>1 DEF Pointers
<1>3. ASSUME NEW y \in S
      PROVE  /\ more[y].pred \in DOMAIN more /\ e[y] = e[more[y].pred] + 1
             /\ \A l \in more[y].letters : l \in Letter /\ g.next[more[y].pred][l] = y
  BY <1>1 DEF Joined, Deeper
<1>4. e \in [DOMAIN more -> Nat]
  BY <1>1 DEF Deeper
<1> QED
  BY <1>1, <1>2, <1>3, <1>4 DEF Pointers

LEMMA PairExpanded ==
  ASSUME NEW g, IsGraph(g), NEW par, NEW d, Pointers(g, par, d), NEW wl, wl # <<>>, Walked(g, par, wl, d),
         NEW cur, cur = Head(wl),
         NEW S, S = Successors(g, cur) \ DOMAIN par, \A y \in S : y \notin g.bad,
         NEW more, Joined(g, par, more, S, cur, cur),
         NEW e, Deeper(par, S, d, cur, e),
         NEW ns \in Seq(S), \A y \in S : Waits(ns, y)
  PROVE  Walked(g, more, Tail(wl) \o ns, e)
<1> DEFINE v == Tail(wl) \o ns
           c == Len(wl) - 1
           m == Len(ns)
<1>1. /\ wl \in Seq(DOMAIN par) /\ d \in [DOMAIN par -> Nat]
      /\ \A i, j \in DOMAIN wl : i < j => d[wl[i]] <= d[wl[j]] /\ d[wl[j]] <= d[wl[i]] + 1
  BY DEF Walked, Pointers
<1>2. /\ DOMAIN wl = 1 .. c + 1 /\ c \in Nat /\ cur = wl[1]
      /\ Tail(wl) \in Seq(DOMAIN par) /\ Len(Tail(wl)) = c
      /\ \A i \in 1 .. c : Tail(wl)[i] = wl[i + 1]
  <2>1. Len(wl) \in Nat /\ Len(wl) # 0 /\ DOMAIN wl = 1 .. Len(wl)
    BY <1>1, LenProperties, EmptySeq
  <2> QED
    BY <1>1, <2>1, HeadTailProperties
<1>3. ns \in Seq(S) /\ m \in Nat /\ DOMAIN ns = 1 .. m /\ \A i \in 1 .. m : ns[i] \in S
  BY LenProperties, ElementOfSeq
<1>4. DOMAIN more = DOMAIN par \cup S /\ S \cap DOMAIN par = {}
  BY DEF Joined
<1>5. Tail(wl) \in Seq(DOMAIN more) /\ ns \in Seq(DOMAIN more)
  BY <1>2, <1>3, <1>4, SeqMonotonic
<1>6. /\ v \in Seq(DOMAIN more) /\ Len(v) = c + m
      /\ \A i \in 1 .. c + m : v[i] = IF i <= c THEN Tail(wl)[i] ELSE ns[i - c]
  BY <1>2, <1>5, ConcatProperties
<1>7. DOMAIN v = 1 .. c + m
  BY <1>6, LenProperties
<1> HIDE DEF v, m
<1> HIDE DEF c
<1> DEFINE D == d[cur]
<1>8. cur \in DOMAIN par /\ D \in Nat /\ \A i \in 1 .. c + 1 : wl[i] \in DOMAIN par
  <2>1. 1 \in 1 .. c + 1
    BY <1>2
  <2>2. \A i \in 1 .. c + 1 : wl[i] \in DOMAIN par
    BY <1>1, <1>2, LenProperties, ElementOfSeq
  <2> QED
    BY <1>1, <1>2, <2>1, <2>2
\* A pair from the tail has the depth of cur or one more, a new pair one more.
<1>9. ASSUME NEW i \in 1 .. c
      PROVE  /\ v[i] = wl[i + 1] /\ i + 1 \in DOMAIN wl /\ v[i] \in DOMAIN par
             /\ e[v[i]] = d[v[i]] /\ D <= e[v[i]] /\ e[v[i]] <= D + 1 /\ e[v[i]] \in Nat
  <2>1. i \in 1 .. c + m /\ i <= c /\ i + 1 \in 1 .. c + 1 /\ 1 \in 1 .. c + 1 /\ 1 < i + 1
    BY <1>2, <1>3
  <2>2. v[i] = wl[i + 1]
    BY <1>2, <1>6, <2>1
  <2>3. d[wl[1]] <= d[wl[i + 1]] /\ d[wl[i + 1]] <= d[wl[1]] + 1
    BY <1>1, <1>2, <2>1
  <2>4. wl[i + 1] \in DOMAIN par /\ e[wl[i + 1]] = d[wl[i + 1]] /\ d[wl[i + 1]] \in Nat
    BY <1>1, <1>8, <2>1 DEF Deeper
  <2> QED
    BY <1>2, <2>1, <2>2, <2>3, <2>4
<1>10. ASSUME NEW i \in 1 .. c + m, i > c
       PROVE  v[i] = ns[i - c] /\ v[i] \in S /\ e[v[i]] = D + 1
  <2>1. i - c \in 1 .. m /\ ~(i <= c)
    BY <1>2, <1>3, <1>10
  <2> QED
    BY <1>3, <1>6, <2>1 DEF Deeper
<1>11. ASSUME NEW i \in DOMAIN v, NEW j \in DOMAIN v, i < j
       PROVE  e[v[i]] <= e[v[j]] /\ e[v[j]] <= e[v[i]] + 1
  <2>0. i \in 1 .. c + m /\ j \in 1 .. c + m /\ c \in Nat /\ m \in Nat /\ D \in Nat
    BY <1>2, <1>3, <1>7, <1>8, <1>11
  <2>1. CASE j <= c
    <3>1. i \in 1 .. c /\ j \in 1 .. c /\ i + 1 < j + 1
      BY <1>11, <2>0, <2>1
    <3>2. d[wl[i + 1]] <= d[wl[j + 1]] /\ d[wl[j + 1]] <= d[wl[i + 1]] + 1
      BY <1>1, <1>9, <3>1
    <3> QED
      BY <1>9, <3>1, <3>2
  <2>2. CASE i <= c /\ j > c
    <3>1. i \in 1 .. c
      BY <2>0, <2>2
    <3>2. D <= e[v[i]] /\ e[v[i]] <= D + 1 /\ e[v[i]] \in Nat /\ e[v[j]] = D + 1
      BY <1>9, <1>10, <2>0, <2>2, <3>1
    <3> QED
      BY <2>0, <3>2
  <2>3. CASE i > c /\ j > c
    <3>1. e[v[i]] = D + 1 /\ e[v[j]] = D + 1
      BY <1>10, <2>0, <2>3
    <3> QED
      BY <2>0, <3>1
  <2> QED
    BY <1>11, <2>0, <2>1, <2>2, <2>3
\* Whatever has been visited is at most one deeper than cur, and no deeper if it was expanded.
<1>12. ASSUME NEW y \in DOMAIN par
       PROVE  e[y] = d[y] /\ d[y] \in Nat /\ d[y] <= D + 1
  <2>1. e[y] = d[y] /\ d[y] \in Nat
    BY <1>1 DEF Deeper
  <2>2. 1 \in DOMAIN wl
    BY <1>2
  <2>3. CASE Waits(wl, y)
    <3>1. PICK i \in DOMAIN wl : wl[i] = y
      BY <2>3 DEF Waits
    <3>2. CASE i = 1
      BY <1>2, <2>1, <3>1, <3>2
    <3>3. CASE i # 1
      <4>1. 1 < i
        BY <1>2, <3>1, <3>3
      <4>2. d[wl[i]] <= d[wl[1]] + 1
        BY <1>1, <2>2, <3>1, <4>1
      <4> QED
        BY <1>2, <2>1, <3>1, <4>2
    <3> QED
      BY <3>2, <3>3
  <2>4. CASE ~Waits(wl, y)
    <3>1. d[y] <= d[wl[1]]
      BY <2>2, <2>4 DEF Walked
    <3> QED
      BY <1>2, <1>8, <2>1, <3>1
  <2> QED
    BY <2>1, <2>3, <2>4
<1>13. ASSUME NEW y \in DOMAIN more
       PROVE  Waits(v, y) \/ (LeadsOn(g, more, e, y) /\ \A i \in DOMAIN v : e[y] <= e[v[i]])
  <2> SUFFICES ASSUME ~Waits(v, y)
               PROVE  LeadsOn(g, more, e, y) /\ \A i \in DOMAIN v : e[y] <= e[v[i]]
    OBVIOUS
  <2>1. y \in DOMAIN par
    <3> SUFFICES ASSUME y \in S PROVE FALSE
      BY <1>4
    <3>1. PICK i \in 1 .. m : ns[i] = y
      BY <1>3 DEF Waits
    <3>2. i + c \in 1 .. c + m /\ i + c > c /\ (i + c) - c = i
      BY <1>2, <1>3
    <3>3. v[i + c] = y
      BY <1>10, <3>1, <3>2
    <3> QED
      BY <1>7, <3>2, <3>3 DEF Waits
  <2>2. e[y] = d[y] /\ d[y] \in Nat
    BY <1>12, <2>1
  <2>3. y = cur \/ ~Waits(wl, y)
    <3> SUFFICES ASSUME y # cur, NEW i \in DOMAIN wl, wl[i] = y PROVE FALSE
      BY DEF Waits
    <3>1. i - 1 \in 1 .. c /\ (i - 1) + 1 = i
      BY <1>2
    <3>2. v[i - 1] = wl[(i - 1) + 1]
      BY <1>9, <3>1
    <3>3. i - 1 \in DOMAIN v
      BY <1>2, <1>3, <1>7, <3>1
    <3> QED
      BY <3>1, <3>2, <3>3 DEF Waits
  <2>4. d[y] <= D
    <3>1. CASE y = cur
      BY <1>8, <3>1
    <3>2. CASE ~Waits(wl, y)
      <4>1. 1 \in DOMAIN wl
        BY <1>2
      <4> QED
        BY <1>2, <2>1, <3>2, <4>1 DEF Walked
    <3> QED
      BY <2>3, <3>1, <3>2
  <2>5. \A i \in DOMAIN v : e[y] <= e[v[i]]
    <3> SUFFICES ASSUME NEW i \in DOMAIN v PROVE e[y] <= e[v[i]]
      OBVIOUS
    <3>0. i \in 1 .. c + m /\ c \in Nat /\ m \in Nat
      BY <1>2, <1>3, <1>7
    <3>1. D <= e[v[i]] /\ e[v[i]] \in Nat
      <4>1. CASE i <= c
        <5>1. i \in 1 .. c
          BY <3>0, <4>1
        <5> QED
          BY <1>9, <5>1
      <4>2. CASE i > c
        <5>1. e[v[i]] = D + 1
          BY <1>10, <3>0, <4>2
        <5> QED
          BY <1>8, <5>1
      <4> QED
        BY <3>0, <4>1, <4>2
    <3> QED
      BY <1>8, <2>2, <2>4, <3>1
  <2>6. LeadsOn(g, more, e, y)
    <3> SUFFICES ASSUME NEW l \in Letter
                 PROVE  g.next[y][l] \in DOMAIN more /\ e[g.next[y][l]] <= e[y] + 1
      BY DEF LeadsOn
    <3> DEFINE z == g.next[y][l]
    <3>1. CASE y = cur
      <4>1. z \in DOMAIN par \/ z \in S
        BY <3>1 DEF Successors
      <4>2. CASE z \in DOMAIN par
        BY <1>4, <1>12, <2>2, <3>1, <4>2
      <4>3. CASE z \in S
        <5>1. e[z] = D + 1
          BY <4>3 DEF Deeper
        <5> QED
          BY <1>4, <1>8, <2>2, <3>1, <4>3, <5>1
      <4> QED
        BY <4>1, <4>2, <4>3
    <3>2. CASE ~Waits(wl, y)
      <4>1. z \in DOMAIN par /\ d[z] <= d[y] + 1
        BY <2>1, <3>2 DEF Walked, LeadsOn
      <4> QED
        BY <1>4, <1>12, <2>2, <4>1
    <3> QED
      BY <2>3, <3>1, <3>2
  <2> QED
    BY <2>5, <2>6
<1>14. \A l \in Letter : g.next[g.init][l] \in DOMAIN more /\ e[g.next[g.init][l]] <= 1
  <2> SUFFICES ASSUME NEW l \in Letter
               PROVE  g.next[g.init][l] \in DOMAIN more /\ e[g.next[g.init][l]] <= 1
    OBVIOUS
  <2>1. g.next[g.init][l] \in DOMAIN par /\ d[g.next[g.init][l]] <= 1
    BY DEF Walked
  <2> QED
    BY <1>4, <1>12, <2>1
<1>15. \A y \in DOMAIN more : y \notin g.bad
  BY <1>4 DEF Walked
<1>16. Walked(g, more, v, e)
  BY <1>6, <1>11, <1>13, <1>14, <1>15 DEF Walked
<1> QED
  BY <1>16 DEF v

\* While the head of the worklist is at depth n, no word of n letters leads to a bad pair.
LEMMA NoneShorterYet ==
  ASSUME NEW g, IsGraph(g), NEW par, NEW wl, wl # <<>>, NEW d, Pointers(g, par, d), Walked(g, par, wl, d)
  PROVE  NoneShorter(g, d[Head(wl)] + 1)
<1>1. wl \in Seq(DOMAIN par) /\ d \in [DOMAIN par -> Nat]
  BY DEF Walked, Pointers
<1>2. Len(wl) \in Nat /\ Len(wl) # 0 /\ DOMAIN wl = 1 .. Len(wl) /\ Head(wl) = wl[1]
      /\ \A i \in DOMAIN wl : wl[i] \in DOMAIN par
  BY <1>1, LenProperties, EmptySeq, ElementOfSeq
<1>3. 1 \in DOMAIN wl /\ d[Head(wl)] \in Nat
  BY <1>1, <1>2
<1>4. \A i \in DOMAIN wl : d[Head(wl)] <= d[wl[i]] /\ d[wl[i]] \in Nat
  <2> SUFFICES ASSUME NEW i \in DOMAIN wl PROVE d[Head(wl)] <= d[wl[i]] /\ d[wl[i]] \in Nat
    OBVIOUS
  <2>1. CASE i = 1
    BY <1>2, <1>3, <2>1
  <2>2. CASE i # 1
    <3>1. 1 < i
      BY <1>2, <2>2
    <3>2. d[wl[1]] <= d[wl[i]]
      BY <1>3, <3>1 DEF Walked
    <3> QED
      BY <1>1, <1>2, <3>2
  <2> QED
    BY <2>1, <2>2
<1>5. ASSUME NEW m \in Nat, m # 0, m < d[Head(wl)] + 1, NEW w \in [1 .. m -> Letter],
             NEW r, Run(g, g.init, m, w, r)
      PROVE  r[m] \notin g.bad
  <2>1. \A i \in DOMAIN wl : m <= d[wl[i]]
    BY <1>3, <1>4, <1>5
  <2>2. r[m] \in DOMAIN par
    BY <1>5, <2>1, PrefixVisited
  <2> QED
    BY <2>2 DEF Walked
<1> QED
  BY <1>5 DEF NoneShorter

\* A letter before a word that leads on.
LEMMA LeadsFrom ==
  ASSUME NEW g, IsGraph(g), NEW a, NEW w, NEW b, Leads(g, a, w, b),
         NEW c \in g.pairs, NEW l \in Letter, g.next[c][l] = a
  PROVE  Leads(g, c, <<l>> \o w, b) /\ Len(<<l>> \o w) = Len(w) + 1
<1> DEFINE n == Len(w)
           v == <<l>> \o w
<1>1. w \in Seq(Letter) /\ n \in Nat
  BY LenProperties DEF Leads
<1>2. PICK r : Run(g, a, n, w, r) /\ r[n] = b
  BY DEF Leads
<1>3. v \in Seq(Letter) /\ Len(v) = n + 1 /\ v[1] = l /\ \A k \in 1 .. n : v[k + 1] = w[k]
  BY <1>1
<1> HIDE DEF n, v
<1> DEFINE q == [k \in 0 .. n + 1 |-> IF k = 0 THEN c ELSE r[k - 1]]
<1>4. /\ q \in [0 .. n + 1 -> g.pairs] /\ q[0] = c
      /\ \A k \in 1 .. n + 1 : q[k] = r[k - 1] /\ k - 1 \in 0 .. n
  <2>1. \A k \in 0 .. n + 1 : k # 0 => k - 1 \in 0 .. n
    BY <1>1
  <2>2. \A k \in 0 .. n : r[k] \in g.pairs
    BY <1>2 DEF Run
  <2>3. q \in [0 .. n + 1 -> g.pairs]
    BY <2>1, <2>2
  <2>4. q[0] = c
    BY <1>1
  <2>5. \A k \in 1 .. n + 1 : q[k] = r[k - 1] /\ k - 1 \in 0 .. n
    BY <1>1
  <2> QED
    BY <2>3, <2>4, <2>5
<1> HIDE DEF q
<1>5. ASSUME NEW k \in 1 .. n + 1
      PROVE  q[k] = g.next[q[k - 1]][v[k]]
  <2>1. CASE k = 1
    BY <1>1, <1>2, <1>3, <1>4, <2>1 DEF Run
  <2>2. CASE k # 1
    <3>1. k - 1 \in 1 .. n + 1 /\ k - 1 \in 1 .. n /\ (k - 1) + 1 = k
      BY <1>1, <2>2
    <3>2. q[k] = r[k - 1] /\ q[k - 1] = r[(k - 1) - 1] /\ v[k] = w[k - 1]
      BY <1>3, <1>4, <3>1
    <3>3. r[k - 1] = g.next[r[(k - 1) - 1]][w[k - 1]]
      BY <1>2, <3>1 DEF Run
    <3> QED
      BY <3>2, <3>3
  <2> QED
    BY <2>1, <2>2
<1>6. Run(g, c, n + 1, v, q)
  BY <1>4, <1>5 DEF Run
<1>7. q[n + 1] = b
  <2>1. n + 1 \in 1 .. n + 1 /\ (n + 1) - 1 = n
    BY <1>1
  <2> QED
    BY <1>2, <1>4, <2>1
<1>8. Leads(g, c, v, b)
  BY <1>3, <1>6, <1>7 DEF Leads
<1> QED
  BY <1>3, <1>8 DEF v, n

LEMMA NothingLeads ==
  ASSUME NEW g, NEW b \in g.pairs
  PROVE  Leads(g, b, <<>>, b) /\ Len(<<>>) = 0
<1> DEFINE r == [k \in 0 .. 0 |-> b]
<1>1. Len(<<>>) = 0 /\ <<>> \in Seq(Letter)
  OBVIOUS
<1>2. Run(g, b, 0, <<>>, r) /\ r[0] = b
  BY DEF Run
<1> HIDE DEF r
<1> QED
  BY <1>1, <1>2 DEF Leads

\* A set that holds what the first letter leads to, and where its members lead.
ClosedAfterALetter(g, V) ==
  Successors(g, g.init) \subseteq V /\ \A y \in V : Successors(g, y) \subseteq V

LEMMA LeadsInto ==
  ASSUME NEW g, IsGraph(g), NEW w, w # <<>>, NEW b, Leads(g, g.init, w, b), NEW V, ClosedAfterALetter(g, V)
  PROVE  b \in V
<1> DEFINE n == Len(w)
<1>1. w \in Seq(Letter) /\ n \in Nat /\ n # 0 /\ \A k \in 1 .. n : w[k] \in Letter
  BY LenProperties, EmptySeq, ElementOfSeq DEF Leads
<1>2. PICK r : Run(g, g.init, n, w, r) /\ r[n] = b
  BY DEF Leads
<1> HIDE DEF n
<1> DEFINE S == {k \in Nat : k + 1 <= n => r[k + 1] \in V}
<1>3. 0 \in S
  <2>1. 1 \in 1 .. n /\ 1 - 1 = 0
    BY <1>1
  <2>2. r[1] = g.next[g.init][w[1]] /\ w[1] \in Letter
    BY <1>1, <1>2, <2>1 DEF Run
  <2> QED
    BY <2>2 DEF ClosedAfterALetter, Successors
<1>4. ASSUME NEW k \in Nat, k \in S PROVE k + 1 \in S
  <2> SUFFICES ASSUME (k + 1) + 1 <= n PROVE r[(k + 1) + 1] \in V
    OBVIOUS
  <2>1. (k + 1) + 1 \in 1 .. n /\ ((k + 1) + 1) - 1 = k + 1 /\ k + 1 <= n
    BY <1>1
  <2>2. r[(k + 1) + 1] = g.next[r[k + 1]][w[(k + 1) + 1]] /\ w[(k + 1) + 1] \in Letter /\ r[k + 1] \in V
    BY <1>1, <1>2, <1>4, <2>1 DEF Run
  <2> QED
    BY <2>2 DEF ClosedAfterALetter, Successors
<1>5. Nat \subseteq S
  <2> HIDE DEF S
  <2> QED
    BY <1>3, <1>4, SetInduction
<1>6. n - 1 \in Nat /\ (n - 1) + 1 = n
  BY <1>1
<1>7. n - 1 \in S
  BY <1>5, <1>6
<1> QED
  BY <1>1, <1>2, <1>6, <1>7

-----------------------------------------------------------------------------
(* The graph of a question.                                                 *)

PairsOf(x) == (x.tau.states \cup {SinkDst}) \X DOMAIN x.psi.delta

TauStep(x, q, l) ==
  IF q # SinkDst /\ l \in x.tau.emits[q] /\ Matching(x.tau, q, l) # {}
  THEN x.tau.edges[q][First(Matching(x.tau, q, l))].dst ELSE SinkDst

StepOf(x, y, l) == <<TauStep(x, y[1], l), x.psi.delta[y[2]][l]>>

\* Exactly one of the two automata accepts the words that lead here.
TellsApart(x, y) == y[1] # SinkDst <=> y[2] \notin x.psi.final

Graph(x) ==
  [pairs |-> PairsOf(x), init |-> <<x.tau.init, x.psi.init>>,
   next |-> [y \in PairsOf(x) |-> [l \in Letter |-> StepOf(x, y, l)]],
   bad |-> {y \in PairsOf(x) : TellsApart(x, y)}]

LEMMA DstIsState ==
  ASSUME NEW x \in Questions, NEW q \in x.tau.states, NEW l, Matching(x.tau, q, l) # {}
  PROVE  x.tau.edges[q][First(Matching(x.tau, q, l))].dst \in x.tau.states
<1> DEFINE es == x.tau.edges[q]
           ms == Matching(x.tau, q, l)
<1>1. es \in Seq([guard : SUBSET Letter, dst : x.tau.states])
  BY QuestionsWellFormed DEF IsTransducer, Transducers
<1>2. ms \subseteq DOMAIN es
  BY DEF Matching
<1>3. First(ms) \in DOMAIN es
  <2>1. DOMAIN es \subseteq Nat
    BY <1>1, LenProperties
  <2> QED
    BY <1>2, <2>1, FirstIsMember
<1> HIDE DEF es, ms
<1>4. es[First(ms)] \in [guard : SUBSET Letter, dst : x.tau.states]
  BY <1>1, <1>3, LenProperties, ElementOfSeq
<1> QED
  BY <1>4 DEF es, ms

LEMMA GraphOf ==
  ASSUME NEW x \in Questions
  PROVE  /\ IsGraph(Graph(x)) /\ IsFiniteSet(PairsOf(x))
         /\ Graph(x).pairs = PairsOf(x) /\ Graph(x).init = <<x.tau.init, x.psi.init>>
         /\ \A y \in PairsOf(x) : \A l \in Letter : Graph(x).next[y][l] = StepOf(x, y, l)
         /\ Graph(x).bad = {y \in PairsOf(x) : TellsApart(x, y)}
<1> DEFINE g == Graph(x)
           nx == [y \in PairsOf(x) |-> [l \in Letter |-> StepOf(x, y, l)]]
<1>1. /\ IsTransducer(x.tau) /\ IsFiniteSet(x.tau.states) /\ SinkDst \notin x.tau.states
      /\ IsPsi(x.psi) /\ IsFiniteSet(DOMAIN x.psi.delta)
  BY QuestionsWellFormed
<1>2. /\ g.pairs = PairsOf(x) /\ g.init = <<x.tau.init, x.psi.init>> /\ g.next = nx
      /\ g.bad = {y \in PairsOf(x) : TellsApart(x, y)}
  BY DEF Graph
<1>3. x.tau.init \in x.tau.states
  BY <1>1 DEF IsTransducer, Transducers
<1>4. g.init \in PairsOf(x)
  BY <1>1, <1>2, <1>3 DEF PairsOf, IsPsi
<1>5. NoPair \notin PairsOf(x)
  <2>1. \A y \in PairsOf(x) : Len(y) = 2
    BY DEF PairsOf
  <2> QED
    BY <2>1 DEF NoPair
<1>6. ASSUME NEW y \in PairsOf(x), NEW l \in Letter
      PROVE  StepOf(x, y, l) \in PairsOf(x)
  <2>1. y[1] \in x.tau.states \cup {SinkDst} /\ y[2] \in DOMAIN x.psi.delta
    BY DEF PairsOf
  <2>2. x.psi.delta[y[2]][l] \in DOMAIN x.psi.delta
    BY <1>1, <2>1 DEF IsPsi
  <2>3. TauStep(x, y[1], l) \in x.tau.states \cup {SinkDst}
    <3> DEFINE q == y[1]
               ms == Matching(x.tau, q, l)
    <3>1. CASE q # SinkDst /\ l \in x.tau.emits[q] /\ ms # {}
      <4>1. q \in x.tau.states
        BY <2>1, <3>1
      <4>2. TauStep(x, q, l) = x.tau.edges[q][First(ms)].dst
        BY <3>1 DEF TauStep
      <4> QED
        BY <3>1, <4>1, <4>2, DstIsState
    <3>2. CASE ~(q # SinkDst /\ l \in x.tau.emits[q] /\ ms # {})
      BY <3>2 DEF TauStep
    <3> QED
      BY <3>1, <3>2
  <2> QED
    BY <2>2, <2>3 DEF StepOf, PairsOf
<1>7. nx \in [PairsOf(x) -> [Letter -> PairsOf(x)]]
  BY <1>6
<1>8. IsFiniteSet(PairsOf(x))
  BY <1>1, FS_AddElement, FS_Product DEF PairsOf
<1>9. \A y \in PairsOf(x) : \A l \in Letter : nx[y][l] = StepOf(x, y, l)
  OBVIOUS
<1> HIDE DEF nx, g
<1>10. IsGraph(g)
  BY <1>2, <1>4, <1>5, <1>7 DEF IsGraph
<1> QED
  BY <1>2, <1>8, <1>9, <1>10 DEF g

\* Narrowing the guards to what lambda allows, or asking lambda as well, is the same step.
LEMMA TauNextMeans ==
  ASSUME question \in Questions, NEW q, NEW l
  PROVE  TauNext(q, l) = TauStep(question, q, l)
<1> DEFINE ms == {m \in DOMAIN tau.edges[q] : l \in Narrowed(tau, q, m)}
<1>1. CASE q # SinkDst /\ l \in tau.emits[q]
  <2>1. ms = Matching(tau, q, l)
    BY <1>1 DEF Narrowed, Matching
  <2>2. TauNext(q, l) = IF ms = {} THEN SinkDst ELSE tau.edges[q][First(ms)].dst
    BY <1>1 DEF TauNext
  <2> QED
    BY <1>1, <2>1, <2>2 DEF TauStep, tau
<1>2. CASE q # SinkDst /\ l \notin tau.emits[q]
  <2>1. ms = {}
    BY <1>2 DEF Narrowed
  <2>2. TauNext(q, l) = SinkDst
    BY <1>2, <2>1 DEF TauNext
  <2> QED
    BY <1>2, <2>2 DEF TauStep, tau
<1>3. CASE q = SinkDst
  BY <1>3 DEF TauNext, TauStep
<1> QED
  BY <1>1, <1>2, <1>3

\* Every state of an agreement automaton accepts.
LEMMA TauFinalMeans ==
  ASSUME NEW q
  PROVE  TauFinal(q) <=> q # SinkDst
<1> DEFINE es == AgreementEdges(tau, q)
           loop == [dst |-> q, guard |-> {}, mark |-> TRUE]
<1>1. \A e \in es : e.mark = TRUE
  BY DEF AgreementEdges
<1>2. loop.mark = TRUE
  OBVIOUS
<1> HIDE DEF es
<1>3. AgreementNode(tau, q) = IF es = {} THEN {loop} ELSE es
  BY DEF AgreementNode, Readable, es
<1>4. StateIsAccepting(AgreementNode(tau, q))
  <2> HIDE DEF loop
  <2>1. \E e \in AgreementNode(tau, q) : e.mark = TRUE
    BY <1>1, <1>2, <1>3
  <2> QED
    BY <2>1 DEF StateIsAccepting
<1> QED
  BY <1>4 DEF TauFinal

LEMMA QuestionGraph ==
  ASSUME question \in Questions
  PROVE  /\ Pairs = PairsOf(question) /\ Initial = Graph(question).init /\ Initial \in PairsOf(question)
         /\ \A y \in PairsOf(question) : \A l \in Letter : PairNext(y, l) = Graph(question).next[y][l]
         /\ \A y \in PairsOf(question) : Diverges(y) <=> y \in Graph(question).bad
<1> DEFINE g == Graph(question)
<1>1. /\ IsGraph(g) /\ g.pairs = PairsOf(question) /\ g.init = <<tau.init, psi.init>>
      /\ \A y \in PairsOf(question) : \A l \in Letter : g.next[y][l] = StepOf(question, y, l)
      /\ g.bad = {y \in PairsOf(question) : TellsApart(question, y)}
  BY GraphOf DEF tau, psi
<1>2. Pairs = PairsOf(question)
  BY DEF Pairs, PairsOf, tau, psi
<1>3. Initial = g.init /\ Initial \in PairsOf(question)
  BY <1>1 DEF Initial, IsGraph
<1>4. \A y, l : PairNext(y, l) = StepOf(question, y, l)
  BY TauNextMeans DEF PairNext, StepOf, psi
<1>5. \A y : Diverges(y) <=> TellsApart(question, y)
  <2> SUFFICES ASSUME NEW y PROVE Diverges(y) <=> TellsApart(question, y)
    OBVIOUS
  <2>1. TauFinal(y[1]) <=> y[1] # SinkDst
    BY TauFinalMeans
  <2>2. TauFinal(y[1]) \in BOOLEAN
    BY DEF TauFinal, StateIsAccepting
  <2> QED
    BY <2>1, <2>2 DEF Diverges, TellsApart, psi
<1> QED
  BY <1>1, <1>2, <1>3, <1>4, <1>5

\* ReachableFrom iterates to the least set that a word's pairs never leave.
LEMMA ReachableIsLeast ==
  ASSUME question \in Questions
  PROVE  /\ ReachableFrom(AfterALetter) \subseteq PairsOf(question)
         /\ ClosedAfterALetter(Graph(question), ReachableFrom(AfterALetter))
         /\ \A V \in SUBSET PairsOf(question) :
              ClosedAfterALetter(Graph(question), V) => ReachableFrom(AfterALetter) \subseteq V
<1> DEFINE g == Graph(question)
           D == PairsOf(question)
           n == Cardinality(D)
           A == AfterALetter
           Step(W) == W \cup {PairNext(x, l) : x \in W, l \in Letter}
           step == [W \in SUBSET D |-> Step(W)]
           Solves(w) == w = [m \in 0 .. n |-> IF m = 0 THEN A ELSE Step(w[m - 1])]
           reach == CHOOSE w : Solves(w)
<1>1. /\ IsGraph(g) /\ g.pairs = D /\ IsFiniteSet(D) /\ Pairs = D /\ g.init \in D
      /\ \A y \in D : \A l \in Letter : PairNext(y, l) = g.next[y][l] /\ PairNext(y, l) \in D
      /\ Initial = g.init
  <2>1. IsGraph(g) /\ g.pairs = D /\ IsFiniteSet(D)
    BY GraphOf
  <2>2. Pairs = D /\ Initial = g.init /\ \A y \in D : \A l \in Letter : PairNext(y, l) = g.next[y][l]
    BY QuestionGraph
  <2>3. \A y \in D : \A l \in Letter : g.next[y][l] \in D
    BY <2>1 DEF IsGraph
  <2> QED
    BY <2>1, <2>2, <2>3 DEF IsGraph
<1>2. n \in Nat /\ n >= Cardinality(D)
  BY <1>1, FS_CardinalityType
<1>3. ReachableFrom(AfterALetter) = reach[n]
  BY <1>1 DEF ReachableFrom
<1>4. A \in SUBSET D /\ A = Successors(g, g.init)
  BY <1>1 DEF AfterALetter, Successors
<1>5. \A W \in SUBSET D : /\ step[W] = Step(W) /\ step[W] \in SUBSET D /\ W \subseteq step[W]
                          /\ step[W] \subseteq W <=> \A y \in W : Successors(g, y) \subseteq W
  <2>1. \A W \in SUBSET D : Step(W) \in SUBSET D /\ W \subseteq Step(W)
    BY <1>1
  <2>2. \A W \in SUBSET D : step[W] = Step(W)
    OBVIOUS
  <2>3. \A W \in SUBSET D : Step(W) \subseteq W <=> \A y \in W : \A l \in Letter : PairNext(y, l) \in W
    OBVIOUS
  <2>4. ASSUME NEW W \in SUBSET D
        PROVE  (\A y \in W : \A l \in Letter : PairNext(y, l) \in W) <=> \A y \in W : Successors(g, y) \subseteq W
    BY <1>1 DEF Successors
  <2> HIDE DEF Step, step
  <2> QED
    BY <2>1, <2>2, <2>3, <2>4
<1>6. MonotoneStep(D, step) /\ A \subseteq step[A]
  <2>1. step \in [SUBSET D -> SUBSET D]
    <3>1. \A W \in SUBSET D : Step(W) \in SUBSET D
      BY <1>1
    <3> HIDE DEF Step
    <3> QED
      BY <3>1
  <2>2. \A V, W \in SUBSET D : V \subseteq W => Step(V) \subseteq Step(W)
    OBVIOUS
  <2> HIDE DEF Step, step, A, D
  <2>3. \A V, W \in SUBSET D : V \subseteq W => step[V] \subseteq step[W]
    BY <1>5, <2>2
  <2> QED
    BY <1>4, <1>5, <2>1, <2>3 DEF MonotoneStep
<1> HIDE DEF g, D, n, A, Step, step
<1>7. \E w : Solves(w)
  <2>1. PICK w : w \in Rounds(D, A, step, n)
    BY <1>2, <1>4, <1>6, RoundsExist
  <2>2. ASSUME NEW m \in 0 .. n
        PROVE  w[m] = IF m = 0 THEN A ELSE Step(w[m - 1])
    <3>1. CASE m # 0
      <4>1. m \in 1 .. n /\ m - 1 \in 0 .. n
        BY <1>2, <3>1
      <4>2. w[m] = step[w[m - 1]] /\ w[m - 1] \in SUBSET D
        BY <2>1, <4>1 DEF Rounds
      <4> QED
        BY <1>5, <3>1, <4>2
    <3> QED
      BY <2>1, <3>1 DEF Rounds
  <2> QED
    BY <2>1, <2>2 DEF Rounds
<1>8. Solves(reach)
  BY <1>7
<1> HIDE DEF reach
<1>9. /\ reach = [m \in 0 .. n |-> reach[m]] /\ reach[0] = A
      /\ \A m \in 1 .. n : reach[m] = Step(reach[m - 1])
  <2>1. \A m \in 1 .. n : m \in 0 .. n /\ m # 0
    BY <1>2
  <2> QED
    BY <1>2, <1>8, <2>1
<1>10. \A m \in 0 .. n : reach[m] \in SUBSET D
  <2> DEFINE S == {m \in Nat : m <= n => reach[m] \in SUBSET D}
  <2>1. 0 \in S
    BY <1>4, <1>9
  <2>2. ASSUME NEW m \in Nat, m \in S
        PROVE  m + 1 \in S
    <3> SUFFICES ASSUME m + 1 <= n PROVE reach[m + 1] \in SUBSET D
      OBVIOUS
    <3>1. m + 1 \in 1 .. n /\ (m + 1) - 1 = m /\ reach[m] \in SUBSET D
      BY <1>2, <2>2
    <3>2. reach[m + 1] = step[reach[m]]
      BY <1>5, <1>9, <3>1
    <3> QED
      BY <1>5, <3>1, <3>2
  <2>3. Nat \subseteq S
    <3> HIDE DEF S
    <3> QED
      BY <2>1, <2>2, SetInduction
  <2> QED
    BY <1>2, <2>3
<1>11. reach \in Rounds(D, A, step, n)
  <2>1. \A m \in 1 .. n : m - 1 \in 0 .. n
    BY <1>2
  <2> QED
    BY <1>5, <1>9, <1>10, <2>1 DEF Rounds
<1>12. LeastClosed(D, A, step, reach[n])
  BY <1>1, <1>2, <1>4, <1>6, <1>11, LeastFixpoint
<1>13. /\ reach[n] \subseteq D /\ ClosedAfterALetter(g, reach[n])
       /\ \A V \in SUBSET D : ClosedAfterALetter(g, V) => reach[n] \subseteq V
  BY <1>4, <1>5, <1>12 DEF LeastClosed, ClosedAfterALetter
<1> QED
  BY <1>3, <1>13 DEF g, D

-----------------------------------------------------------------------------
(* What the two automata say of a word.                                     *)

\* Every word has its run.
LEMMA RunOfWord ==
  ASSUME NEW g, IsGraph(g), NEW n \in Nat, NEW w \in [1 .. n -> Letter]
  PROVE  \E r : Run(g, g.init, n, w, r)
<1> DEFINE U == g.pairs
           A == g.init
           step == [m \in 1 .. n |-> [y \in U |-> g.next[y][w[m]]]]
<1>1. A \in U /\ step \in [1 .. n -> [U -> U]]
  BY DEF IsGraph
<1>2. \A m \in 1 .. n : \A y \in U : step[m][y] = g.next[y][w[m]]
  OBVIOUS
<1> HIDE DEF U, A, step
<1>3. PICK r : r \in Runs(U, A, step, n)
  BY <1>1, RunExists
<1>4. r \in [0 .. n -> U] /\ r[0] = A /\ \A m \in 1 .. n : r[m] = step[m][r[m - 1]]
  BY <1>3 DEF Runs
<1>5. \A m \in 1 .. n : r[m] = g.next[r[m - 1]][w[m]]
  <2> SUFFICES ASSUME NEW m \in 1 .. n PROVE r[m] = g.next[r[m - 1]][w[m]]
    OBVIOUS
  <2>1. m - 1 \in 0 .. n
    OBVIOUS
  <2> QED
    BY <1>2, <1>4, <2>1
<1>6. Run(g, g.init, n, w, r)
  BY <1>4, <1>5 DEF Run, U, A
<1> QED
  BY <1>6

\* tau goes on until the sink.
Alone(q) == IF q = SinkDst THEN {} ELSE {q}

LEMMA ProducesMeans ==
  ASSUME question \in Questions, NEW n \in Nat, NEW w \in [1 .. n -> Letter],
         NEW r, Run(Graph(question), Graph(question).init, n, w, r)
  PROVE  Produces(w) <=> r[n][1] # SinkDst
<1> DEFINE N(S, l) == {tau.edges[q][First(Matching(tau, q, l))].dst :
                         q \in {s \in S : l \in tau.emits[s] /\ Matching(tau, s, l) # {}}}
           Solves(f) == f = [k \in 0 .. n |-> IF k = 0 THEN {tau.init} ELSE N(f[k - 1], w[k])]
           run == CHOOSE f : Solves(f)
           f0 == [k \in 0 .. n |-> Alone(r[k][1])]
<1>1. Len(w) = n
  BY LenProperties
<1>2. Produces(w) <=> run[n] # {}
  BY <1>1 DEF Produces
<1>3. /\ r \in [0 .. n -> PairsOf(question)] /\ r[0] = <<tau.init, psi.init>>
      /\ \A k \in 1 .. n : r[k] = StepOf(question, r[k - 1], w[k]) /\ r[k - 1] \in PairsOf(question) /\ w[k] \in Letter
  <2>1. r \in [0 .. n -> PairsOf(question)] /\ r[0] = <<tau.init, psi.init>>
    BY GraphOf DEF Run, tau, psi
  <2>2. \A k \in 1 .. n : r[k - 1] \in PairsOf(question) /\ w[k] \in Letter
    BY <2>1
  <2> QED
    BY <2>1, <2>2, GraphOf DEF Run
<1>4. tau.init # SinkDst /\ SinkDst \notin tau.states /\ tau = question.tau
  BY QuestionsWellFormed DEF IsTransducer, Transducers, tau
<1>5. ASSUME NEW q \in tau.states \cup {SinkDst}, NEW l
      PROVE  N(Alone(q), l) = Alone(TauStep(question, q, l))
  <2>1. CASE q = SinkDst
    BY <2>1 DEF TauStep, Alone
  <2>2. CASE q # SinkDst /\ l \in tau.emits[q] /\ Matching(tau, q, l) # {}
    <3> DEFINE x == tau.edges[q][First(Matching(tau, q, l))].dst
    <3>1. TauStep(question, q, l) = x
      BY <2>2 DEF TauStep, tau
    <3>2. x \in tau.states
      BY <1>4, <2>2, DstIsState
    <3>3. N({q}, l) = {x}
      BY <2>2
    <3> QED
      BY <1>4, <2>2, <3>1, <3>2, <3>3 DEF Alone
  <2>3. CASE q # SinkDst /\ ~(l \in tau.emits[q] /\ Matching(tau, q, l) # {})
    <3>1. TauStep(question, q, l) = SinkDst
      BY <2>3 DEF TauStep, tau
    <3>2. N({q}, l) = {}
      BY <2>3
    <3> QED
      BY <2>3, <3>1, <3>2 DEF Alone
  <2> QED
    BY <2>1, <2>2, <2>3
<1> HIDE DEF N
<1>6. ASSUME NEW k \in 1 .. n
      PROVE  N(Alone(r[k - 1][1]), w[k]) = Alone(r[k][1])
  <2>1. r[k - 1][1] \in tau.states \cup {SinkDst} /\ r[k][1] = TauStep(question, r[k - 1][1], w[k])
    BY <1>3 DEF PairsOf, StepOf, tau
  <2> QED
    BY <1>5, <2>1
<1>7. Solves(f0)
  <2>1. ASSUME NEW k \in 0 .. n
        PROVE  Alone(r[k][1]) = IF k = 0 THEN {tau.init} ELSE N(f0[k - 1], w[k])
    <3>1. CASE k = 0
      BY <1>3, <1>4, <3>1 DEF Alone
    <3>2. CASE k # 0
      <4>1. k \in 1 .. n /\ k - 1 \in 0 .. n
        BY <3>2
      <4>2. f0[k - 1] = Alone(r[k - 1][1])
        BY <4>1
      <4> QED
        BY <1>6, <3>2, <4>1, <4>2
    <3> QED
      BY <3>1, <3>2
  <2> QED
    BY <2>1
<1>8. Solves(run)
  BY <1>7
<1> HIDE DEF run
<1>9. run[0] = {tau.init} /\ \A k \in 1 .. n : run[k] = N(run[k - 1], w[k])
  <2>1. 0 \in 0 .. n /\ \A k \in 1 .. n : k \in 0 .. n /\ k # 0
    OBVIOUS
  <2>2. run = [k \in 0 .. n |-> IF k = 0 THEN {tau.init} ELSE N(run[k - 1], w[k])]
    BY <1>8
  <2> HIDE DEF Solves
  <2> QED
    BY <2>1, <2>2
<1> DEFINE S == {k \in Nat : k <= n => run[k] = Alone(r[k][1])}
<1>10. 0 \in S
  <2>1. r[0][1] = tau.init
    BY <1>3
  <2>2. Alone(r[0][1]) = {tau.init}
    BY <1>4, <2>1 DEF Alone
  <2> QED
    BY <1>9, <2>2
<1>11. ASSUME NEW k \in Nat, k \in S PROVE k + 1 \in S
  <2> SUFFICES ASSUME k + 1 <= n PROVE run[k + 1] = Alone(r[k + 1][1])
    OBVIOUS
  <2>1. k + 1 \in 1 .. n /\ (k + 1) - 1 = k /\ run[k] = Alone(r[k][1])
    BY <1>11
  <2>2. run[k + 1] = N(run[k], w[k + 1])
    BY <1>9, <2>1
  <2>3. N(Alone(r[k][1]), w[k + 1]) = Alone(r[k + 1][1])
    BY <1>6, <2>1
  <2> QED
    BY <2>1, <2>2, <2>3
<1>12. n \in S
  <2> HIDE DEF S
  <2> QED
    BY <1>10, <1>11, SetInduction
<1>13. run[n] = Alone(r[n][1])
  BY <1>12
<1> QED
  BY <1>2, <1>13 DEF Alone

\* psi is where the run is.
LEMMA SatisfiesMeans ==
  ASSUME question \in Questions, NEW n \in Nat, NEW w \in [1 .. n -> Letter],
         NEW r, Run(Graph(question), Graph(question).init, n, w, r)
  PROVE  Satisfies(w) <=> r[n][2] \in psi.final
<1> DEFINE Solves(f) == f = [k \in 0 .. n |-> IF k = 0 THEN psi.init ELSE psi.delta[f[k - 1]][w[k]]]
           run == CHOOSE f : Solves(f)
           f0 == [k \in 0 .. n |-> r[k][2]]
<1>1. Len(w) = n
  BY LenProperties
<1>2. Satisfies(w) <=> run[n] \in psi.final
  BY <1>1 DEF Satisfies
<1>3. /\ r[0][2] = psi.init
      /\ \A k \in 1 .. n : r[k][2] = psi.delta[r[k - 1][2]][w[k]]
  <2>1. r \in [0 .. n -> PairsOf(question)] /\ r[0] = <<tau.init, psi.init>>
    BY GraphOf DEF Run, tau, psi
  <2>2. \A k \in 1 .. n : r[k - 1] \in PairsOf(question) /\ w[k] \in Letter
    BY <2>1
  <2>3. \A k \in 1 .. n : r[k] = StepOf(question, r[k - 1], w[k])
    BY <2>2, GraphOf DEF Run
  <2> QED
    BY <2>1, <2>3 DEF StepOf, psi
<1>4. Solves(f0)
  <2>1. ASSUME NEW k \in 0 .. n
        PROVE  r[k][2] = IF k = 0 THEN psi.init ELSE psi.delta[f0[k - 1]][w[k]]
    <3>1. CASE k # 0
      <4>1. k \in 1 .. n /\ k - 1 \in 0 .. n
        BY <3>1
      <4>2. f0[k - 1] = r[k - 1][2]
        BY <4>1
      <4> QED
        BY <1>3, <3>1, <4>1, <4>2
    <3> QED
      BY <1>3, <3>1
  <2> QED
    BY <2>1
<1>5. Solves(run)
  BY <1>4
<1> HIDE DEF run
<1>6. run[0] = psi.init /\ \A k \in 1 .. n : run[k] = psi.delta[run[k - 1]][w[k]]
  <2>1. 0 \in 0 .. n /\ \A k \in 1 .. n : k \in 0 .. n /\ k # 0
    OBVIOUS
  <2>2. run = [k \in 0 .. n |-> IF k = 0 THEN psi.init ELSE psi.delta[run[k - 1]][w[k]]]
    BY <1>5
  <2> HIDE DEF Solves
  <2> QED
    BY <2>1, <2>2
<1> DEFINE S == {k \in Nat : k <= n => run[k] = r[k][2]}
<1>7. 0 \in S
  BY <1>3, <1>6
<1>8. ASSUME NEW k \in Nat, k \in S PROVE k + 1 \in S
  <2> SUFFICES ASSUME k + 1 <= n PROVE run[k + 1] = r[k + 1][2]
    OBVIOUS
  <2>1. k + 1 \in 1 .. n /\ (k + 1) - 1 = k /\ run[k] = r[k][2]
    BY <1>8
  <2> QED
    BY <1>3, <1>6, <2>1
<1>9. n \in S
  <2> HIDE DEF S
  <2> QED
    BY <1>7, <1>8, SetInduction
<1> QED
  BY <1>2, <1>9

-----------------------------------------------------------------------------
(* The inductive invariant.                                                 *)

AtRoot ==
  /\ phase = "walk" /\ root = TRUE /\ equivalent = FALSE
  /\ parent = <<>> /\ worklist = <<Initial>> /\ witness = <<>>

\* Breadth first, with nothing bad met so far.
Walking ==
  /\ root = FALSE /\ witness = <<>>
  /\ \/ phase = "walk" /\ equivalent = FALSE
     \/ phase = "done" /\ equivalent = TRUE /\ worklist = <<>>
  /\ \E d : Pointers(Graph(question), parent, d) /\ Walked(Graph(question), parent, worklist, d)

\* The witness spells the way from where the reconstruction has come to.
Spelt(d) ==
  \/ phase = "walk" /\ witness = <<>>
  \/ /\ phase = "trace" /\ at \in DOMAIN parent
     /\ Leads(Graph(question), at, witness, divergent) /\ Len(witness) + d[at] = d[divergent]
  \/ /\ phase = "done"
     /\ Leads(Graph(question), Graph(question).init, witness, divergent) /\ Len(witness) = d[divergent]

\* The pair found is bad, and as shallow as any that is.
Tracing ==
  /\ equivalent = FALSE /\ divergent \in DOMAIN parent /\ divergent \in Graph(question).bad
  /\ \E d : /\ Pointers(Graph(question), parent, d) /\ NoneShorter(Graph(question), d[divergent])
            /\ Spelt(d)

WalkInv ==
  /\ question \in Questions
  /\ divergent = NoPair => AtRoot \/ Walking
  /\ divergent # NoPair => Tracing

LEMMA InitWalkInv == Init => WalkInv
  BY DEF Init, WalkInv, AtRoot

\* The loop over the blocks goes through all the pairs, or ends with a bad one.
LEMMA OrderCut ==
  ASSUME question \in Questions, NEW S, IsFiniteSet(S), S \subseteq PairsOf(question), NEW order \in Orders(S),
         NEW ns, ns = UpToDivergent(order)
  PROVE  /\ ns \in Seq(S) /\ Range(ns) \subseteq S
         /\ \/ /\ \A y \in S : Waits(ns, y) /\ y \notin Graph(question).bad
               /\ Range(ns) = S /\ ~(ns # <<>> /\ Diverges(ns[Len(ns)]))
            \/ ns # <<>> /\ Diverges(ns[Len(ns)]) /\ ns[Len(ns)] \in Range(ns) /\ ns[Len(ns)] \in Graph(question).bad
<1> DEFINE hits == {m \in DOMAIN order : Diverges(order[m])}
           bad == Graph(question).bad
<1>1. \A y \in S : Diverges(y) <=> y \in bad
  BY QuestionGraph
<1>2. /\ order \in Seq(S) /\ Len(order) \in Nat /\ DOMAIN order = 1 .. Len(order)
      /\ \A y \in S : \E m \in DOMAIN order : order[m] = y
      /\ \A m \in DOMAIN order : order[m] \in S
  BY OrdersEnumerate, LenProperties, ElementOfSeq
<1>3. CASE hits = {}
  <2>1. ns = order
    BY <1>3 DEF UpToDivergent
  <2>2. \A y \in S : Waits(ns, y)
    BY <1>2, <2>1 DEF Waits
  <2>3. Range(ns) = S
    BY <1>2, <2>1 DEF Range
  <2>4. \A y \in S : ~Diverges(y)
    BY <1>2, <1>3
  <2>5. ~(ns # <<>> /\ Diverges(ns[Len(ns)]))
    <3> SUFFICES ASSUME ns # <<>> PROVE ~Diverges(ns[Len(ns)])
      OBVIOUS
    <3>1. Len(ns) \in DOMAIN order
      BY <1>2, <2>1, EmptySeq
    <3> QED
      BY <1>3, <2>1, <3>1
  <2> QED
    BY <1>1, <1>2, <2>1, <2>2, <2>3, <2>4, <2>5
<1>4. CASE hits # {}
  <2> DEFINE n == First(hits)
  <2>1. n \in hits /\ n \in 1 .. Len(order) /\ n \in Nat /\ n # 0
    <3>1. hits \subseteq Nat
      BY <1>2
    <3>2. n \in hits
      BY <1>4, <3>1, FirstIsMember
    <3> QED
      BY <1>2, <3>2
  <2>2. ns = SubSeq(order, 1, n)
    BY <1>4 DEF UpToDivergent
  <2> HIDE DEF n
  <2>3. ns \in Seq(S) /\ Len(ns) = n /\ \A m \in 1 .. n : ns[m] = order[m]
    BY <1>2, <2>1, <2>2
  <2>4. DOMAIN ns = 1 .. n /\ n \in DOMAIN ns /\ ns # <<>> /\ ns[Len(ns)] = order[n]
    BY <2>1, <2>3, LenProperties, EmptySeq
  <2>5. Range(ns) \subseteq S
    BY <2>3, <2>4, ElementOfSeq DEF Range
  <2>6. ns[Len(ns)] \in Range(ns) /\ Diverges(ns[Len(ns)])
    BY <2>1, <2>3, <2>4 DEF Range
  <2> QED
    BY <1>1, <2>3, <2>4, <2>5, <2>6
<1> QED
  BY <1>3, <1>4

LEMMA DeeperExists ==
  ASSUME NEW g, NEW par, NEW d, Pointers(g, par, d), NEW cur \in DOMAIN par, NEW S, S \cap DOMAIN par = {}
  PROVE  \E e : Deeper(par, S, d, cur, e)
<1> DEFINE e == [y \in DOMAIN par \cup S |-> IF y \in DOMAIN par THEN d[y] ELSE d[cur] + 1]
<1>1. d \in [DOMAIN par -> Nat]
  BY DEF Pointers
<1>2. \A y \in S : y \notin DOMAIN par
  OBVIOUS
<1>3. Deeper(par, S, d, cur, e)
  BY <1>1, <1>2 DEF Deeper
<1> QED
  BY <1>3

\* What one expansion does to the pointers, and which of the two ways it ends.
Expanded(ns, S) ==
  /\ ns \in Seq(S) /\ Range(ns) \subseteq S
  /\ worklist' = Tail(worklist) \o ns
  /\ Joined(Graph(question), parent, parent', Range(ns), CurId(Head(worklist)), Head(worklist))
  /\ \/ /\ \A y \in S : Waits(ns, y) /\ y \notin Graph(question).bad
        /\ Range(ns) = S /\ divergent' = NoPair
     \/ divergent' \in Range(ns) /\ divergent' \in Graph(question).bad

LEMMA ExpandMeans ==
  ASSUME question \in Questions, Expand, Head(worklist) \in PairsOf(question)
  PROVE  \E ns : Expanded(ns, Successors(Graph(question), Head(worklist)) \ DOMAIN parent)
<1> DEFINE g == Graph(question)
           cur == Head(worklist)
           S == Successors(g, cur) \ DOMAIN parent
<1>1. /\ IsGraph(g) /\ g.pairs = PairsOf(question)
      /\ \A l \in Letter : PairNext(cur, l) = g.next[cur][l] /\ g.next[cur][l] \in PairsOf(question)
  BY GraphOf, QuestionGraph DEF IsGraph
<1>2. Unvisited(cur) = S
  BY <1>1 DEF Unvisited, Successors
<1>3. IsFiniteSet(S) /\ S \subseteq PairsOf(question)
  <2> DEFINE T == Successors(g, cur)
             f0 == [l \in Letter |-> g.next[cur][l]]
  <2>1. f0 \in Surjection(Letter, T)
    BY DEF Surjection, Successors
  <2>2. IsFiniteSet(T)
    BY <2>1, LettersFinite, FS_Surjection
  <2>3. S \subseteq T /\ T \subseteq PairsOf(question)
    BY <1>1 DEF Successors
  <2> HIDE DEF T, S
  <2> QED
    BY <2>2, <2>3, FS_Subset
<1>4. PICK order \in Orders(S) :
        LET ns == UpToDivergent(order)
        IN  /\ parent' = [x \in DOMAIN parent \cup Range(ns) |->
                             IF x \in DOMAIN parent THEN parent[x]
                             ELSE [pred |-> CurId(cur), letters |-> Region(cur, x)]]
            /\ worklist' = Tail(worklist) \o ns
            /\ divergent' = IF ns # <<>> /\ Diverges(ns[Len(ns)]) THEN ns[Len(ns)] ELSE NoPair
  BY <1>2 DEF Expand
<1>5. PICK ns : ns = UpToDivergent(order)
  OBVIOUS
<1>6. /\ parent' = [x \in DOMAIN parent \cup Range(ns) |->
                       IF x \in DOMAIN parent THEN parent[x]
                       ELSE [pred |-> CurId(cur), letters |-> Region(cur, x)]]
      /\ worklist' = Tail(worklist) \o ns
      /\ divergent' = IF ns # <<>> /\ Diverges(ns[Len(ns)]) THEN ns[Len(ns)] ELSE NoPair
  BY <1>4, <1>5
<1> HIDE DEF S
<1>7. /\ ns \in Seq(S) /\ Range(ns) \subseteq S
      /\ \/ /\ \A y \in S : Waits(ns, y) /\ y \notin g.bad
            /\ Range(ns) = S /\ ~(ns # <<>> /\ Diverges(ns[Len(ns)]))
         \/ ns # <<>> /\ Diverges(ns[Len(ns)]) /\ ns[Len(ns)] \in Range(ns) /\ ns[Len(ns)] \in g.bad
  BY <1>3, <1>4, <1>5, OrderCut
<1>8. \A x \in Range(ns) : x \notin DOMAIN parent
  BY <1>7 DEF S
<1>9. \A x : \A l \in Region(cur, x) : l \in Letter /\ g.next[cur][l] = x
  BY <1>1 DEF Region
<1> HIDE DEF g, cur
<1>10. Joined(g, parent, parent', Range(ns), CurId(cur), cur)
  <2>1. DOMAIN parent' = DOMAIN parent \cup Range(ns)
    BY <1>6
  <2>2. \A y \in DOMAIN parent : parent'[y] = parent[y]
    BY <1>6
  <2>3. \A y \in Range(ns) : parent'[y] = [pred |-> CurId(cur), letters |-> Region(cur, y)]
    BY <1>6, <1>8
  <2>4. ASSUME NEW y \in Range(ns)
        PROVE  parent'[y].pred = CurId(cur) /\ parent'[y].letters = Region(cur, y)
    <3>1. PICK p, ls : p = CurId(cur) /\ ls = Region(cur, y)
      OBVIOUS
    <3>2. parent'[y] = [pred |-> p, letters |-> ls]
      BY <2>3, <3>1
    <3>3. parent'[y].pred = p /\ parent'[y].letters = ls
      BY <3>2
    <3> QED
      BY <3>1, <3>3
  <2> QED
    BY <1>8, <1>9, <2>1, <2>2, <2>4 DEF Joined
<1>11. Expanded(ns, S)
  BY <1>6, <1>7, <1>10 DEF Expanded, g, cur
<1> QED
  BY <1>11 DEF S, g, cur

LEMMA ExpandInv == question \in Questions /\ WalkInv /\ Expand => WalkInv'
<1> SUFFICES ASSUME question \in Questions, WalkInv, Expand PROVE WalkInv'
  OBVIOUS
<1> DEFINE g == Graph(question)
<1>1. IsGraph(g) /\ Initial = g.init /\ Initial \in PairsOf(question) /\ g.pairs = PairsOf(question)
  BY GraphOf, QuestionGraph
<1>2. /\ phase = "walk" /\ worklist # <<>> /\ divergent = NoPair
      /\ root' = FALSE /\ question' = question /\ phase' = "walk"
      /\ equivalent' = equivalent /\ witness' = witness
  BY DEF Expand
<1>3. AtRoot \/ Walking
  BY <1>2 DEF WalkInv
\* What is to show of the walk after the step.
<1>4. ASSUME NEW d, Pointers(g, parent', d),
             \/ divergent' = NoPair /\ Walked(g, parent', worklist', d)
             \/ /\ divergent' \in DOMAIN parent' /\ divergent' \in g.bad
                /\ NoneShorter(g, d[divergent']),
             equivalent = FALSE, witness = <<>>
      PROVE  WalkInv'
  <2>1. CASE divergent' = NoPair
    <3>1. DOMAIN parent' \subseteq g.pairs
      BY <1>4 DEF Pointers
    <3>2. Walked(g, parent', worklist', d)
      BY <1>1, <1>4, <2>1, <3>1 DEF IsGraph
    <3>3. Walking'
      BY <1>2, <1>4, <3>2 DEF Walking
    <3> QED
      BY <1>2, <2>1, <3>3 DEF WalkInv
  <2>2. CASE divergent' # NoPair
    <3>1. divergent' \in DOMAIN parent' /\ divergent' \in g.bad /\ NoneShorter(g, d[divergent'])
      BY <1>4, <2>2
    <3>2. Spelt(d)'
      BY <1>2, <1>4 DEF Spelt
    <3>3. Tracing'
      BY <1>2, <1>4, <3>1, <3>2 DEF Tracing
    <3> QED
      BY <1>2, <2>2, <3>3 DEF WalkInv
  <2> QED
    BY <2>1, <2>2
<1>5. CASE AtRoot
  <2> DEFINE S == Successors(g, g.init) \ DOMAIN parent
  <2>1. /\ root = TRUE /\ equivalent = FALSE /\ witness = <<>> /\ DOMAIN parent = {}
        /\ Head(worklist) = g.init /\ Tail(worklist) = <<>>
    BY <1>1, <1>5 DEF AtRoot
  <2>2. S = Successors(g, g.init)
    BY <2>1
  <2>3. PICK ns : Expanded(ns, S)
    BY <1>1, <2>1, ExpandMeans
  <2>4. CurId(Head(worklist)) = NoPair
    BY <2>1 DEF CurId
  <2>5. /\ ns \in Seq(S) /\ Range(ns) \subseteq S /\ worklist' = <<>> \o ns
        /\ Joined(g, parent, parent', Range(ns), NoPair, g.init)
        /\ \/ /\ \A y \in S : Waits(ns, y) /\ y \notin g.bad
              /\ Range(ns) = S /\ divergent' = NoPair
           \/ divergent' \in Range(ns) /\ divergent' \in g.bad
    BY <2>1, <2>3, <2>4 DEF Expanded
  <2>6. worklist' = ns
    BY <2>5
  <2> HIDE DEF S
  <2>7. PICK e : e = [y \in Range(ns) |-> 1]
    OBVIOUS
  <2>8. PICK T : T = Range(ns)
    OBVIOUS
  <2>9. T \subseteq Successors(g, g.init) /\ e = [y \in T |-> 1] /\ Joined(g, parent, parent', T, NoPair, g.init)
    BY <2>2, <2>5, <2>7, <2>8
  <2> HIDE DEF g
  <2>10. /\ Pointers(g, parent', e)
         /\ \A v : /\ v \in Seq(T) /\ T = Successors(g, g.init)
                   /\ \A y \in T : Waits(v, y) /\ y \notin g.bad
                   => Walked(g, parent', v, e)
    BY <1>1, <2>1, <2>9, RootExpanded
  <2>11. CASE /\ \A y \in S : Waits(ns, y) /\ y \notin g.bad
              /\ Range(ns) = S /\ divergent' = NoPair
    <3>1. Walked(g, parent', ns, e)
      BY <2>2, <2>5, <2>8, <2>10, <2>11
    <3> QED
      BY <1>4, <2>1, <2>6, <2>10, <2>11, <3>1 DEF g
  <2>12. CASE divergent' \in Range(ns) /\ divergent' \in g.bad
    <3>1. divergent' \in DOMAIN parent' /\ e[divergent'] = 1
      BY <2>7, <2>8, <2>9, <2>12 DEF Joined
    <3>2. NoneShorter(g, 1)
      BY DEF NoneShorter
    <3> QED
      BY <1>4, <2>1, <2>10, <2>12, <3>1, <3>2 DEF g
  <2> QED
    BY <2>5, <2>11, <2>12
<1>6. CASE Walking
  <2> DEFINE cur == Head(worklist)
             S == Successors(g, cur) \ DOMAIN parent
  <2>1. /\ root = FALSE /\ equivalent = FALSE /\ witness = <<>>
        /\ \E d : Pointers(g, parent, d) /\ Walked(g, parent, worklist, d)
    BY <1>2, <1>6 DEF Walking
  <2>2. PICK d : Pointers(g, parent, d) /\ Walked(g, parent, worklist, d)
    BY <2>1
  <2>3. cur \in DOMAIN parent /\ DOMAIN parent \subseteq PairsOf(question)
    <3>1. worklist \in Seq(DOMAIN parent)
      BY <2>2 DEF Walked
    <3>2. Len(worklist) \in Nat /\ Len(worklist) # 0 /\ Head(worklist) = worklist[1]
      BY <1>2, <3>1, LenProperties, EmptySeq
    <3>3. 1 \in 1 .. Len(worklist)
      BY <3>2
    <3>4. worklist[1] \in DOMAIN parent
      BY <3>1, <3>3, ElementOfSeq
    <3> QED
      BY <1>1, <2>2, <3>2, <3>4 DEF Pointers
  <2>4. PICK ns : Expanded(ns, S)
    BY <2>3, ExpandMeans
  <2>5. CurId(cur) = cur
    BY <2>1 DEF CurId
  <2>6. /\ ns \in Seq(S) /\ Range(ns) \subseteq S /\ worklist' = Tail(worklist) \o ns
        /\ Joined(g, parent, parent', Range(ns), cur, cur)
        /\ \/ /\ \A y \in S : Waits(ns, y) /\ y \notin g.bad
              /\ Range(ns) = S /\ divergent' = NoPair
           \/ divergent' \in Range(ns) /\ divergent' \in g.bad
    BY <2>4, <2>5 DEF Expanded
  <2>7. PICK T : T = Range(ns)
    OBVIOUS
  <2>8. T \subseteq Successors(g, cur) /\ T \cap DOMAIN parent = {} /\ Joined(g, parent, parent', T, cur, cur)
    BY <2>6, <2>7
  <2> HIDE DEF g, cur
  <2>9. PICK e : Deeper(parent, T, d, cur, e)
    BY <2>2, <2>3, <2>8, DeeperExists
  <2>10. Pointers(g, parent', e)
    BY <1>1, <2>2, <2>3, <2>8, <2>9, PairPointers
  <2>11. CASE /\ \A y \in S : Waits(ns, y) /\ y \notin g.bad
              /\ Range(ns) = S /\ divergent' = NoPair
    <3>1. T = Successors(g, cur) \ DOMAIN parent /\ (\A y \in T : y \notin g.bad) /\ ns \in Seq(T)
          /\ \A y \in T : Waits(ns, y)
      BY <2>6, <2>7, <2>11
    <3>2. Walked(g, parent', Tail(worklist) \o ns, e)
      BY <1>1, <1>2, <2>2, <2>8, <2>9, <3>1, PairExpanded DEF cur
    <3> QED
      BY <1>4, <2>1, <2>6, <2>10, <2>11, <3>2 DEF g
  <2>12. CASE divergent' \in Range(ns) /\ divergent' \in g.bad
    <3>1. divergent' \in DOMAIN parent' /\ e[divergent'] = d[cur] + 1
      BY <2>7, <2>8, <2>9, <2>12 DEF Joined, Deeper
    <3>2. NoneShorter(g, d[cur] + 1)
      BY <1>1, <1>2, <2>2, NoneShorterYet DEF cur
    <3> QED
      BY <1>4, <2>1, <2>10, <2>12, <3>1, <3>2 DEF g
  <2> QED
    BY <2>6, <2>11, <2>12
<1> QED
  BY <1>3, <1>5, <1>6

\* The other steps: the walk is over, or the reconstruction follows a pointer.
LEMMA FoundEquivalentInv == WalkInv /\ FoundEquivalent => WalkInv'
<1> SUFFICES ASSUME WalkInv, FoundEquivalent PROVE WalkInv'
  OBVIOUS
<1>1. /\ worklist = <<>> /\ divergent = NoPair /\ phase = "walk" /\ phase' = "done" /\ equivalent' = TRUE
      /\ UNCHANGED <<question, root, parent, worklist, divergent, at, witness>>
  BY DEF FoundEquivalent, Exhausted
<1>2. ~AtRoot
  BY <1>1 DEF AtRoot
<1>3. Walking
  BY <1>1, <1>2 DEF WalkInv
<1>4. Walking'
  BY <1>1, <1>3 DEF Walking
<1> QED
  BY <1>1, <1>4 DEF WalkInv

LEMMA FoundDivergentInv == WalkInv /\ FoundDivergent => WalkInv'
<1> SUFFICES ASSUME WalkInv, FoundDivergent PROVE WalkInv'
  OBVIOUS
<1> DEFINE g == Graph(question)
<1>1. /\ divergent # NoPair /\ phase = "walk" /\ phase' = "trace" /\ at' = divergent
      /\ UNCHANGED <<question, root, parent, worklist, divergent, witness, equivalent>>
  BY DEF FoundDivergent
<1>2. Tracing /\ question \in Questions
  BY <1>1 DEF WalkInv
<1>3. PICK d : Pointers(g, parent, d) /\ NoneShorter(g, d[divergent]) /\ Spelt(d)
  BY <1>2 DEF Tracing
<1>4. witness = <<>>
  BY <1>1, <1>3 DEF Spelt
<1>5. divergent \in DOMAIN parent /\ divergent \in g.pairs /\ d[divergent] \in Nat
  BY <1>2, <1>3 DEF Tracing, Pointers
<1>6. Leads(g, divergent, <<>>, divergent) /\ Len(<<>>) + d[divergent] = d[divergent]
  BY <1>5, NothingLeads
<1>7. Spelt(d)'
  BY <1>1, <1>4, <1>5, <1>6 DEF Spelt
<1>8. Tracing'
  BY <1>1, <1>2, <1>3, <1>7 DEF Tracing
<1> QED
  BY <1>1, <1>2, <1>8 DEF WalkInv

LEMMA ReconstructInv == WalkInv /\ Reconstruct => WalkInv'
<1> SUFFICES ASSUME WalkInv, Reconstruct PROVE WalkInv'
  OBVIOUS
<1> DEFINE g == Graph(question)
<1>1. /\ phase = "trace" /\ at' = parent[at].pred
      /\ phase' = IF at' = NoPair THEN "done" ELSE "trace"
      /\ UNCHANGED <<question, root, parent, worklist, divergent, equivalent>>
  BY DEF Reconstruct
<1>2. PICK l \in parent[at].letters : witness' = <<l>> \o witness
  BY DEF Reconstruct
<1>3. ~AtRoot /\ ~Walking
  BY <1>1 DEF AtRoot, Walking
<1>4. divergent # NoPair /\ Tracing /\ question \in Questions
  BY <1>3 DEF WalkInv
<1>5. PICK d : Pointers(g, parent, d) /\ NoneShorter(g, d[divergent]) /\ Spelt(d)
  BY <1>4 DEF Tracing
<1>6. /\ at \in DOMAIN parent /\ Leads(g, at, witness, divergent) /\ Len(witness) + d[at] = d[divergent]
  BY <1>1, <1>5 DEF Spelt
<1>7. IsGraph(g) /\ DOMAIN parent \subseteq g.pairs /\ d \in [DOMAIN parent -> Nat] /\ divergent \in DOMAIN parent
  BY <1>4, <1>5, GraphOf DEF Tracing, Pointers
<1>8. Len(witness) \in Nat
  BY <1>6, LenProperties DEF Leads
<1>9. CASE parent[at].pred = NoPair
  <2>1. d[at] = 1 /\ l \in Letter /\ g.next[g.init][l] = at
    <3>1. NoPair \notin DOMAIN parent
      BY <1>7 DEF IsGraph
    <3> QED
      BY <1>5, <1>6, <1>9, <3>1 DEF Pointers
  <2>2. g.init \in g.pairs
    BY <1>7 DEF IsGraph
  <2> HIDE DEF g
  <2>3. Leads(g, g.init, <<l>> \o witness, divergent) /\ Len(<<l>> \o witness) = Len(witness) + 1
    BY <1>6, <1>7, <2>1, <2>2, LeadsFrom
  <2>4. Len(<<l>> \o witness) = d[divergent]
    BY <1>6, <1>7, <1>8, <2>1, <2>3
  <2>5. phase' = "done"
    BY <1>1, <1>9
  <2>6. Spelt(d)'
    BY <1>1, <1>2, <2>3, <2>4, <2>5 DEF Spelt, g
  <2>7. Tracing'
    BY <1>1, <1>4, <1>5, <2>6 DEF Tracing, g
  <2> QED
    BY <1>1, <1>4, <2>7 DEF WalkInv
<1>10. CASE parent[at].pred # NoPair
  <2> DEFINE c == parent[at].pred
  <2>1. c \in DOMAIN parent /\ d[at] = d[c] + 1 /\ l \in Letter /\ g.next[c][l] = at
    BY <1>5, <1>6, <1>10 DEF Pointers
  <2>2. c \in g.pairs /\ d[c] \in Nat
    BY <1>7, <2>1
  <2> HIDE DEF g, c
  <2>3. Leads(g, c, <<l>> \o witness, divergent) /\ Len(<<l>> \o witness) = Len(witness) + 1
    BY <1>6, <1>7, <2>1, <2>2, LeadsFrom
  <2>4. Len(<<l>> \o witness) + d[c] = d[divergent]
    BY <1>6, <1>7, <1>8, <2>1, <2>2, <2>3
  <2>5. phase' = "trace" /\ at' = c
    BY <1>1, <1>10 DEF c
  <2>6. Spelt(d)'
    BY <1>1, <1>2, <2>1, <2>3, <2>4, <2>5 DEF Spelt, g
  <2>7. Tracing'
    BY <1>1, <1>4, <1>5, <2>6 DEF Tracing, g
  <2> QED
    BY <1>1, <1>4, <2>7 DEF WalkInv
<1> QED
  BY <1>9, <1>10

\* The walk goes breadth first: two depths at most wait, nothing deeper has been expanded
\* and nothing bad been met before the first pair that is; and the reconstruction spells
\* the way back from it, the loop of produced_trace_equivalence.cpp's counterexample.
THEOREM WalkInvariant == Spec => []WalkInv
<1>1. WalkInv /\ [Next]_vars => WalkInv'
  <2> SUFFICES ASSUME WalkInv, [Next]_vars PROVE WalkInv'
    OBVIOUS
  <2>1. CASE Expand
    BY <2>1, ExpandInv DEF WalkInv
  <2>2. CASE FoundEquivalent
    BY <2>2, FoundEquivalentInv
  <2>3. CASE FoundDivergent
    BY <2>3, FoundDivergentInv
  <2>4. CASE Reconstruct
    BY <2>4, ReconstructInv
  <2>5. CASE UNCHANGED vars
    <3>1. UNCHANGED <<question, phase, root, parent, worklist, divergent, at, witness, equivalent>>
      BY <2>5 DEF vars
    <3>2. AtRoot => AtRoot'
      BY <3>1 DEF AtRoot, Initial, tau, psi
    <3>3. Walking => Walking'
      BY <3>1 DEF Walking
    <3>4. Tracing => Tracing'
      BY <3>1 DEF Tracing, Spelt
    <3> QED
      BY <3>1, <3>2, <3>3, <3>4 DEF WalkInv
  <2> QED
    BY <2>1, <2>2, <2>3, <2>4, <2>5 DEF Next
<1> QED
  BY <1>1, InitWalkInv, PTL DEF Spec

-----------------------------------------------------------------------------
(* What the walk promises.                                                  *)

\* VerdictComplete: when it answers, the walk has decided every non-empty word, also
\* those that only differ by leading back to the initial pair.
THEOREM VerdictDecides == Spec => []VerdictComplete
<1>1. WalkInv => VerdictComplete
  <2> SUFFICES ASSUME WalkInv, phase = "done"
               PROVE  equivalent <=> \A x \in ReachableFrom(AfterALetter) : (x[1] # SinkDst) = (x[2] \in psi.final)
    BY DEF VerdictComplete
  <2> DEFINE g == Graph(question)
             R == ReachableFrom(AfterALetter)
  <2>1. /\ IsGraph(g) /\ g.pairs = PairsOf(question)
        /\ g.bad = {y \in PairsOf(question) : TellsApart(question, y)}
    BY GraphOf DEF WalkInv
  <2>2. /\ R \subseteq PairsOf(question) /\ ClosedAfterALetter(g, R)
        /\ \A V \in SUBSET PairsOf(question) : ClosedAfterALetter(g, V) => R \subseteq V
    BY ReachableIsLeast DEF WalkInv
  <2>3. \A x \in R : x \notin g.bad <=> ((x[1] # SinkDst) = (x[2] \in psi.final))
    <3> SUFFICES ASSUME NEW x \in R
                 PROVE  x \notin g.bad <=> ((x[1] # SinkDst) = (x[2] \in psi.final))
      OBVIOUS
    <3>1. x \in g.bad <=> (x[1] # SinkDst <=> x[2] \notin psi.final)
      BY <2>1, <2>2 DEF TellsApart, psi
    <3> HIDE DEF g, R
    <3> QED
      BY <3>1
  <2>4. ~AtRoot
    BY DEF AtRoot
  <2> HIDE DEF g, R
  <2>5. CASE divergent = NoPair
    <3>1. Walking
      BY <2>4, <2>5 DEF WalkInv
    <3>2. /\ equivalent = TRUE /\ worklist = <<>>
          /\ \E d : Pointers(g, parent, d) /\ Walked(g, parent, worklist, d)
      BY <3>1 DEF Walking, g
    <3>3. PICK d : Pointers(g, parent, d) /\ Walked(g, parent, worklist, d)
      BY <3>2
    <3>4. \A y \in DOMAIN parent : ~Waits(worklist, y)
      BY <3>2 DEF Waits
    <3>5. \A y \in DOMAIN parent : \A l \in Letter : g.next[y][l] \in DOMAIN parent
      BY <3>3, <3>4 DEF Walked, LeadsOn
    <3>6. DOMAIN parent \in SUBSET PairsOf(question) /\ ClosedAfterALetter(g, DOMAIN parent)
      BY <2>1, <3>3, <3>5 DEF Pointers, Walked, ClosedAfterALetter, Successors
    <3>7. R \subseteq DOMAIN parent
      BY <2>2, <3>6
    <3>8. \A x \in R : x \notin g.bad
      BY <3>3, <3>7 DEF Walked
    <3> QED
      BY <2>3, <3>2, <3>8 DEF R
  <2>6. CASE divergent # NoPair
    <3>1. Tracing
      BY <2>6 DEF WalkInv
    <3>2. PICK d : Pointers(g, parent, d) /\ Spelt(d)
      BY <3>1 DEF Tracing, g
    <3>3. equivalent = FALSE /\ divergent \in DOMAIN parent /\ divergent \in g.bad
      BY <3>1 DEF Tracing, g
    <3>4. Leads(g, g.init, witness, divergent) /\ Len(witness) = d[divergent]
      BY <3>2 DEF Spelt, g
    <3>5. witness # <<>>
      <4>1. d[divergent] # 0
        BY <3>2, <3>3 DEF Pointers
      <4> QED
        BY <3>4, <4>1
    <3>6. divergent \in R
      BY <2>1, <2>2, <3>4, <3>5, LeadsInto
    <3> QED
      BY <2>3, <3>3, <3>6 DEF R
  <2> QED
    BY <2>5, <2>6
<1> QED
  BY <1>1, WalkInvariant, PTL

\* WitnessShortest: the counterexample is a non-empty word that one side has and the
\* other has not, and no shorter one tells the two apart.
THEOREM WitnessTellsApart == Spec => []WitnessShortest
<1>1. WalkInv => WitnessShortest
  <2> SUFFICES ASSUME WalkInv, phase = "done", ~equivalent
               PROVE  /\ witness # <<>> /\ Produces(witness) # Satisfies(witness)
                      /\ \A w \in UNION {[1 .. k -> Letter] : k \in 1 .. (Len(witness) - 1)} :
                           Produces(w) = Satisfies(w)
    BY DEF WitnessShortest
  <2> DEFINE g == Graph(question)
  <2>1. /\ IsGraph(g) /\ g.pairs = PairsOf(question)
        /\ g.bad = {y \in PairsOf(question) : TellsApart(question, y)}
    BY GraphOf DEF WalkInv
  <2>2. ~AtRoot /\ ~Walking
    BY DEF AtRoot, Walking
  <2>3. Tracing /\ question \in Questions
    BY <2>2 DEF WalkInv
  <2>4. PICK d : Pointers(g, parent, d) /\ NoneShorter(g, d[divergent]) /\ Spelt(d)
    BY <2>3 DEF Tracing
  <2>5. divergent \in g.bad /\ d[divergent] \in Nat /\ d[divergent] # 0
    BY <2>3, <2>4 DEF Tracing, Pointers
  <2>6. Leads(g, g.init, witness, divergent) /\ Len(witness) = d[divergent]
    BY <2>4 DEF Spelt
  \* What a run says of its word.
  <2>7. ASSUME NEW n \in Nat, NEW w \in [1 .. n -> Letter], NEW r, Run(g, g.init, n, w, r)
        PROVE  Produces(w) # Satisfies(w) <=> r[n] \in g.bad
    <3>1. Produces(w) <=> r[n][1] # SinkDst
      BY <2>3, <2>7, ProducesMeans
    <3>2. Satisfies(w) <=> r[n][2] \in psi.final
      BY <2>3, <2>7, SatisfiesMeans
    <3>3. r[n] \in PairsOf(question)
      BY <2>1, <2>7 DEF Run
    <3>4. r[n] \in g.bad <=> (r[n][1] # SinkDst <=> r[n][2] \notin psi.final)
      BY <2>1, <3>3 DEF TellsApart, psi
    <3>5. Produces(w) \in BOOLEAN /\ Satisfies(w) \in BOOLEAN
      BY DEF Produces, Satisfies
    <3> HIDE DEF g
    <3> QED
      BY <3>1, <3>2, <3>4, <3>5
  <2> HIDE DEF g
  <2>8. Produces(witness) # Satisfies(witness)
    <3>1. PICK r : Run(g, g.init, Len(witness), witness, r) /\ r[Len(witness)] = divergent
      BY <2>6 DEF Leads
    <3>2. Len(witness) \in Nat /\ witness \in [1 .. Len(witness) -> Letter]
      BY <2>6, LenProperties DEF Leads
    <3> QED
      BY <2>5, <2>7, <3>1, <3>2
  <2>9. ASSUME NEW k \in 1 .. (Len(witness) - 1), NEW w \in [1 .. k -> Letter]
        PROVE  Produces(w) = Satisfies(w)
    <3>1. k \in Nat /\ k # 0 /\ k < d[divergent]
      BY <2>5, <2>6
    <3>2. PICK r : Run(g, g.init, k, w, r)
      BY <2>1, <3>1, RunOfWord
    <3>3. r[k] \notin g.bad
      BY <2>4, <3>1, <3>2 DEF NoneShorter, g
    <3> QED
      BY <2>7, <3>1, <3>2, <3>3
  <2> QED
    BY <2>5, <2>6, <2>8, <2>9
<1> QED
  BY <1>1, WalkInvariant, PTL

===============================================================================
