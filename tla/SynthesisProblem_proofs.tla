------------------------ MODULE SynthesisProblem_proofs ------------------------
(***************************************************************************)
(* What the proofs about the methods share: minima and induction on the      *)
(* naturals, the orders of discovery, and the reference game.               *)
(***************************************************************************)
EXTENDS SolveDfa, SolveMtdfa, Interning, FiniteSetTheorems, SequenceTheorems, TLAPS

-----------------------------------------------------------------------------
(* Naturals and finite sets.                                                *)

\* First chooses the least element of a set of naturals that is not empty.
LEMMA FirstIsMember ==
  ASSUME NEW S \in SUBSET Nat, S # {}
  PROVE  First(S) \in S /\ \A m \in S : First(S) <= m
<1>1. \E x \in S : \A y \in S : ~ (<<y, x>> \in OpToRel(<, Nat))
  BY NatLessThanWellFounded, WFMin
<1>2. \E x \in S : \A y \in S : ~ (y < x)
  BY <1>1, Zenon DEF OpToRel
<1>3. \E x \in S : \A y \in S : x <= y
  BY <1>2
<1> QED  BY <1>3 DEF First

\* Induction over the naturals, for a set in place of a predicate.
LEMMA SetInduction ==
  ASSUME NEW S, 0 \in S, \A n \in Nat : n \in S => n + 1 \in S
  PROVE  Nat \subseteq S
<1> DEFINE T == Nat \ S
<1> SUFFICES ASSUME T # {} PROVE FALSE
  OBVIOUS
<1>1. First(T) \in T /\ \A m \in T : First(T) <= m
  BY FirstIsMember
<1>2. First(T) # 0 /\ First(T) - 1 \in Nat
  BY <1>1
<1>3. First(T) - 1 \in S
  BY <1>1, <1>2
<1> QED
  BY <1>1, <1>2, <1>3

\* What is defined by recursion on 0 .. n exists.
Runs(U, A, step, n) ==
  {w \in [0 .. n -> U] : w[0] = A /\ \A m \in 1 .. n : w[m] = step[m][w[m - 1]]}

LEMMA RunExists ==
  ASSUME NEW U, NEW A \in U, NEW n \in Nat, NEW step \in [1 .. n -> [U -> U]]
  PROVE  \E w : w \in Runs(U, A, step, n)
<1> DEFINE R(k, w) == w \in [0 .. k -> U] /\ w[0] = A /\ \A m \in 1 .. k : w[m] = step[m][w[m - 1]]
           S == {k \in Nat : k <= n => \E w : R(k, w)}
<1>1. 0 \in S
  <2>1. R(0, [m \in 0 .. 0 |-> A])
    OBVIOUS
  <2> QED
    BY <2>1
<1>2. ASSUME NEW k \in Nat, k \in S
      PROVE  k + 1 \in S
  <2> SUFFICES ASSUME k + 1 <= n PROVE \E w : R(k + 1, w)
    OBVIOUS
  <2>0. k <= n /\ k + 1 \in 1 .. n
    OBVIOUS
  <2>1. PICK w : R(k, w)
    BY <1>2, <2>0
  <2>6. step[k + 1][w[k]] \in U
    BY <2>0, <2>1
  <2> DEFINE v == [m \in 0 .. k + 1 |-> IF m = k + 1 THEN step[k + 1][w[k]] ELSE w[m]]
  <2>2. v \in [0 .. k + 1 -> U]
    <3>1. \A m \in 0 .. k + 1 : m = k + 1 \/ m \in 0 .. k
      OBVIOUS
    <3>2. k \in 0 .. k
      OBVIOUS
    <3> QED
      BY <2>1, <2>6, <3>1, <3>2
  <2>3. v[0] = A
    BY <2>1
  <2>4. ASSUME NEW m \in 1 .. k + 1
        PROVE  v[m] = step[m][v[m - 1]]
    <3>1. CASE m = k + 1
      <4>1. k + 1 \in 0 .. k + 1 /\ k \in 0 .. k + 1 /\ k # k + 1 /\ m - 1 = k
        BY <3>1
      <4>2. v[k + 1] = step[k + 1][w[k]] /\ v[k] = w[k]
        BY <4>1
      <4> HIDE DEF v
      <4> QED
        BY <3>1, <4>1, <4>2
    <3>2. CASE m # k + 1
      <4>1. m \in 1 .. k /\ m - 1 \in 0 .. k /\ m - 1 # k + 1 /\ m \in 0 .. k + 1 /\ m - 1 \in 0 .. k + 1
        BY <3>2
      <4>2. v[m] = w[m] /\ v[m - 1] = w[m - 1]
        BY <3>2, <4>1
      <4> QED
        BY <2>1, <4>1, <4>2
    <3> QED
      BY <3>1, <3>2
  <2>5. R(k + 1, v)
    BY <2>2, <2>3, <2>4
  <2> HIDE DEF R, v
  <2> QED
    BY <2>5
<1>3. n \in S
  <2> HIDE DEF R, S
  <2> QED
    BY <1>1, <1>2, SetInduction
<1>4. PICK w : R(n, w)
  BY <1>3
<1> QED
  BY <1>4 DEF Runs

\* A monotonic function on the subsets of D.
MonotoneStep(D, step) ==
  /\ step \in [SUBSET D -> SUBSET D]
  /\ \A V, W \in SUBSET D : V \subseteq W => step[V] \subseteq step[W]

\* Its iteration from A on, n times.
Rounds(D, A, step, n) ==
  {w \in [0 .. n -> SUBSET D] : w[0] = A /\ \A m \in 1 .. n : w[m] = step[w[m - 1]]}

\* The least set that contains A and is closed under the step.
LeastClosed(D, A, step, W) ==
  /\ W \in SUBSET D /\ A \subseteq W /\ step[W] \subseteq W
  /\ \A V \in SUBSET D : A \subseteq V /\ step[V] \subseteq V => W \subseteq V

LEMMA RoundsExist ==
  ASSUME NEW D, NEW A \in SUBSET D, NEW step, MonotoneStep(D, step), NEW n \in Nat
  PROVE  \E w : w \in Rounds(D, A, step, n)
<1> DEFINE U == SUBSET D
           next == [m \in 1 .. n |-> step]
<1>1. A \in U /\ next \in [1 .. n -> [U -> U]] /\ \A m \in 1 .. n : next[m] = step
  BY DEF MonotoneStep
<1> HIDE DEF U, next
<1>2. PICK w : w \in Runs(U, A, next, n)
  BY <1>1, RunExists
<1> QED
  BY <1>1, <1>2 DEF Runs, Rounds, U

\* Iterating it as often as D has members, or more often, reaches that set.
LEMMA LeastFixpoint ==
  ASSUME NEW D, IsFiniteSet(D), NEW A \in SUBSET D, NEW step, MonotoneStep(D, step), A \subseteq step[A],
         NEW n \in Nat, n >= Cardinality(D), NEW w \in Rounds(D, A, step, n)
  PROVE  LeastClosed(D, A, step, w[n])
<1> USE DEF MonotoneStep, Rounds
<1> DEFINE Grows(k) == A \subseteq w[k] /\ w[k] \subseteq step[w[k]]
           Settles(k) == step[w[k]] = w[k]
           S == {k \in Nat : k <= n => Grows(k) /\ (Settles(k) \/ Cardinality(w[k]) >= k)}
<1>0. \A k \in 0 .. n : w[k] \in SUBSET D /\ IsFiniteSet(w[k]) /\ Cardinality(w[k]) \in Nat
  BY FS_Subset, FS_CardinalityType
<1>1. 0 \in S
  BY <1>0
<1>2. ASSUME NEW k \in Nat, k \in S
      PROVE  k + 1 \in S
  <2> SUFFICES ASSUME k + 1 <= n
               PROVE  Grows(k + 1) /\ (Settles(k + 1) \/ Cardinality(w[k + 1]) >= k + 1)
    OBVIOUS
  <2>1. k \in 0 .. n /\ k + 1 \in 1 .. n /\ k + 1 \in 0 .. n /\ (k + 1) - 1 = k
    OBVIOUS
  <2>2. Grows(k) /\ (Settles(k) \/ Cardinality(w[k]) >= k)
    BY <1>2, <2>1
  <2>3. w[k + 1] = step[w[k]]
    BY <2>1
  <2>4. w[k] \in SUBSET D /\ w[k + 1] \in SUBSET D /\ w[k] \subseteq w[k + 1]
    BY <1>0, <2>1, <2>2, <2>3
  <2>5. Grows(k + 1)
    BY <2>2, <2>3, <2>4
  <2>6. CASE Settles(k)
    BY <2>3, <2>5, <2>6
  <2>7. CASE ~Settles(k)
    <3>1. w[k] # w[k + 1] /\ Cardinality(w[k]) >= k
      BY <2>2, <2>3, <2>7
    <3>2. Cardinality(w[k]) <= Cardinality(w[k + 1]) /\ Cardinality(w[k]) # Cardinality(w[k + 1])
      BY <1>0, <2>1, <2>4, <3>1, FS_Subset
    <3>3. Cardinality(w[k]) \in Nat /\ Cardinality(w[k + 1]) \in Nat
      BY <1>0, <2>1
    <3>4. Cardinality(w[k + 1]) >= k + 1
      BY <3>1, <3>2, <3>3
    <3> QED
      BY <2>5, <3>4
  <2> QED
    BY <2>6, <2>7
<1>3. Nat \subseteq S
  <2> HIDE DEF S
  <2> QED
    BY <1>1, <1>2, SetInduction
<1>4. Grows(n) /\ (Settles(n) \/ Cardinality(w[n]) >= n)
  BY <1>3
<1>5. step[w[n]] \subseteq w[n]
  <2>1. CASE Cardinality(w[n]) >= n
    <3>1. n \in 0 .. n
      OBVIOUS
    <3>2. Cardinality(w[n]) \in Nat /\ Cardinality(D) \in Nat /\ w[n] \in SUBSET D
      BY <1>0, <3>1, FS_CardinalityType
    <3>3. Cardinality(w[n]) <= Cardinality(D)
      BY <3>2, FS_Subset
    <3>4. Cardinality(D) = Cardinality(w[n])
      BY <2>1, <3>2, <3>3
    <3>5. w[n] = D
      BY <3>2, <3>4, FS_Subset
    <3> QED
      BY <3>5
  <2> QED
    BY <1>4, <2>1
<1>6. ASSUME NEW W \in SUBSET D, A \subseteq W, step[W] \subseteq W
      PROVE  w[n] \subseteq W
  <2> DEFINE L == {k \in Nat : k <= n => w[k] \subseteq W}
  <2>1. 0 \in L
    BY <1>6
  <2>2. ASSUME NEW k \in Nat, k \in L
        PROVE  k + 1 \in L
    <3> SUFFICES ASSUME k + 1 <= n PROVE w[k + 1] \subseteq W
      OBVIOUS
    <3>1. k \in 0 .. n /\ k + 1 \in 1 .. n /\ (k + 1) - 1 = k
      OBVIOUS
    <3>2. w[k + 1] = step[w[k]] /\ w[k] \subseteq W /\ w[k] \in SUBSET D
      BY <2>2, <3>1
    <3> QED
      BY <1>6, <3>2
  <2>3. Nat \subseteq L
    <3> HIDE DEF L
    <3> QED
      BY <2>1, <2>2, SetInduction
  <2> QED
    BY <2>3
<1> QED
  BY <1>0, <1>4, <1>5, <1>6 DEF LeastClosed

\* The results of 0, 1, ... n rounds, in one function.
LEMMA RoundsTogether ==
  ASSUME NEW D, NEW A, NEW step, NEW n \in Nat, NEW f, f = [m \in 0 .. n |-> f[m]],
         \A m \in 0 .. n : \E w \in Rounds(D, A, step, m) : f[m] = w[m]
  PROVE  f \in Rounds(D, A, step, n)
<1>1. \A m \in 0 .. n : f[m] \in SUBSET D
  <2> SUFFICES ASSUME NEW m \in 0 .. n PROVE f[m] \in SUBSET D
    OBVIOUS
  <2>1. PICK w \in Rounds(D, A, step, m) : f[m] = w[m]
    OBVIOUS
  <2>2. m \in 0 .. m
    OBVIOUS
  <2> QED
    BY <2>1, <2>2 DEF Rounds
<1>2. f[0] = A
  BY DEF Rounds
<1>3. ASSUME NEW m \in 1 .. n
      PROVE  f[m] = step[f[m - 1]]
  <2>1. m \in 0 .. n /\ m - 1 \in 0 .. n /\ m \in 1 .. m /\ m - 1 \in 0 .. m - 1
    OBVIOUS
  <2>2. PICK w \in Rounds(D, A, step, m) : f[m] = w[m]
    BY <2>1
  <2>3. PICK v \in Rounds(D, A, step, m - 1) : f[m - 1] = v[m - 1]
    BY <2>1
  <2> DEFINE S == {k \in Nat : k <= m - 1 => w[k] = v[k]}
  <2>4. 0 \in S
    BY <2>2, <2>3 DEF Rounds
  <2>5. ASSUME NEW k \in Nat, k \in S
        PROVE  k + 1 \in S
    <3> SUFFICES ASSUME k + 1 <= m - 1 PROVE w[k + 1] = v[k + 1]
      OBVIOUS
    <3>1. k + 1 \in 1 .. m /\ k + 1 \in 1 .. m - 1 /\ (k + 1) - 1 = k /\ w[k] = v[k]
      BY <2>5
    <3>2. w[k + 1] = step[w[(k + 1) - 1]] /\ v[k + 1] = step[v[(k + 1) - 1]]
      BY <2>2, <2>3, <3>1 DEF Rounds
    <3> QED
      BY <3>1, <3>2
  <2>6. Nat \subseteq S
    <3> HIDE DEF S
    <3> QED
      BY <2>4, <2>5, SetInduction
  <2>7. w[m - 1] = v[m - 1]
    BY <2>1, <2>6
  <2> QED
    BY <2>1, <2>2, <2>3, <2>7 DEF Rounds
<1> QED
  BY <1>1, <1>2, <1>3 DEF Rounds

\* Finitely many functions have a finite domain and values in a finite set.
LEMMA FunctionsFinite ==
  ASSUME NEW D, IsFiniteSet(D), NEW S, IsFiniteSet(S)
  PROVE  IsFiniteSet([D -> S])
<1> DEFINE F == [D -> S]
           G == SUBSET (D \X S)
           graphOf == [f0 \in F |-> {<<x, f0[x]>> : x \in D}]
<1>1. IsFiniteSet(G)
  BY FS_Product, FS_SUBSET
<1>2. \A f0 \in F : graphOf[f0] \in G
  OBVIOUS
<1>3. ASSUME NEW f0 \in F, NEW f1 \in F, graphOf[f0] = graphOf[f1]
      PROVE  f0 = f1
  <2>1. ASSUME NEW x \in D
        PROVE  f0[x] = f1[x]
    <3>1. <<x, f0[x]>> \in graphOf[f1]
      BY <1>3
    <3> QED
      BY <3>1
  <2> QED
    BY <2>1
<1>4. graphOf \in Injection(F, G)
  <2> HIDE DEF G
  <2>1. graphOf \in [F -> G]
    BY <1>2
  <2> HIDE DEF graphOf, F
  <2>2. DOMAIN graphOf = F
    BY <2>1
  <2>3. \A x, y \in DOMAIN graphOf : graphOf[x] = graphOf[y] => x = y
    BY <1>3, <2>2
  <2> QED
    BY <2>1, <2>3 DEF Injection, IsInjective
<1> QED
  BY <1>1, <1>4, FS_Injection

\* An order of a finite set lists each of its elements at exactly one place.
LEMMA OrdersEnumerate ==
  ASSUME NEW S, IsFiniteSet(S), NEW ns \in Orders(S)
  PROVE  /\ Cardinality(S) \in Nat
         /\ ns \in Seq(S) /\ Len(ns) = Cardinality(S)
         /\ ns \in [1 .. Cardinality(S) -> S]
         /\ \A x \in S : \E n \in 1 .. Cardinality(S) : ns[n] = x
         /\ \A m, n \in 1 .. Cardinality(S) : ns[m] = ns[n] => m = n
<1> DEFINE c == Cardinality(S)
<1>1. c \in Nat
  BY FS_CardinalityType
<1>2. ns \in [1 .. c -> S] /\ \A m, n \in 1 .. c : ns[m] = ns[n] => m = n
  BY DEF Orders, IsInjective
<1>3. ns \in Injection(1 .. c, S)
  BY DEF Injection, Orders
<1>4. Cardinality(1 .. c) = c
  BY <1>1, FS_Interval
<1>5. ns \in Surjection(1 .. c, S)
  BY <1>3, <1>4, FS_Injection
<1>6. ns \in Seq(S) /\ Len(ns) = c
  <2> HIDE DEF c
  <2>1. ns \in Seq(S)
    BY <1>1, <1>2, SeqDef
  <2>2. DOMAIN ns = 1 .. Len(ns) /\ Len(ns) \in Nat
    BY <2>1, LenProperties
  <2> QED  BY <1>1, <1>2, <2>1, <2>2
<1> QED  BY <1>1, <1>2, <1>5, <1>6 DEF Surjection

\* A finite set can be enumerated.
LEMMA OrderExists ==
  ASSUME NEW S, IsFiniteSet(S)
  PROVE  \E ns : ns \in Orders(S)
<1>1. PICK ns : ns \in Bijection(1 .. Cardinality(S), S)
  BY FS_CardinalityType DEF ExistsBijection
<1> QED
  BY <1>1 DEF Bijection, Injection, Orders, IsInjective

\* x is in the worklist w.
Waits(w, x) == \E n \in DOMAIN w : w[n] = x

\* Taking the head of a worklist and appending what it discovers leaves every other
\* member waiting.
LEMMA WorklistStep ==
  ASSUME NEW D, NEW w \in Seq(D), w # <<>>, NEW new, IsFiniteSet(new), NEW ns \in Orders(new)
  PROVE  /\ Head(w) \in D /\ Tail(w) \in Seq(D) /\ Tail(w) \o ns \in Seq(D \cup new)
         /\ \A x \in new : Waits(Tail(w) \o ns, x)
         /\ \A x : Waits(w, x) /\ x # Head(w) => Waits(Tail(w) \o ns, x)
<1> DEFINE v == Tail(w) \o ns
<1>1. /\ Len(w) \in Nat /\ DOMAIN w = 1 .. Len(w) /\ Len(w) # 0
      /\ Head(w) \in D /\ Head(w) = w[1]
      /\ Tail(w) \in Seq(D) /\ Len(Tail(w)) = Len(w) - 1
      /\ \A n \in 1 .. Len(w) - 1 : Tail(w)[n] = w[n + 1]
  BY HeadTailProperties, LenProperties, EmptySeq
<1>2. /\ ns \in Seq(new) /\ Len(ns) \in Nat
      /\ \A x \in new : \E n \in 1 .. Len(ns) : ns[n] = x
  BY OrdersEnumerate
<1>3. Tail(w) \in Seq(D \cup new) /\ ns \in Seq(D \cup new)
  BY <1>1, <1>2, SeqMonotonic
<1>4. /\ v \in Seq(D \cup new) /\ Len(v) = Len(Tail(w)) + Len(ns)
      /\ \A n \in 1 .. Len(Tail(w)) + Len(ns) :
           v[n] = IF n <= Len(Tail(w)) THEN Tail(w)[n] ELSE ns[n - Len(Tail(w))]
  BY <1>3, ConcatProperties
<1> HIDE DEF v
<1> DEFINE c == Len(Tail(w))
<1>5. DOMAIN v = 1 .. c + Len(ns) /\ c \in Nat /\ c = Len(w) - 1
  BY <1>1, <1>4, LenProperties
<1> HIDE DEF c
<1>6. ASSUME NEW x \in new
      PROVE  Waits(v, x)
  <2>1. PICK n \in 1 .. Len(ns) : ns[n] = x
    BY <1>2
  <2>2. n + c \in 1 .. c + Len(ns) /\ ~ (n + c <= c) /\ (n + c) - c = n
    <3>1. Len(ns) \in Nat /\ c \in Nat
      BY <1>2, <1>5
    <3> QED
      BY <3>1
  <2>3. v[n + c] = x
    BY <1>4, <2>1, <2>2 DEF c
  <2> QED
    BY <1>5, <2>2, <2>3 DEF Waits
<1>7. ASSUME NEW x, Waits(w, x), x # Head(w)
      PROVE  Waits(v, x)
  <2>1. PICK n \in 1 .. Len(w) : w[n] = x
    BY <1>1, <1>7 DEF Waits
  <2>2. n # 1
    BY <1>1, <1>7, <2>1
  <2>3. /\ n - 1 \in 1 .. Len(w) - 1 /\ (n - 1) + 1 = n
        /\ n - 1 \in 1 .. c + Len(ns) /\ n - 1 <= c
    <3>1. Len(w) \in Nat /\ Len(ns) \in Nat /\ c = Len(w) - 1
      BY <1>1, <1>2, <1>5
    <3> QED
      BY <2>2, <3>1
  <2>4. v[n - 1] = Tail(w)[n - 1]
    BY <1>4, <2>3 DEF c
  <2>5. v[n - 1] = x
    BY <1>1, <2>1, <2>3, <2>4
  <2> QED
    BY <1>5, <2>3, <2>5 DEF Waits
<1> QED
  BY <1>1, <1>4, <1>6, <1>7 DEF v

-----------------------------------------------------------------------------
(* Interning.                                                               *)

\* Interning keeps the old indices and numbers the new keys from the size on.
Interned(index, D, S, ns) ==
  /\ Intern(index, ns) \in [D \cup S -> Nat]
  /\ IsFiniteSet(D \cup S)
  /\ Cardinality(D) \in Nat /\ Cardinality(S) \in Nat
  /\ Cardinality(D \cup S) = Cardinality(D) + Cardinality(S)
  /\ \A x \in D : Intern(index, ns)[x] = index[x]
  /\ \A n \in 1 .. Cardinality(S) : Intern(index, ns)[ns[n]] = Cardinality(D) + n - 1

LEMMA InternProperties ==
  ASSUME NEW index, NEW D, IsFiniteSet(D), index \in [D -> Nat],
         NEW S, IsFiniteSet(S), S \cap D = {}, NEW ns \in Orders(S)
  PROVE  Interned(index, D, S, ns)
<1> DEFINE new == Intern(index, ns)
<1>1. /\ Cardinality(D) \in Nat
      /\ Cardinality(S) \in Nat
      /\ IsFiniteSet(D \cup S)
      /\ Cardinality(D \cup S) = Cardinality(D) + Cardinality(S)
  <2>1. Cardinality(D) \in Nat /\ Cardinality(S) \in Nat
    BY FS_CardinalityType
  <2>2. Cardinality(D \cap S) = 0
    <3>1. D \cap S = {}
      OBVIOUS
    <3> QED  BY <3>1, FS_EmptySet
  <2>3. /\ IsFiniteSet(D \cup S)
        /\ Cardinality(D \cup S) = Cardinality(D) + Cardinality(S) - Cardinality(D \cap S)
    BY FS_Union
  <2> QED  BY <2>1, <2>2, <2>3
<1>2. DOMAIN index = D
  OBVIOUS
<1>3. Range(ns) = S /\ DOMAIN ns = 1 .. Cardinality(S)
  BY OrdersEnumerate DEF Range
<1>4. new = [x \in D \cup S |-> IF x \in D THEN index[x]
               ELSE Cardinality(D) + (CHOOSE n \in 1 .. Cardinality(S) : ns[n] = x) - 1]
  BY <1>2, <1>3 DEF Intern
<1>5. \A x \in D : new[x] = index[x]
  BY <1>4
<1>6. ASSUME NEW n \in 1 .. Cardinality(S)
      PROVE  new[ns[n]] = Cardinality(D) + n - 1
  <2>1. ns[n] \in S /\ ns[n] \notin D
    BY OrdersEnumerate
  <2>2. (CHOOSE m \in 1 .. Cardinality(S) : ns[m] = ns[n]) = n
    BY OrdersEnumerate
  <2> QED  BY <1>4, <2>1, <2>2
<1>7. new \in [D \cup S -> Nat]
  <2>1. \A x \in S : new[x] \in Nat
    <3> SUFFICES ASSUME NEW x \in S  PROVE new[x] \in Nat
      OBVIOUS
    <3>1. PICK n \in 1 .. Cardinality(S) : ns[n] = x
      BY OrdersEnumerate
    <3>2. new[x] = Cardinality(D) + n - 1
      BY <1>6, <3>1
    <3> HIDE DEF new
    <3> QED  BY <1>1, <3>2
  <2> QED  BY <1>4, <1>5, <2>1
<1> QED  BY <1>1, <1>5, <1>6, <1>7 DEF Interned

\* Every index is below the number of stored keys.
LEMMA IndexBound ==
  ASSUME NEW D, NEW index \in [D -> Nat], NEW queue \in Seq(D), NEW n \in Nat,
         Cardinality(D) = n + Len(queue),
         \A m \in DOMAIN queue : index[queue[m]] = n + m - 1,
         \A key \in D : index[key] < n \/ \E m \in DOMAIN queue : queue[m] = key
  PROVE  \A key \in D : index[key] < Cardinality(D)
<1>1. Len(queue) \in Nat /\ DOMAIN queue = 1 .. Len(queue)
  BY LenProperties
<1> QED  BY <1>1

\* The table index numbers the keys in the order in which they leave the queue: n
\* have left it, the others wait with the numbers that follow.
QueueOrder(index, queue, n) ==
  /\ n \in Nat /\ index \in [DOMAIN index -> Nat] /\ IsFiniteSet(DOMAIN index)
  /\ queue \in Seq(DOMAIN index)
  /\ Cardinality(DOMAIN index) = n + Len(queue)
  /\ \A m \in DOMAIN queue : index[queue[m]] = n + m - 1
  /\ \A x \in DOMAIN index : index[x] < n \/ Waits(queue, x)
  /\ \A x, y \in DOMAIN index : index[x] = index[y] => x = y

Undiscovered(index, S) == IsFiniteSet(S) /\ S \cap DOMAIN index = {}

InternedNext(index, queue, n, S, ns) ==
  /\ QueueOrder(Intern(index, ns), Tail(queue) \o ns, n + 1)
  /\ DOMAIN Intern(index, ns) = DOMAIN index \cup S
  /\ \A x \in DOMAIN index : Intern(index, ns)[x] = index[x]
  /\ \A x \in S : Intern(index, ns)[x] > n
  /\ Head(queue) \in DOMAIN index /\ index[Head(queue)] = n

\* Expanding the head of the queue and interning what it discovers keeps that order,
\* and the numbers given.
LEMMA InternStep ==
  ASSUME NEW index, NEW queue, NEW n, QueueOrder(index, queue, n), queue # <<>>,
         NEW S, Undiscovered(index, S), NEW ns \in Orders(S)
  PROVE  InternedNext(index, queue, n, S, ns)
<1> DEFINE D    == DOMAIN index
           more == Intern(index, ns)
           next == Tail(queue) \o ns
           c    == Len(queue) - 1
           k    == Cardinality(S)
<1>1. /\ n \in Nat /\ index \in [D -> Nat] /\ IsFiniteSet(D) /\ queue \in Seq(D)
      /\ Cardinality(D) = n + Len(queue)
      /\ \A m \in DOMAIN queue : index[queue[m]] = n + m - 1
      /\ \A x \in D : index[x] < n \/ Waits(queue, x)
      /\ \A x, y \in D : index[x] = index[y] => x = y
  BY DEF QueueOrder
<1>2. /\ Len(queue) \in Nat \ {0} /\ DOMAIN queue = 1 .. Len(queue)
      /\ Head(queue) \in D /\ Head(queue) = queue[1]
      /\ Tail(queue) \in Seq(D) /\ Len(Tail(queue)) = c
      /\ \A m \in 1 .. c : Tail(queue)[m] = queue[m + 1]
  <2> HIDE DEF D
  <2> QED
    BY <1>1, HeadTailProperties, LenProperties, EmptySeq
<1>3. c \in Nat /\ Len(queue) = c + 1
  BY <1>2
<1>4. /\ more \in [D \cup S -> Nat] /\ IsFiniteSet(D \cup S)
      /\ k \in Nat /\ Cardinality(D \cup S) = Cardinality(D) + k
      /\ \A x \in D : more[x] = index[x]
      /\ \A m \in 1 .. k : more[ns[m]] = Cardinality(D) + m - 1
  <2> HIDE DEF D
  <2>1. S \cap D = {} /\ IsFiniteSet(D) /\ index \in [D -> Nat] /\ IsFiniteSet(S)
    BY <1>1 DEF D, Undiscovered
  <2>2. Interned(index, D, S, ns)
    BY <2>1, InternProperties
  <2> QED
    BY <2>2 DEF Interned
<1>5. /\ ns \in Seq(S) /\ Len(ns) = k
      /\ \A x \in S : \E m \in 1 .. k : ns[m] = x
      /\ \A l, m \in 1 .. k : ns[l] = ns[m] => l = m
  BY OrdersEnumerate DEF Undiscovered
<1>6. /\ next \in Seq(D \cup S) /\ Len(next) = c + k /\ DOMAIN next = 1 .. c + k
      /\ \A m \in 1 .. c + k : next[m] = IF m <= c THEN Tail(queue)[m] ELSE ns[m - c]
  <2>1. Tail(queue) \in Seq(D \cup S) /\ ns \in Seq(D \cup S)
    BY <1>2, <1>5, SeqMonotonic
  <2> HIDE DEF D, k, c
  <2>2. /\ next \in Seq(D \cup S)
        /\ Len(next) = Len(Tail(queue)) + Len(ns)
        /\ \A m \in 1 .. Len(Tail(queue)) + Len(ns) :
             next[m] = IF m <= Len(Tail(queue)) THEN Tail(queue)[m] ELSE ns[m - Len(Tail(queue))]
    BY <2>1, ConcatProperties
  <2>3. DOMAIN next = 1 .. Len(next)
    BY <2>2, LenProperties
  <2> QED
    BY <1>2, <1>5, <2>2, <2>3
<1>7. DOMAIN more = D \cup S
  BY <1>4
<1> HIDE DEF D, more, next, c, k
<1>8. Cardinality(D) = n + c + 1
  BY <1>1, <1>3
<1>9. \A m \in 1 .. k : more[ns[m]] = n + c + m
  BY <1>1, <1>3, <1>4, <1>8
<1>10. \A x \in S : \E m \in 1 .. k : x = ns[m] /\ more[x] = n + c + m
  BY <1>5, <1>9
<1>11. index[Head(queue)] = n
  <2>1. 1 \in DOMAIN queue /\ Head(queue) = queue[1]
    BY <1>2
  <2>2. index[queue[1]] = n + 1 - 1
    BY <1>1, <2>1
  <2> QED
    BY <1>1, <2>1, <2>2
<1>12. \A x \in S : more[x] > n
  BY <1>1, <1>3, <1>10
<1>13. ASSUME NEW m \in 1 .. c + k
       PROVE  more[next[m]] = n + 1 + m - 1
  <2>1. CASE m <= c
    <3>1. m + 1 \in 1 .. Len(queue) /\ m \in 1 .. c
      BY <1>3, <1>4, <2>1
    <3>2. next[m] = queue[m + 1]
      BY <1>2, <1>6, <2>1, <3>1
    <3>3. queue[m + 1] \in D /\ index[queue[m + 1]] = n + (m + 1) - 1
      BY <1>1, <1>2, <3>1, ElementOfSeq
    <3>4. more[next[m]] = n + (m + 1) - 1
      BY <1>4, <3>2, <3>3
    <3> QED
      BY <1>1, <3>1, <3>4
  <2>2. CASE ~ (m <= c)
    <3>1. m - c \in 1 .. k
      BY <1>3, <1>4, <2>2
    <3>2. next[m] = ns[m - c]
      BY <1>6, <2>2
    <3>3. more[next[m]] = n + c + (m - c)
      BY <1>9, <3>1, <3>2
    <3> QED
      BY <1>1, <1>3, <1>4, <3>3
  <2> QED
    BY <2>1, <2>2
<1>14. ASSUME NEW x \in D \cup S
       PROVE  more[x] < n + 1 \/ Waits(next, x)
  <2>1. CASE x \in S
    <3>1. PICK m \in 1 .. k : ns[m] = x
      BY <1>5, <2>1
    <3>2. m + c \in 1 .. c + k /\ ~ (m + c <= c) /\ (m + c) - c = m
      BY <1>3, <1>4
    <3>3. next[m + c] = x
      BY <1>6, <3>1, <3>2
    <3> QED
      BY <1>6, <3>2, <3>3 DEF Waits
  <2>2. CASE x \in D /\ index[x] < n
    <3>1. more[x] < n
      BY <1>4, <2>2
    <3>2. more[x] \in Nat
      BY <1>4
    <3> QED
      BY <1>1, <3>1, <3>2
  <2>3. CASE x \in D /\ Waits(queue, x)
    <3>1. PICK m \in 1 .. Len(queue) : queue[m] = x
      BY <1>2, <2>3 DEF Waits
    <3>2. CASE m = 1
      <4>1. more[x] = n
        BY <1>2, <1>4, <1>11, <2>3, <3>1, <3>2
      <4> QED
        BY <1>1, <4>1
    <3>3. CASE m # 1
      <4>1. m - 1 \in 1 .. c /\ m - 1 \in 1 .. c + k /\ m - 1 <= c /\ (m - 1) + 1 = m
        BY <1>3, <1>4, <3>3
      <4>2. next[m - 1] = x
        BY <1>2, <1>6, <3>1, <4>1
      <4> QED
        BY <1>6, <4>1, <4>2 DEF Waits
    <3> QED
      BY <3>2, <3>3
  <2> QED
    BY <1>1, <2>1, <2>2, <2>3
<1>15. \A x \in D : more[x] < n + c + 1
  <2>1. \A m \in DOMAIN queue : index[queue[m]] = n + m - 1
    BY <1>1
  <2>2. ASSUME NEW x \in D
        PROVE  more[x] < n + c + 1
    <3>1. CASE index[x] < n
      <4>1. more[x] = index[x] /\ index[x] \in Nat
        BY <1>1, <1>4
      <4> QED
        BY <1>1, <1>3, <3>1, <4>1
    <3>2. CASE Waits(queue, x)
      <4>1. PICK m \in 1 .. Len(queue) : queue[m] = x
        BY <1>2, <3>2 DEF Waits
      <4>2. more[x] = n + m - 1
        BY <1>2, <1>4, <2>1, <4>1
      <4> QED
        BY <1>1, <1>3, <4>1, <4>2
    <3> QED
      BY <1>1, <3>1, <3>2
  <2> QED
    BY <2>2
<1>16. ASSUME NEW x \in D \cup S, NEW y \in D \cup S, more[x] = more[y]
       PROVE  x = y
  <2>1. \A z \in S : more[z] >= n + c + 1
    BY <1>1, <1>3, <1>10
  <2>2. more[x] \in Nat /\ more[y] \in Nat
    BY <1>4
  <2>3. CASE x \in D /\ y \in D
    BY <1>1, <1>4, <1>16, <2>3
  <2>4. CASE x \in S /\ y \in S
    <3>1. PICK l \in 1 .. k : x = ns[l] /\ more[x] = n + c + l
      BY <1>10, <2>4
    <3>2. PICK m \in 1 .. k : y = ns[m] /\ more[y] = n + c + m
      BY <1>10, <2>4
    <3>3. l = m
      BY <1>1, <1>3, <1>16, <3>1, <3>2
    <3> QED
      BY <3>1, <3>2, <3>3
  <2>5. ~ (x \in D /\ y \in S) /\ ~ (x \in S /\ y \in D)
    BY <1>1, <1>3, <1>15, <1>16, <2>1, <2>2
  <2> QED
    BY <2>3, <2>4, <2>5
<1>17. Cardinality(D \cup S) = n + 1 + Len(next)
  BY <1>1, <1>3, <1>4, <1>6, <1>8
<1>18. n + 1 \in Nat
  BY <1>1
<1>19. QueueOrder(more, next, n + 1)
  BY <1>4, <1>6, <1>7, <1>13, <1>14, <1>16, <1>17, <1>18 DEF QueueOrder
<1> QED
  BY <1>2, <1>4, <1>7, <1>11, <1>12, <1>19 DEF D, more, next, InternedNext

-----------------------------------------------------------------------------
(* The reference game.                                                      *)

\* A step of every transducer on an agreeing letter leads to a vector again.
LEMMA DeltaType ==
  ASSUME NEW p, WellFormed(p), NEW q \in Vectors(p), NEW l, DeltaDefined(p, q, l)
  PROVE  Delta(p, q, l) \in Vectors(p)
<1>1. ASSUME NEW t \in DOMAIN p.taus
      PROVE  p.taus[t].edges[q[t]][First(Matching(p.taus[t], q[t], l))].dst \in p.taus[t].states
  <2> DEFINE es == p.taus[t].edges[q[t]]
  <2>1. q[t] \in p.taus[t].states
    BY DEF Vectors
  <2>2. p.taus[t].edges \in [p.taus[t].states -> Seq([guard : SUBSET Letter, dst : p.taus[t].states])]
    BY DEF WellFormed, IsTransducer, Transducers
  <2>3. es \in Seq([guard : SUBSET Letter, dst : p.taus[t].states])
    BY <2>1, <2>2
  <2>4. Matching(p.taus[t], q[t], l) \subseteq DOMAIN es
    BY DEF Matching
  <2>5. First(Matching(p.taus[t], q[t], l)) \in DOMAIN es
    <3>1. DOMAIN es \subseteq Nat
      BY <2>3, LenProperties
    <3>2. Matching(p.taus[t], q[t], l) # {}
      BY DEF DeltaDefined
    <3> QED  BY <2>4, <3>1, <3>2, FirstIsMember
  <2> HIDE DEF es
  <2>6. es[First(Matching(p.taus[t], q[t], l))] \in [guard : SUBSET Letter, dst : p.taus[t].states]
    BY <2>3, <2>5, LenProperties, ElementOfSeq
  <2> QED  BY <2>6 DEF es
<1> QED  BY <1>1 DEF Delta, Vectors

LEMMA InitialVectorType ==
  ASSUME NEW p, WellFormed(p)
  PROVE  InitialVector(p) \in Vectors(p)
<1>1. \A t \in DOMAIN p.taus : p.taus[t].init \in p.taus[t].states
  BY DEF WellFormed, IsTransducer, Transducers
<1> QED  BY <1>1 DEF InitialVector, Vectors

\* The residual of a "next" leaf is a formula of the problem.
LEMMA NextFormula ==
  ASSUME NEW p, WellFormed(p), NEW psi \in p.formulas, NEW l \in Letter,
         p.progress[psi][l].kind = "next"
  PROVE  /\ p.progress[psi][l].psi \in p.formulas
         /\ p.progress[psi][l].last \in BOOLEAN
<1>1. p.progress[psi][l] \in Cells(p.formulas)
  BY DEF WellFormed
<1> QED  BY <1>1 DEF Cells, FalseCell, TrueCell, NextCell

\* The leaves of a progression row.
LEMMA CellKind ==
  ASSUME NEW p, WellFormed(p), NEW psi \in p.formulas, NEW l \in Letter,
         p.progress[psi][l].kind # "next"
  PROVE  p.progress[psi][l] \in {FalseCell, TrueCell}
<1>1. p.progress[psi][l] \in Cells(p.formulas)
  BY DEF WellFormed
<1> QED  BY <1>1 DEF Cells, NextCell

\* Playing an agreeing letter from a reachable position leads to a reachable one.
LEMMA ReachableClosed ==
  ASSUME NEW p, WellFormed(p), NEW s \in Reachable(p),
         NEW l \in Agreeing(p, s[2]), p.progress[s[1]][l].kind = "next"
  PROVE  <<p.progress[s[1]][l].psi, Delta(p, s[2], l)>> \in Reachable(p)
<1> DEFINE all   == Positions(p)
           moves == UNION {{<<x, r>> : r \in UNION {Moves(p, x, i) : i \in IFree}} : x \in all}
           next  == <<p.progress[s[1]][l].psi, Delta(p, s[2], l)>>
<1>1. s \in all
  BY DEF Reachable
<1>2. /\ s[1] \in p.formulas
      /\ s[2] \in Vectors(p)
  BY <1>1 DEF Positions
<1>3. /\ l \in Letter
      /\ DeltaDefined(p, s[2], l)
  BY DEF Agreeing, Emitted
<1>4. next \in all
  BY <1>2, <1>3, NextFormula, DeltaType DEF Positions
<1>5. l.i \in IFree
  BY <1>3 DEF Letter
<1>6. next \in Moves(p, s, l.i)
  BY DEF Moves
<1>7. <<s, next>> \in moves
  BY <1>1, <1>5, <1>6
<1>8. ASSUME NEW S \in SUBSET all, InitialPosition(p) \in S,
             \A m \in moves : m[1] \in S => m[2] \in S
      PROVE  next \in S
  <2>1. s \in S
    BY <1>8 DEF Reachable
  <2>2. <<s, next>>[1] \in S => <<s, next>>[2] \in S
    BY <1>7, <1>8
  <2> QED  BY <2>1, <2>2
<1> QED  BY <1>4, <1>8 DEF Reachable

LEMMA InitialReachable ==
  ASSUME NEW p, WellFormed(p)
  PROVE  InitialPosition(p) \in Reachable(p)
<1>1. InitialPosition(p) \in Positions(p)
  BY InitialVectorType DEF InitialPosition, Positions, WellFormed
<1> QED  BY <1>1 DEF Reachable

\* A set of positions that holds the initial one and is closed under the moves
\* holds every reachable one.
LEMMA ReachableLeast ==
  ASSUME NEW p, NEW S \in SUBSET Positions(p), InitialPosition(p) \in S,
         \A s \in S : \A i \in IFree : Moves(p, s, i) \subseteq S
  PROVE  Reachable(p) \subseteq S
<1> DEFINE all   == Positions(p)
           moves == UNION {{<<x, r>> : r \in UNION {Moves(p, x, i) : i \in IFree}} : x \in all}
<1>1. ASSUME NEW m \in moves, m[1] \in S
      PROVE  m[2] \in S
  <2>1. PICK x \in all : m \in {<<x, r>> : r \in UNION {Moves(p, x, i) : i \in IFree}}
    OBVIOUS
  <2>2. PICK r \in UNION {Moves(p, x, i) : i \in IFree} : m = <<x, r>>
    BY <2>1
  <2>3. PICK i \in IFree : r \in Moves(p, x, i)
    OBVIOUS
  <2> QED
    BY <1>1, <2>2, <2>3
<1>2. S \in {T \in SUBSET all : InitialPosition(p) \in T /\ \A m \in moves : m[1] \in T => m[2] \in T}
  BY <1>1
<1> QED
  BY <1>2 DEF Reachable

\* A leaf the system may stop at.
LEMMA StopMeans ==
  ASSUME NEW p, WellFormed(p), NEW psi \in p.formulas, NEW l \in Letter
  PROVE  (\E chi \in p.formulas : p.progress[psi][l] = NextCell(chi, TRUE))
           <=> p.progress[psi][l].kind = "next" /\ p.progress[psi][l].last = TRUE
<1> DEFINE c == p.progress[psi][l]
<1>1. c \in Cells(p.formulas)
  BY DEF WellFormed
<1> HIDE DEF c
<1>2. CASE c \in {FalseCell, TrueCell}
  <2>1. c.kind # "next"
    BY <1>2 DEF FalseCell, TrueCell
  <2>2. \A chi : NextCell(chi, TRUE).kind = "next"
    BY DEF NextCell
  <2> QED
    BY <2>1, <2>2 DEF c
<1>3. CASE \E chi \in p.formulas, b \in BOOLEAN : c = NextCell(chi, b)
  <2>1. PICK chi \in p.formulas, b \in BOOLEAN : c = NextCell(chi, b)
    BY <1>3
  <2>2. c.kind = "next" /\ c.last = b
    BY <2>1 DEF NextCell
  <2>3. \A x : NextCell(x, TRUE).last = TRUE
    BY DEF NextCell
  <2> QED
    BY <2>1, <2>2, <2>3 DEF c
<1>4. c \in {FalseCell, TrueCell} \/ \E chi \in p.formulas, b \in BOOLEAN : c = NextCell(chi, b)
  <2>1. c \in {FalseCell, TrueCell} \cup {NextCell(chi, b) : chi \in p.formulas, b \in BOOLEAN}
    BY <1>1 DEF Cells
  <2>2. CASE c \in {NextCell(chi, b) : chi \in p.formulas, b \in BOOLEAN}
    BY <2>2
  <2> QED
    BY <2>1, <2>2
<1> QED
  BY <1>2, <1>3, <1>4

\* What the system can do at a position, read off the letters.
LEMMA PositionMeans ==
  ASSUME NEW p, WellFormed(p), NEW psi \in p.formulas, NEW q \in Vectors(p)
  PROVE  /\ <<psi, q>> \in Positions(p)
         /\ \A i : Stops(p, <<psi, q>>, i) <=>
              \E l \in Agreeing(p, q) :
                /\ l.i = i
                /\ \/ p.progress[psi][l] = TrueCell
                   \/ p.progress[psi][l].kind = "next" /\ p.progress[psi][l].last = TRUE
         /\ \A i, r : r \in Moves(p, <<psi, q>>, i) <=>
              \E l \in Agreeing(p, q) :
                l.i = i /\ p.progress[psi][l].kind = "next" /\ r = <<p.progress[psi][l].psi, Delta(p, q, l)>>
<1> DEFINE s == <<psi, q>>
<1>1. s[1] = psi /\ s[2] = q
  OBVIOUS
<1>2. s \in Positions(p)
  BY DEF Positions
<1>3. Agreeing(p, q) \subseteq Letter
  BY DEF Agreeing, Emitted
<1>4. \A l \in Letter : (\E chi \in p.formulas : p.progress[psi][l] = NextCell(chi, TRUE))
        <=> p.progress[psi][l].kind = "next" /\ p.progress[psi][l].last = TRUE
  BY StopMeans
<1> HIDE DEF s
<1>5. \A i : Stops(p, s, i) <=>
        \E l \in Agreeing(p, q) :
          l.i = i /\ (p.progress[psi][l] = TrueCell
                     \/ (p.progress[psi][l].kind = "next" /\ p.progress[psi][l].last = TRUE))
  BY <1>1, <1>3, <1>4 DEF Stops
<1>6. \A i, r : r \in Moves(p, s, i) <=>
        \E l \in Agreeing(p, q) :
          l.i = i /\ p.progress[psi][l].kind = "next" /\ r = <<p.progress[psi][l].psi, Delta(p, q, l)>>
  BY <1>1 DEF Moves
<1> QED
  BY <1>2, <1>5, <1>6 DEF s

\* The positions from which the system can stop or move into W, whatever i.
Forces(p, s, W) == \A i \in IFree : Stops(p, s, i) \/ \E r \in W : r \in Moves(p, s, i)

LEMMA SystemWinsMeans ==
  ASSUME NEW p
  PROVE  SystemWins(p) <=>
           \A W \in SUBSET Positions(p) :
             (\A s \in Positions(p) : Forces(p, s, W) => s \in W) => InitialPosition(p) \in W
<1> DEFINE all == Positions(p)
           stops == {x \in all \X IFree : Stops(p, x[1], x[2])}
           moves == UNION {{<<x[1], x[2], r>> : r \in Moves(p, x[1], x[2])} : x \in all \X IFree}
<1>1. ASSUME NEW s \in all, NEW i \in IFree
      PROVE  /\ <<s, i>> \in stops <=> Stops(p, s, i)
             /\ \A r : <<s, i, r>> \in moves <=> r \in Moves(p, s, i)
  <2>1. <<s, i>> \in all \X IFree /\ <<s, i>>[1] = s /\ <<s, i>>[2] = i
    OBVIOUS
  <2>2. ASSUME NEW r, <<s, i, r>> \in moves
        PROVE  r \in Moves(p, s, i)
    <3>1. PICK x \in all \X IFree : <<s, i, r>> \in {<<x[1], x[2], y>> : y \in Moves(p, x[1], x[2])}
      BY <2>2
    <3>2. PICK y \in Moves(p, x[1], x[2]) : <<s, i, r>> = <<x[1], x[2], y>>
      BY <3>1
    <3>3. x[1] = s /\ x[2] = i /\ y = r
      BY <3>2
    <3> QED
      BY <3>2, <3>3
  <2>3. ASSUME NEW r \in Moves(p, s, i)
        PROVE  <<s, i, r>> \in moves
    <3>1. <<s, i, r>> \in {<<s, i, y>> : y \in Moves(p, s, i)}
      OBVIOUS
    <3>2. {<<s, i, y>> : y \in Moves(p, s, i)} \in
            {{<<x[1], x[2], y>> : y \in Moves(p, x[1], x[2])} : x \in all \X IFree}
      BY <2>1
    <3> QED
      BY <3>1, <3>2
  <2> QED
    BY <2>1, <2>2, <2>3
<1> HIDE DEF stops, moves
<1>2. \A W, s : s \in all =>
        (Forces(p, s, W) <=> \A i \in IFree : <<s, i>> \in stops \/ \E r \in W : <<s, i, r>> \in moves)
  BY <1>1 DEF Forces
<1>3. SystemWins(p) <=>
        \A W \in SUBSET all :
          (\A s \in all : (\A i \in IFree : <<s, i>> \in stops \/ \E r \in W : <<s, i, r>> \in moves)
             => s \in W) => InitialPosition(p) \in W
  BY DEF SystemWins, stops, moves
<1> QED
  BY <1>2, <1>3

-----------------------------------------------------------------------------
(* solve_dfa computes a least fixpoint.                                     *)

\* Whatever i, an edge of the arena leads from s into W.
Draws(aut, s, W) == \A i \in IFree : \E e \in ArenaEdges(aut, s) : e.i = i /\ e.dst \in W

\* W contains the final states and every open one that it draws.
Absorbs(aut, W) ==
  Final(aut) \subseteq W /\ \A s \in DOMAIN aut \ Final(aut) : Draws(aut, s, W) => s \in W

\* One round: the open states drawn into W join it.
AttractorStep(aut) ==
  [W \in SUBSET DOMAIN aut |-> W \cup {s \in DOMAIN aut \ Final(aut) : Draws(aut, s, W)}]

LEMMA AttractorGrows ==
  ASSUME NEW aut
  PROVE  /\ MonotoneStep(DOMAIN aut, AttractorStep(aut)) /\ Final(aut) \in SUBSET DOMAIN aut
         /\ Final(aut) \subseteq AttractorStep(aut)[Final(aut)]
<1> DEFINE D == DOMAIN aut
           Step(W) == W \cup {s \in D \ Final(aut) : Draws(aut, s, W)}
           step == [W \in SUBSET D |-> Step(W)]
<1>1. Final(aut) \in SUBSET D
  BY DEF Final
<1>2. ASSUME NEW V \in SUBSET D, NEW W \in SUBSET D, V \subseteq W
      PROVE  Step(V) \subseteq Step(W)
  <2>1. \A s \in D : Draws(aut, s, V) => Draws(aut, s, W)
    BY <1>2 DEF Draws
  <2> QED
    BY <1>2, <2>1
<1>3. \A W \in SUBSET D : step[W] = Step(W) /\ step[W] \in SUBSET D
  OBVIOUS
<1>4. step \in [SUBSET D -> SUBSET D]
  OBVIOUS
<1>5. Final(aut) \subseteq step[Final(aut)]
  BY <1>1, <1>3
<1> HIDE DEF Step, D
<1> QED
  BY <1>1, <1>2, <1>3, <1>4, <1>5 DEF MonotoneStep, AttractorStep, Step, D

\* What solve_dfa has after n rounds.
LEMMA AttractorRuns ==
  ASSUME NEW aut, NEW n \in Nat
  PROVE  \E w \in Rounds(DOMAIN aut, Final(aut), AttractorStep(aut), n) : Attractor(aut, n) = w[n]
<1> DEFINE D     == DOMAIN aut
           F     == Final(aut)
           step  == AttractorStep(aut)
           open  == D \ F
           arena == [s \in open |-> ArenaEdges(aut, s)]
           Step(W) == W \cup {s \in open : Attracts(arena, s, W)}
           Solves(w) == w = [m \in 0 .. n |-> IF m = 0 THEN F ELSE Step(w[m - 1])]
           won   == CHOOSE w : Solves(w)
<1>1. MonotoneStep(D, step) /\ F \in SUBSET D
  BY AttractorGrows
<1>2. \A W \in SUBSET D : step[W] = Step(W) /\ step[W] \in SUBSET D
  <2>1. \A W : \A s \in open : Attracts(arena, s, W) <=> Draws(aut, s, W)
    BY DEF Attracts, Draws
  <2> QED
    BY <2>1 DEF AttractorStep
<1>3. Attractor(aut, n) = won[n]
  BY DEF Attractor
<1> HIDE DEF D, open, arena, Step, step, F
<1>4. \E w : Solves(w)
  <2>1. PICK w : w \in Rounds(D, F, step, n)
    BY <1>1, RoundsExist
  <2>2. ASSUME NEW m \in 0 .. n
        PROVE  w[m] = IF m = 0 THEN F ELSE Step(w[m - 1])
    <3>1. CASE m # 0
      <4>1. m \in 1 .. n /\ m - 1 \in 0 .. n
        BY <3>1
      <4>2. w[m] = step[w[m - 1]] /\ w[m - 1] \in SUBSET D
        BY <2>1, <4>1 DEF Rounds
      <4> QED
        BY <1>2, <3>1, <4>2
    <3> QED
      BY <2>1, <3>1 DEF Rounds
  <2> QED
    BY <2>1, <2>2 DEF Rounds
<1>5. Solves(won)
  BY <1>4
<1> HIDE DEF won
<1>6. /\ won = [m \in 0 .. n |-> won[m]] /\ won[0] = F
      /\ \A m \in 1 .. n : won[m] = Step(won[m - 1])
  <2>1. \A m \in 1 .. n : m \in 0 .. n /\ m # 0
    OBVIOUS
  <2> QED
    BY <1>5, <2>1
<1>7. \A m \in 0 .. n : won[m] \in SUBSET D
  <2> DEFINE S == {m \in Nat : m <= n => won[m] \in SUBSET D}
  <2>1. 0 \in S
    BY <1>1, <1>6
  <2>2. ASSUME NEW m \in Nat, m \in S
        PROVE  m + 1 \in S
    <3> SUFFICES ASSUME m + 1 <= n PROVE won[m + 1] \in SUBSET D
      OBVIOUS
    <3>1. m + 1 \in 1 .. n /\ (m + 1) - 1 = m /\ won[m] \in SUBSET D
      BY <2>2
    <3>2. won[m + 1] = step[won[m]]
      BY <1>2, <1>6, <3>1
    <3> QED
      BY <1>2, <3>1, <3>2
  <2>3. Nat \subseteq S
    <3> HIDE DEF S
    <3> QED
      BY <2>1, <2>2, SetInduction
  <2> QED
    BY <2>3
<1>8. won \in Rounds(D, F, step, n)
  <2>1. \A m \in 1 .. n : m - 1 \in 0 .. n
    OBVIOUS
  <2> QED
    BY <1>2, <1>6, <1>7, <2>1 DEF Rounds
<1> QED
  BY <1>3, <1>8 DEF D, F, step

LEMMA AttractorIsLeast ==
  ASSUME NEW aut, IsFiniteSet(DOMAIN aut)
  PROVE  LET W == Attractor(aut, Cardinality(DOMAIN aut))
         IN  /\ W \subseteq DOMAIN aut /\ Absorbs(aut, W)
             /\ \A V \in SUBSET DOMAIN aut : Absorbs(aut, V) => W \subseteq V
<1> DEFINE D == DOMAIN aut
           n == Cardinality(D)
           F == Final(aut)
           step == AttractorStep(aut)
           A == Attractor(aut, n)
<1>1. n \in Nat /\ n >= Cardinality(D) /\ IsFiniteSet(D)
  BY FS_CardinalityType
<1>2. MonotoneStep(D, step) /\ F \in SUBSET D /\ F \subseteq step[F]
  BY AttractorGrows
<1>3. \A W \in SUBSET D : Absorbs(aut, W) <=> F \subseteq W /\ step[W] \subseteq W
  BY DEF Absorbs, AttractorStep
<1> HIDE DEF n
<1>4. PICK w \in Rounds(D, F, step, n) : A = w[n]
  BY <1>1, AttractorRuns
<1> HIDE DEF D, F, step, A
<1>5. LeastClosed(D, F, step, A)
  BY <1>1, <1>2, <1>4, LeastFixpoint
<1> QED
  BY <1>3, <1>5 DEF D, n, F, A, LeastClosed

-----------------------------------------------------------------------------
(* solve_mtdfa computes one, too.                                          *)

\* One round: the roots whose rows W wins.
WonStep(rs) == [W \in SUBSET DOMAIN rs |-> {s \in DOMAIN rs : RowWon(rs[s], W)}]

LEMMA WonGrows ==
  ASSUME NEW rs
  PROVE  /\ MonotoneStep(DOMAIN rs, WonStep(rs)) /\ {} \in SUBSET DOMAIN rs
         /\ {} \subseteq WonStep(rs)[{}]
<1> DEFINE D == DOMAIN rs
           Step(W) == {s \in D : RowWon(rs[s], W)}
           step == [W \in SUBSET D |-> Step(W)]
<1>1. ASSUME NEW V, NEW W, V \subseteq W
      PROVE  Step(V) \subseteq Step(W)
  BY <1>1 DEF RowWon, CellWon
<1>2. \A W \in SUBSET D : step[W] = Step(W) /\ step[W] \in SUBSET D
  OBVIOUS
<1>3. step \in [SUBSET D -> SUBSET D]
  OBVIOUS
<1> HIDE DEF Step, D
<1> QED
  BY <1>1, <1>2, <1>3 DEF MonotoneStep, WonStep, Step, D

\* What solve_mtdfa has after n rounds.
LEMMA WonRuns ==
  ASSUME NEW rs, NEW n \in Nat
  PROVE  \E w \in Rounds(DOMAIN rs, {}, WonStep(rs), n) : WonWithin(rs, n) = w[n]
<1> DEFINE D == DOMAIN rs
           none == {}
           step == WonStep(rs)
           Step(W) == {s \in D : RowWon(rs[s], W)}
           Solves(w) == w = [m \in 0 .. n |-> IF m = 0 THEN none ELSE Step(w[m - 1])]
           won == CHOOSE w : Solves(w)
<1>1. MonotoneStep(D, step) /\ none \in SUBSET D
  BY WonGrows
<1>2. \A W \in SUBSET D : step[W] = Step(W) /\ step[W] \in SUBSET D
  BY DEF WonStep
<1>3. WonWithin(rs, n) = won[n]
  BY DEF WonWithin
<1> HIDE DEF D, none, Step, step
<1>4. \E w : Solves(w)
  <2>1. PICK w : w \in Rounds(D, none, step, n)
    BY <1>1, RoundsExist
  <2>2. ASSUME NEW m \in 0 .. n
        PROVE  w[m] = IF m = 0 THEN none ELSE Step(w[m - 1])
    <3>1. CASE m # 0
      <4>1. m \in 1 .. n /\ m - 1 \in 0 .. n
        BY <3>1
      <4>2. w[m] = step[w[m - 1]] /\ w[m - 1] \in SUBSET D
        BY <2>1, <4>1 DEF Rounds
      <4> QED
        BY <1>2, <3>1, <4>2
    <3> QED
      BY <2>1, <3>1 DEF Rounds
  <2> QED
    BY <2>1, <2>2 DEF Rounds
<1>5. Solves(won)
  BY <1>4
<1> HIDE DEF won
<1>6. /\ won = [m \in 0 .. n |-> won[m]] /\ won[0] = none
      /\ \A m \in 1 .. n : won[m] = Step(won[m - 1])
  <2>1. \A m \in 1 .. n : m \in 0 .. n /\ m # 0
    OBVIOUS
  <2> QED
    BY <1>5, <2>1
<1>7. \A m \in 0 .. n : won[m] \in SUBSET D
  <2>1. \A m \in 1 .. n : won[m] \in SUBSET D
    BY <1>6 DEF Step
  <2>2. \A m \in 0 .. n : m = 0 \/ m \in 1 .. n
    OBVIOUS
  <2> QED
    BY <1>1, <1>6, <2>1, <2>2
<1>8. won \in Rounds(D, none, step, n)
  <2>1. \A m \in 1 .. n : m - 1 \in 0 .. n
    OBVIOUS
  <2> QED
    BY <1>2, <1>6, <1>7, <2>1 DEF Rounds
<1> QED
  BY <1>3, <1>8 DEF D, none, step

\* The roots won are the least set that contains every root whose row it wins.
LEMMA WinningIsLeast ==
  ASSUME NEW rs, IsFiniteSet(DOMAIN rs)
  PROVE  /\ Winning(rs) \subseteq DOMAIN rs
         /\ \A s \in DOMAIN rs : RowWon(rs[s], Winning(rs)) => s \in Winning(rs)
         /\ \A V \in SUBSET DOMAIN rs :
              (\A s \in DOMAIN rs : RowWon(rs[s], V) => s \in V) => Winning(rs) \subseteq V
<1> DEFINE D == DOMAIN rs
           n == Cardinality(D)
           none == {}
           step == WonStep(rs)
           A == Winning(rs)
<1>1. n \in Nat /\ n >= Cardinality(D) /\ IsFiniteSet(D)
  BY FS_CardinalityType
<1>2. MonotoneStep(D, step) /\ none \in SUBSET D /\ none \subseteq step[none]
  BY WonGrows
<1>3. \A W \in SUBSET D : (\A s \in D : RowWon(rs[s], W) => s \in W) <=> step[W] \subseteq W
  BY DEF WonStep
<1>4. PICK w \in Rounds(D, none, step, n) : A = w[n]
  BY <1>1, WonRuns DEF Winning
<1> HIDE DEF D, n, none, step, A
<1>5. LeastClosed(D, none, step, A)
  BY <1>1, <1>2, <1>4, LeastFixpoint
<1>6. /\ A \in SUBSET D /\ step[A] \subseteq A
      /\ \A V \in SUBSET D : step[V] \subseteq V => A \subseteq V
  BY <1>5 DEF none, LeastClosed
<1> QED
  BY <1>3, <1>6 DEF D, A
===============================================================================
