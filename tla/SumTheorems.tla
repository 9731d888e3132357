---------------------------- MODULE SumTheorems ----------------------------
(***************************************************************************)
(* Sums over finite sets: what SumFunctionOnSet(w, S), the sum of w[x] for *)
(* x in S, gives for every finite S and every integer function.  The       *)
(* proofs of the balances and of the budget rest on it.                    *)
(***************************************************************************)
EXTENDS Integers, FiniteSets, Functions, FiniteSetTheorems, WellFoundedInduction, TLAPS

Sum(w, S) == SumFunctionOnSet(w, S)

-----------------------------------------------------------------------------
(* Induction: of numbers, and of finite sets, one is smallest. *)

LEMMA SmallestNumber ==
    ASSUME NEW N \in SUBSET Nat, N # {}
    PROVE  \E n \in N : \A m \in N : n <= m
<1>1. PICK n \in N : \A m \in N : <<m, n>> \notin OpToRel(<, Nat)
  BY WFMin, NatLessThanWellFounded
<1>2. \A m \in N : ~(m < n)
  BY <1>1 DEF OpToRel
<1> QED
  BY <1>2

LEMMA SmallestSet ==
    ASSUME NEW U, IsFiniteSet(U), NEW C, C \subseteq SUBSET U, C # {}
    PROVE  \E S \in C : IsFiniteSet(S) /\ \A x \in S : S \ {x} \notin C
<1>0. \A S \in C : IsFiniteSet(S)
  BY FS_Subset
<1> DEFINE N == {Cardinality(S) : S \in C}
<1>1. N \in SUBSET Nat /\ N # {}
  BY <1>0, FS_CardinalityType
<1>2. PICK S \in C : \A T \in C : Cardinality(S) <= Cardinality(T)
  <2> HIDE DEF N
  <2>1. PICK n \in N : \A m \in N : n <= m
    BY <1>1, SmallestNumber
  <2> USE DEF N
  <2> QED
    BY <2>1
<1>3. ASSUME NEW x \in S, S \ {x} \in C
      PROVE  FALSE
  <2>1. Cardinality(S \ {x}) = Cardinality(S) - 1 /\ Cardinality(S) \in Nat
    BY <1>0, FS_RemoveElement, FS_CardinalityType
  <2> QED
    BY <1>2, <1>3, <2>1
<1> QED
  BY <1>0, <1>3

LEMMA LargestNumber ==
    ASSUME NEW S \in SUBSET Nat, IsFiniteSet(S), S # {}
    PROVE  \E n \in S : \A m \in S : m <= n
<1> DEFINE C == {T \in SUBSET S : T # {} /\ ~\E n \in T : \A m \in T : m <= n}
<1> SUFFICES ASSUME C # {}
             PROVE  FALSE
  OBVIOUS
<1>1. PICK T \in C : \A x \in T : T \ {x} \notin C
  <2>1. C \subseteq SUBSET S
    OBVIOUS
  <2> HIDE DEF C
  <2> QED
    BY <2>1, SmallestSet
<1>2. PICK x \in T : TRUE
  BY <1>1
<1>3. CASE T \ {x} = {}
  BY <1>1, <1>2, <1>3
<1>4. CASE T \ {x} # {}
  <2>1. PICK n \in T \ {x} : \A m \in T \ {x} : m <= n
    BY <1>1, <1>2, <1>4
  <2>2. n \in Nat /\ x \in Nat /\ \A m \in T : m \in Nat
    BY <1>1, <1>2, <2>1
  <2>3. CASE x <= n
    BY <1>1, <2>1, <2>2, <2>3
  <2>4. CASE n <= x
    BY <1>1, <1>2, <2>1, <2>2, <2>4
  <2> QED
    BY <2>2, <2>3, <2>4
<1> QED
  BY <1>3, <1>4

-----------------------------------------------------------------------------
(* The function that the definition iterates. *)

Picked(s) == CHOOSE x \in s : TRUE

Adds(g, w, S) ==
    g = [s \in SUBSET S |-> IF s = {} THEN 0 ELSE w[Picked(s)] + g[s \ {Picked(s)}]]

LEMMA SumDef ==
    ASSUME NEW w, NEW S
    PROVE  Sum(w, S) = (CHOOSE g : Adds(g, w, S))[S]
BY Zenon DEF Sum, SumFunctionOnSet, FoldFunctionOnSet, MapThenFoldSet, Adds, Picked

LEMMA AddsUnique ==
    ASSUME NEW w, NEW S, NEW T, NEW g, NEW h, Adds(g, w, S), Adds(h, w, T),
           NEW s, s \subseteq S, s \subseteq T, IsFiniteSet(s)
    PROVE  g[s] = h[s]
<1> DEFINE C == {t \in SUBSET s : g[t] # h[t]}
<1> SUFFICES ASSUME C # {}
             PROVE  FALSE
  OBVIOUS
<1>1. PICK t \in C : IsFiniteSet(t) /\ \A x \in t : t \ {x} \notin C
  <2>1. C \subseteq SUBSET s
    OBVIOUS
  <2> HIDE DEF C
  <2> QED
    BY <2>1, SmallestSet
<1>2. t # {}
  BY DEF Adds
<1>3. Picked(t) \in t
  BY <1>2 DEF Picked
<1>4. g[t \ {Picked(t)}] = h[t \ {Picked(t)}]
  BY <1>1, <1>3
<1>5. g[t] = w[Picked(t)] + g[t \ {Picked(t)}]
  BY <1>2 DEF Adds
<1>6. h[t] = w[Picked(t)] + h[t \ {Picked(t)}]
  BY <1>2 DEF Adds
<1> QED
  BY <1>4, <1>5, <1>6

LEMMA AddsExists ==
    ASSUME NEW w, NEW S, IsFiniteSet(S)
    PROVE  \E g : Adds(g, w, S)
<1> DEFINE C == {T \in SUBSET S : ~\E g : Adds(g, w, T)}
<1> SUFFICES ASSUME C # {}
             PROVE  FALSE
  OBVIOUS
<1>1. PICK T \in C : IsFiniteSet(T) /\ \A x \in T : T \ {x} \notin C
  <2>1. C \subseteq SUBSET S
    OBVIOUS
  <2> HIDE DEF C
  <2> QED
    BY <2>1, SmallestSet
<1> DEFINE G(s) == CHOOSE g : Adds(g, w, s)
\* Below T the function exists.
<1>2. ASSUME NEW s \in SUBSET T, s # T
      PROVE  Adds(G(s), w, s)
  <2>1. PICK x \in T : s \subseteq T \ {x}
    BY <1>2
  <2>2. PICK g : Adds(g, w, T \ {x})
    BY <1>1
  <2> DEFINE h == [t \in SUBSET s |-> g[t]]
  <2>3. ASSUME NEW t \in SUBSET s
        PROVE  h[t] = IF t = {} THEN 0 ELSE w[Picked(t)] + h[t \ {Picked(t)}]
    <3>1. t \in SUBSET (T \ {x}) /\ t \ {Picked(t)} \in SUBSET s
      BY <2>1
    <3>2. g[t] = IF t = {} THEN 0 ELSE w[Picked(t)] + g[t \ {Picked(t)}]
      BY <2>2, <3>1 DEF Adds
    <3> QED
      BY <3>1, <3>2
  <2>4. Adds(h, w, s)
    <3>1. h = [t \in SUBSET s |-> IF t = {} THEN 0 ELSE w[Picked(t)] + h[t \ {Picked(t)}]]
      BY <2>3
    <3> HIDE DEF h
    <3> QED
      BY <3>1 DEF Adds
  <2> HIDE DEF C, h
  <2> QED
    BY <2>4
<1> DEFINE V(s) == IF s = {} THEN 0 ELSE w[Picked(s)] + G(s \ {Picked(s)})[s \ {Picked(s)}]
           f    == [s \in SUBSET T |-> V(s)]
<1>3. ASSUME NEW s \in SUBSET T, s # {}
      PROVE  V(s) = w[Picked(s)] + f[s \ {Picked(s)}]
  <2> DEFINE t == s \ {Picked(s)}
  <2>1. Picked(s) \in s
    BY <1>3 DEF Picked
  <2>2. t \in SUBSET T /\ t # T
    BY <2>1
  <2>3. Adds(G(t), w, t)
    BY <1>2, <2>2
  <2>4. G(t)[t] = V(t)
    <3>1. CASE t = {}
      BY <2>3, <3>1 DEF Adds
    <3>2. CASE t # {}
      <4> DEFINE u == t \ {Picked(t)}
      <4>1. Picked(t) \in t
        BY <3>2 DEF Picked
      <4>2. u \in SUBSET T /\ u # T /\ u \subseteq t
        BY <2>2, <4>1
      <4>3. Adds(G(u), w, u)
        BY <1>2, <4>2
      <4>4. IsFiniteSet(u)
        BY <1>1, <4>2, FS_Subset
      <4>5. G(t)[u] = G(u)[u]
        <5> HIDE DEF G, t, u
        <5> QED
          BY <2>3, <4>2, <4>3, <4>4, AddsUnique
      <4>6. G(t)[t] = w[Picked(t)] + G(t)[u]
        <5> HIDE DEF G
        <5> QED
          BY <2>3, <3>2 DEF Adds
      <4> QED
        BY <3>2, <4>5, <4>6
    <3> QED
      BY <3>1, <3>2
  <2>5. f[t] = V(t)
    BY <2>2
  <2> QED
    BY <1>3, <2>4, <2>5
<1>4. Adds(f, w, T)
  <2>1. f = [s \in SUBSET T |-> IF s = {} THEN 0 ELSE w[Picked(s)] + f[s \ {Picked(s)}]]
    <3> HIDE DEF V
    <3>1. \A s \in SUBSET T : f[s] = V(s)
      OBVIOUS
    <3>2. \A s \in SUBSET T : f[s] = IF s = {} THEN 0 ELSE w[Picked(s)] + f[s \ {Picked(s)}]
      <4>1. V({}) = 0
        BY DEF V
      <4> HIDE DEF f
      <4> QED
        BY <1>3, <3>1, <4>1
    <3>3. f = [s \in SUBSET T |-> f[s]]
      OBVIOUS
    <3> HIDE DEF f
    <3> QED
      BY <3>2, <3>3
  <2> HIDE DEF f
  <2> QED
    BY <2>1 DEF Adds
<1> QED
  BY <1>4

-----------------------------------------------------------------------------
(* What the sum is. *)

LEMMA SumEmpty == ASSUME NEW w PROVE Sum(w, {}) = 0
<1>1. \E h : Adds(h, w, {})
  BY AddsExists, FS_EmptySet
<1>2. Adds(CHOOSE g : Adds(g, w, {}), w, {})
  BY <1>1
<1> QED
  BY <1>2, SumDef DEF Adds

LEMMA SumPicked ==
    ASSUME NEW w, NEW S, IsFiniteSet(S), S # {}
    PROVE  Sum(w, S) = w[Picked(S)] + Sum(w, S \ {Picked(S)})
<1> DEFINE T    == S \ {Picked(S)}
           G(s) == CHOOSE g : Adds(g, w, s)
<1>1. IsFiniteSet(T)
  BY FS_RemoveElement
<1>2. Adds(G(S), w, S) /\ Adds(G(T), w, T)
  BY <1>1, AddsExists
<1>3. G(S)[T] = G(T)[T]
  <2>1. T \subseteq S /\ T \subseteq T
    OBVIOUS
  <2> HIDE DEF G, T
  <2> QED
    BY <1>1, <1>2, <2>1, AddsUnique
<1>4. G(S)[S] = w[Picked(S)] + G(S)[T]
  <2> HIDE DEF G
  <2> QED
    BY <1>2 DEF Adds
<1> QED
  BY <1>3, <1>4, SumDef

\* The sum of integers is one.
LEMMA SumType ==
    ASSUME NEW S, IsFiniteSet(S), NEW w, \A x \in S : w[x] \in Int
    PROVE  Sum(w, S) \in Int
<1> DEFINE C == {T \in SUBSET S : Sum(w, T) \notin Int}
<1> SUFFICES ASSUME C # {}
             PROVE  FALSE
  OBVIOUS
<1>1. PICK T \in C : IsFiniteSet(T) /\ \A x \in T : T \ {x} \notin C
  <2>1. C \subseteq SUBSET S
    OBVIOUS
  <2> HIDE DEF C
  <2> QED
    BY <2>1, SmallestSet
<1>2. T # {}
  BY SumEmpty
<1>3. Picked(T) \in T
  BY <1>2 DEF Picked
<1>4. Sum(w, T \ {Picked(T)}) \in Int
  BY <1>1, <1>3
<1> QED
  BY <1>1, <1>2, <1>3, <1>4, SumPicked

\* Any element can be taken out.
LEMMA SumRemove ==
    ASSUME NEW S, IsFiniteSet(S), NEW w, \A x \in S : w[x] \in Int, NEW x \in S
    PROVE  Sum(w, S) = w[x] + Sum(w, S \ {x})
<1> DEFINE Off(T) == \E y \in T : Sum(w, T) # w[y] + Sum(w, T \ {y})
           C      == {T \in SUBSET S : Off(T)}
<1> SUFFICES ASSUME C # {}
             PROVE  FALSE
  OBVIOUS
<1>1. PICK T \in C : IsFiniteSet(T) /\ \A y \in T : T \ {y} \notin C
  <2>1. C \subseteq SUBSET S
    OBVIOUS
  <2> HIDE DEF C
  <2> QED
    BY <2>1, SmallestSet
<1>2. PICK y \in T : Sum(w, T) # w[y] + Sum(w, T \ {y})
  OBVIOUS
<1> DEFINE c == Picked(T)
           D == (T \ {c}) \ {y}
<1>3. c \in T
  BY DEF Picked
<1>4. Sum(w, T) = w[c] + Sum(w, T \ {c})
  BY <1>1, SumPicked
<1>5. y # c
  BY <1>2, <1>4
<1>a. ASSUME NEW u \in T, NEW z \in T \ {u}
      PROVE  Sum(w, T \ {u}) = w[z] + Sum(w, (T \ {u}) \ {z})
  <2>1. T \ {u} \in SUBSET S /\ T \ {u} \notin C
    BY <1>1
  <2>2. ~Off(T \ {u})
    <3> HIDE DEF Off
    <3> QED
      BY <2>1
  <2> QED
    BY <2>2
<1>6. Sum(w, T \ {c}) = w[y] + Sum(w, D)
  <2>1. y \in T \ {c}
    BY <1>5
  <2> HIDE DEF C, c
  <2> QED
    BY <1>3, <1>a, <2>1
<1>7. Sum(w, T \ {y}) = w[c] + Sum(w, D)
  <2>1. (T \ {y}) \ {c} = D /\ c \in T \ {y}
    BY <1>3, <1>5
  <2> HIDE DEF C, c, D
  <2> QED
    BY <1>a, <2>1
<1>8. w[c] \in Int /\ w[y] \in Int
  BY <1>3
<1>9. Sum(w, D) \in Int
  <2>1. IsFiniteSet(D) /\ D \subseteq S
    BY <1>1, FS_RemoveElement
  <2> HIDE DEF D
  <2> QED
    BY <2>1, SumType
<1> HIDE DEF C, c, D
<1> QED
  BY <1>2, <1>4, <1>6, <1>7, <1>8, <1>9

\* It is monotone, whether or not the functions agree elsewhere.
LEMMA SumMonotone ==
    ASSUME NEW S, IsFiniteSet(S), NEW v, NEW w,
           \A x \in S : v[x] \in Int /\ w[x] \in Int /\ v[x] <= w[x]
    PROVE  Sum(v, S) <= Sum(w, S)
<1> DEFINE C == {T \in SUBSET S : ~(Sum(v, T) <= Sum(w, T))}
<1> SUFFICES ASSUME C # {}
             PROVE  FALSE
  OBVIOUS
<1>1. PICK T \in C : IsFiniteSet(T) /\ \A x \in T : T \ {x} \notin C
  <2>1. C \subseteq SUBSET S
    OBVIOUS
  <2> HIDE DEF C
  <2> QED
    BY <2>1, SmallestSet
<1>2. T # {}
  BY SumEmpty
<1> DEFINE c == Picked(T)
<1>3. c \in T
  BY <1>2 DEF Picked
<1>4. Sum(v, T \ {c}) <= Sum(w, T \ {c})
  BY <1>1, <1>3
<1>5. Sum(v, T) = v[c] + Sum(v, T \ {c}) /\ Sum(w, T) = w[c] + Sum(w, T \ {c})
  BY <1>1, <1>2, SumPicked
<1>6. Sum(v, T \ {c}) \in Int /\ Sum(w, T \ {c}) \in Int
  <2>1. IsFiniteSet(T \ {c}) /\ T \ {c} \subseteq S
    BY <1>1, FS_RemoveElement
  <2> HIDE DEF C, c
  <2> QED
    BY <2>1, SumType
<1>7. v[c] \in Int /\ w[c] \in Int /\ v[c] <= w[c]
  BY <1>3
<1>8. ~(Sum(v, T) <= Sum(w, T))
  OBVIOUS
<1> HIDE DEF c, C
<1> QED
  BY <1>4, <1>5, <1>6, <1>7, <1>8

\* It only depends on the values in the set.
LEMMA SumSame ==
    ASSUME NEW S, IsFiniteSet(S), NEW v, NEW w,
           \A x \in S : v[x] \in Int /\ v[x] = w[x]
    PROVE  Sum(v, S) = Sum(w, S)
<1>1. Sum(v, S) \in Int /\ Sum(w, S) \in Int
  BY SumType
<1>2. Sum(v, S) <= Sum(w, S) /\ Sum(w, S) <= Sum(v, S)
  BY SumMonotone
<1> QED
  BY <1>1, <1>2

\* It is additive.
LEMMA SumPlus ==
    ASSUME NEW S, IsFiniteSet(S), NEW u, NEW v, NEW w,
           \A x \in S : v[x] \in Int /\ w[x] \in Int /\ u[x] = v[x] + w[x]
    PROVE  Sum(u, S) = Sum(v, S) + Sum(w, S)
<1> DEFINE C == {T \in SUBSET S : Sum(u, T) # Sum(v, T) + Sum(w, T)}
<1> SUFFICES ASSUME C # {}
             PROVE  FALSE
  OBVIOUS
<1>1. PICK T \in C : IsFiniteSet(T) /\ \A x \in T : T \ {x} \notin C
  <2>1. C \subseteq SUBSET S
    OBVIOUS
  <2> HIDE DEF C
  <2> QED
    BY <2>1, SmallestSet
<1>2. T # {}
  BY SumEmpty
<1> DEFINE c == Picked(T)
           D == T \ {c}
<1>3. c \in T
  BY <1>2 DEF Picked
<1>4. Sum(u, D) = Sum(v, D) + Sum(w, D)
  BY <1>1, <1>3
<1>5. /\ Sum(u, T) = u[c] + Sum(u, D)
      /\ Sum(v, T) = v[c] + Sum(v, D)
      /\ Sum(w, T) = w[c] + Sum(w, D)
  BY <1>1, <1>2, SumPicked
<1>6. Sum(v, D) \in Int /\ Sum(w, D) \in Int
  <2>1. IsFiniteSet(D) /\ D \subseteq S
    BY <1>1, FS_RemoveElement
  <2> HIDE DEF D
  <2> QED
    BY <2>1, SumType
<1>7. v[c] \in Int /\ w[c] \in Int /\ u[c] = v[c] + w[c]
  BY <1>3
<1>8. Sum(u, T) # Sum(v, T) + Sum(w, T)
  OBVIOUS
<1> HIDE DEF C, c, D
<1> QED
  BY <1>4, <1>5, <1>6, <1>7, <1>8

LEMMA SumZero ==
    ASSUME NEW S, IsFiniteSet(S), NEW w, \A x \in S : w[x] = 0
    PROVE  Sum(w, S) = 0
<1>1. Sum(w, S) \in Int
  <2>1. \A x \in S : w[x] \in Int
    OBVIOUS
  <2> QED
    BY <2>1, SumType
<1>2. Sum(w, S) = Sum(w, S) + Sum(w, S)
  <2>1. \A x \in S : w[x] \in Int /\ w[x] \in Int /\ w[x] = w[x] + w[x]
    OBVIOUS
  <2> QED
    BY <2>1, SumPlus
<1>3. ASSUME NEW k \in Int, k = k + k
      PROVE  k = 0
  BY <1>3
<1> QED
  BY <1>1, <1>2, <1>3

\* Sums over two sets can be exchanged.
LEMMA SumExchange ==
    ASSUME NEW S, IsFiniteSet(S), NEW T, IsFiniteSet(T), NEW m,
           \A x \in S, y \in T : m[x][y] \in Int
    PROVE  Sum([x \in S |-> Sum([y \in T |-> m[x][y]], T)], S)
             = Sum([y \in T |-> Sum([x \in S |-> m[x][y]], S)], T)
<1> DEFINE row(x) == Sum([y \in T |-> m[x][y]], T)
           rows   == [x \in S |-> row(x)]
           col(R) == [y \in T |-> Sum([x \in S |-> m[x][y]], R)]
           C == {R \in SUBSET S : Sum(rows, R) # Sum(col(R), T)}
<1> SUFFICES ASSUME C # {}
             PROVE  FALSE
  OBVIOUS
<1>1. PICK R \in C : IsFiniteSet(R) /\ \A x \in R : R \ {x} \notin C
  <2>1. C \subseteq SUBSET S
    OBVIOUS
  <2> HIDE DEF C
  <2> QED
    BY <2>1, SmallestSet
<1>t. \A Q \in SUBSET S, y \in T : Sum([x \in S |-> m[x][y]], Q) \in Int
  <2> TAKE Q \in SUBSET S, y \in T
  <2> DEFINE w == [x \in S |-> m[x][y]]
  <2>1. IsFiniteSet(Q) /\ \A x \in Q : w[x] \in Int
    BY FS_Subset
  <2> HIDE DEF w
  <2> QED
    BY <2>1, SumType
<1>2. R # {}
  <2>1. \A y \in T : col({})[y] = 0
    BY SumEmpty
  <2>2. Sum(col({}), T) = 0
    <3> HIDE DEF col
    <3> QED
      BY <2>1, SumZero
  <2> QED
    BY <2>2, SumEmpty
<1> DEFINE c == Picked(R)
           D == R \ {c}
<1>3. c \in R /\ D \in SUBSET S
  BY <1>2 DEF Picked
<1>4. Sum(rows, D) = Sum(col(D), T)
  BY <1>1, <1>3
<1>5. Sum(rows, R) = row(c) + Sum(rows, D)
  <2> HIDE DEF row
  <2>1. Sum(rows, R) = rows[c] + Sum(rows, D)
    BY <1>1, <1>2, SumPicked
  <2> QED
    BY <1>3, <2>1
<1>6. Sum(col(R), T) = row(c) + Sum(col(D), T)
  <2> DEFINE u == col(R)
             v == [y \in T |-> m[c][y]]
             w == col(D)
  <2>1. ASSUME NEW y \in T
        PROVE  u[y] = v[y] + w[y] /\ v[y] \in Int /\ w[y] \in Int
    <3> DEFINE g == [x \in S |-> m[x][y]]
    <3>1. Sum(g, R) = g[c] + Sum(g, D)
      <4> HIDE DEF g
      <4> QED
        BY <1>1, <1>2, SumPicked
    <3>2. g[c] = m[c][y] /\ m[c][y] \in Int /\ Sum(g, D) \in Int
      BY <1>3, <1>t
    <3> QED
      BY <3>1, <3>2
  <2>2. Sum(u, T) = Sum(v, T) + Sum(w, T)
    <3> HIDE DEF u, v, w
    <3> QED
      BY <2>1, SumPlus
  <2> QED
    BY <2>2
<1>7. Sum(rows, R) # Sum(col(R), T)
  OBVIOUS
<1> HIDE DEF C, rows, col, row, c, D
<1> QED
  BY <1>4, <1>5, <1>6, <1>7

-----------------------------------------------------------------------------
(* Sums over a part of the set. *)

LEMMA SumSingle == ASSUME NEW w, NEW x, w[x] \in Int PROVE Sum(w, {x}) = w[x]
<1>1. IsFiniteSet({x}) /\ {x} \ {x} = {} /\ x \in {x}
  BY FS_Singleton
<1>2. Sum(w, {x}) = w[x] + Sum(w, {x} \ {x})
  BY <1>1, SumRemove
<1> QED
  BY <1>1, <1>2, SumEmpty

\* What is outside counts for nothing.
LEMMA SumPart ==
    ASSUME NEW S, IsFiniteSet(S), NEW T \in SUBSET S, NEW v, NEW w,
           \A x \in S : v[x] \in Int /\ v[x] = IF x \in T THEN w[x] ELSE 0
    PROVE  Sum(v, S) = Sum(w, T)
<1> DEFINE C == {R \in SUBSET S : Sum(v, R) # Sum(w, R \intersect T)}
<1> SUFFICES ASSUME C # {}
             PROVE  FALSE
  <2>1. S \intersect T = T
    OBVIOUS
  <2> QED
    BY <2>1
<1>1. PICK R \in C : IsFiniteSet(R) /\ \A x \in R : R \ {x} \notin C
  <2>1. C \subseteq SUBSET S
    OBVIOUS
  <2> HIDE DEF C
  <2> QED
    BY <2>1, SmallestSet
<1>2. R # {}
  <2>1. {} \intersect T = {}
    OBVIOUS
  <2> QED
    BY <2>1, SumEmpty
<1> DEFINE c == Picked(R)
           D == R \ {c}
<1>3. c \in R /\ D \in SUBSET S
  BY <1>2 DEF Picked
<1>4. Sum(v, D) = Sum(w, D \intersect T)
  BY <1>1, <1>3
<1>5. Sum(v, R) = v[c] + Sum(v, D) /\ Sum(v, D) \in Int
  <2>1. IsFiniteSet(D) /\ \A x \in D : v[x] \in Int
    BY <1>1, FS_RemoveElement
  <2> HIDE DEF D
  <2> QED
    BY <1>1, <1>2, <2>1, SumPicked, SumType DEF D
<1>6. CASE c \in T
  <2>1. (R \intersect T) \ {c} = D \intersect T /\ c \in R \intersect T
    BY <1>3, <1>6
  <2>2. IsFiniteSet(R \intersect T) /\ \A x \in R \intersect T : w[x] \in Int
    BY <1>1, FS_Intersection
  <2>3. Sum(w, R \intersect T) = w[c] + Sum(w, D \intersect T)
    <3> HIDE DEF C, c, D
    <3> QED
      BY <2>1, <2>2, SumRemove
  <2>4. v[c] = w[c]
    BY <1>3, <1>6
  <2> QED
    BY <1>4, <1>5, <2>3, <2>4
<1>7. CASE c \notin T
  <2>1. Sum(w, R \intersect T) = Sum(w, D \intersect T)
    <3>1. R \intersect T = D \intersect T
      BY <1>7
    <3> QED
      BY <3>1, Zenon
  <2>2. v[c] = 0
    BY <1>3, <1>7
  <2>3. Sum(v, R) # Sum(w, R \intersect T)
    OBVIOUS
  <2> HIDE DEF C, c, D
  <2> QED
    BY <1>4, <1>5, <2>1, <2>2, <2>3
<1> QED
  BY <1>6, <1>7

\* A part of nonnegative numbers adds up to no more than the whole.
LEMMA SumPartLess ==
    ASSUME NEW S, IsFiniteSet(S), NEW T \in SUBSET S, NEW w, \A x \in S : w[x] \in Nat
    PROVE  Sum(w, T) <= Sum(w, S)
<1> DEFINE v == [x \in S |-> IF x \in T THEN w[x] ELSE 0]
<1>1. \A x \in S : v[x] \in Int /\ w[x] \in Int /\ v[x] <= w[x]
  OBVIOUS
<1>2. \A x \in S : v[x] \in Int /\ v[x] = IF x \in T THEN w[x] ELSE 0
  OBVIOUS
<1> HIDE DEF v
<1>3. Sum(v, S) <= Sum(w, S)
  BY <1>1, SumMonotone
<1>4. Sum(v, S) = Sum(w, T)
  BY <1>2, SumPart
<1> QED
  BY <1>3, <1>4

\* What sums to zero and is not all zero has terms on both sides of zero.
LEMMA SumBothSigns ==
    ASSUME NEW S, IsFiniteSet(S), NEW w, \A x \in S : w[x] \in Int,
           Sum(w, S) = 0, NEW x \in S, w[x] # 0
    PROVE  (\E y \in S : w[y] > 0) /\ (\E y \in S : w[y] < 0)
<1> DEFINE T    == S \ {x}
           zero == [y \in T |-> 0]
<1>1. IsFiniteSet(T) /\ \A y \in T : w[y] \in Int
  BY FS_RemoveElement
<1>2. Sum(zero, T) = 0
  BY <1>1, SumZero
<1>3. Sum(w, T) \in Int /\ Sum(w, S) = w[x] + Sum(w, T)
  BY <1>1, SumType, SumRemove
<1>4. CASE \A y \in S : w[y] <= 0
  <2>1. \A y \in T : w[y] \in Int /\ zero[y] \in Int /\ w[y] <= zero[y]
    BY <1>1, <1>4
  <2>2. Sum(w, T) <= Sum(zero, T)
    <3> HIDE DEF T, zero
    <3> QED
      BY <1>1, <2>1, SumMonotone
  <2> QED
    BY <1>2, <1>3, <1>4, <2>2
<1>5. CASE \A y \in S : w[y] >= 0
  <2>1. \A y \in T : w[y] \in Int /\ zero[y] \in Int /\ zero[y] <= w[y]
    BY <1>1, <1>5
  <2>2. Sum(zero, T) <= Sum(w, T)
    <3> HIDE DEF T, zero
    <3> QED
      BY <1>1, <2>1, SumMonotone
  <2> QED
    BY <1>2, <1>3, <1>5, <2>2
<1> QED
  BY <1>4, <1>5

\* What is taken from one and given to another leaves the sum.
LEMMA SumTransfer ==
    ASSUME NEW S, IsFiniteSet(S), NEW v \in [S -> Int], NEW w \in [S -> Int],
           NEW x \in S, NEW y \in S, x # y, NEW k \in Int,
           w[x] = v[x] - k, w[y] = v[y] + k,
           \A z \in S : z # x /\ z # y => w[z] = v[z]
    PROVE  Sum(w, S) = Sum(v, S)
<1> DEFINE C    == S \ {x}
           rest == C \ {y}
<1>0. IsFiniteSet(C) /\ IsFiniteSet(rest) /\ y \in C
  BY FS_RemoveElement
<1>1. ASSUME NEW b \in [S -> Int]
      PROVE  Sum(b, S) = b[x] + (b[y] + Sum(b, rest)) /\ Sum(b, rest) \in Int
  <2>1. Sum(b, S) = b[x] + Sum(b, C)
    BY SumRemove
  <2>2. Sum(b, C) = b[y] + Sum(b, rest)
    BY <1>0, SumRemove
  <2> QED
    BY <1>0, <2>1, <2>2, SumType
<1>2. Sum(v, rest) = Sum(w, rest)
  <2>1. \A z \in rest : v[z] \in Int /\ v[z] = w[z]
    OBVIOUS
  <2> HIDE DEF rest
  <2> QED
    BY <1>0, <2>1, SumSame
<1>3. /\ Sum(v, S) = v[x] + (v[y] + Sum(v, rest)) /\ Sum(v, rest) \in Int
      /\ Sum(w, S) = w[x] + (w[y] + Sum(w, rest))
  BY <1>1
<1> HIDE DEF rest
<1> QED
  BY <1>2, <1>3

\* Natural numbers have a natural sum.
LEMMA SumNat ==
    ASSUME NEW S, IsFiniteSet(S), NEW w, \A x \in S : w[x] \in Nat
    PROVE  Sum(w, S) \in Nat
<1>1. Sum(w, S) \in Int
  BY SumType
<1>2. Sum(w, {}) <= Sum(w, S)
  BY SumPartLess
<1> QED
  BY <1>1, <1>2, SumEmpty

\* One more term.
LEMMA SumAdd ==
    ASSUME NEW S, IsFiniteSet(S), NEW v, NEW w, NEW n, n \notin S, w[n] \in Int,
           \A x \in S : v[x] \in Int /\ v[x] = w[x]
    PROVE  Sum(w, S \union {n}) = Sum(v, S) + w[n] /\ Sum(v, S) \in Int
<1> DEFINE T == S \union {n}
<1>1. IsFiniteSet(T) /\ T \ {n} = S /\ n \in T /\ \A x \in T : w[x] \in Int
  BY FS_AddElement
<1> HIDE DEF T
<1>2. Sum(w, T) = w[n] + Sum(w, S)
  BY <1>1, SumRemove
<1>3. Sum(v, S) = Sum(w, S)
  BY SumSame
<1>4. Sum(v, S) \in Int
  BY SumType
<1> QED
  BY <1>2, <1>3, <1>4 DEF T
=============================================================================
