------------------------------ MODULE SumLemmas ------------------------------
(***************************************************************************)
(* What the sums of the module Functions compute: SumFunctionOnSet(f, S)   *)
(* for every finite S and every integer-valued f.  The modules of tpcc and *)
(* of sysbench add up their counters and their rows with them.             *)
(***************************************************************************)
EXTENDS Integers, FiniteSets, Functions, FiniteSetTheorems, WellFoundedInduction, TLAPS

(* Every non-empty set of finite subsets has a minimal member: the form in *)
(* which the proofs below use induction on finite sets.                    *)
LEMMA MinimalFiniteSet ==
    ASSUME NEW S, IsFiniteSet(S), NEW C, C \subseteq SUBSET S, C # {}
    PROVE  \E T \in C : \A U \in C : U \subseteq T => U = T
  <1>1. IsWellFoundedOn(StrictSubsetOrdering(S), SUBSET S)
    BY FS_StrictSubsetOrderingWellFounded, FS_FiniteSubsetsOfFinite
  <1>2. PICK T \in C : \A U \in C : ~ (<<U, T>> \in StrictSubsetOrdering(S))
    BY <1>1, WFMin
  <1> QED BY <1>2 DEF StrictSubsetOrdering

(* g adds up f over the subsets of S, in the order SumFunctionOnSet does. *)
AddsUp(g, f, S) ==
    g = [s \in SUBSET S |->
           IF s = {} THEN 0
           ELSE LET x == CHOOSE x \in s : TRUE IN f[x] + g[s \ {x}]]

(* Two functions that add up the same numbers agree on common subsets.    *)
LEMMA AddsUpUnique ==
    ASSUME NEW S, IsFiniteSet(S), NEW R, NEW f, NEW g, NEW h,
           S \subseteq R, AddsUp(g, f, S), AddsUp(h, f, R)
    PROVE  \A s \in SUBSET S : g[s] = h[s]
  <1> DEFINE C == {s \in SUBSET S : g[s] # h[s]}
  <1> SUFFICES ASSUME C # {} PROVE FALSE
    OBVIOUS
  <1>1. PICK T \in C : \A U \in C : U \subseteq T => U = T
    <2>1. C \subseteq SUBSET S
      OBVIOUS
    <2> HIDE DEF C
    <2> QED BY <2>1, MinimalFiniteSet
  <1> DEFINE x == CHOOSE x \in T : TRUE
  <1>2. T \in SUBSET S /\ T \in SUBSET R /\ g[T] # h[T]
    BY <1>1
  <1>3. g[T] = IF T = {} THEN 0 ELSE f[x] + g[T \ {x}]
    BY <1>2 DEF AddsUp
  <1>4. h[T] = IF T = {} THEN 0 ELSE f[x] + h[T \ {x}]
    BY <1>2 DEF AddsUp
  <1>5. T # {}
    BY <1>2, <1>3, <1>4
  <1>6. x \in T
    BY <1>5
  <1>7. T \ {x} \notin C
    BY <1>1, <1>6
  <1> QED BY <1>2, <1>3, <1>4, <1>7

(* On a finite set there is such a g ... *)
LEMMA AddsUpExists ==
    ASSUME NEW S, IsFiniteSet(S), NEW f
    PROVE  \E g : AddsUp(g, f, S)
  <1> DEFINE C == {R \in SUBSET S : ~ \E g : AddsUp(g, f, R)}
  <1> SUFFICES ASSUME C # {} PROVE FALSE
    OBVIOUS
  <1>1. PICK T \in C : \A U \in C : U \subseteq T => U = T
    <2>1. C \subseteq SUBSET S
      OBVIOUS
    <2> HIDE DEF C
    <2> QED BY <2>1, MinimalFiniteSet
  <1>2. \A R \in SUBSET T : IsFiniteSet(R)
    BY FS_Subset
  <1> DEFINE G(R) == (CHOOSE g : AddsUp(g, f, R))[R]
             g(R) == CHOOSE g : AddsUp(g, f, R)
             x(R) == CHOOSE x \in R : TRUE
             V(R) == IF R = {} THEN 0 ELSE f[x(R)] + G(R \ {x(R)})
             h == [R \in SUBSET T |-> IF R = T THEN V(T) ELSE G(R)]
  <1>3. ASSUME NEW R \in SUBSET T, R # T PROVE G(R) = V(R)
    <2>1. R \notin C
      BY <1>1, <1>3
    <2>2. AddsUp(g(R), f, R)
      BY <2>1
    <2>3. CASE R = {}
      BY <2>2, <2>3 DEF AddsUp
    <2>4. CASE R # {}
      <3>1. x(R) \in R
        BY <2>4
      <3> DEFINE Q == R \ {x(R)}
      <3>2. Q \notin C /\ Q \in SUBSET R
        BY <1>1, <1>3, <3>1
      <3>3. AddsUp(g(Q), f, Q)
        BY <3>2
      <3>4. \A s \in SUBSET Q : g(Q)[s] = g(R)[s]
        <4> HIDE DEF g, Q
        <4>1. IsFiniteSet(Q) /\ Q \subseteq R
          BY <1>2, <3>2
        <4> QED BY <4>1, <3>3, <2>2, AddsUpUnique
      <3>5. g(R)[R] = f[x(R)] + g(R)[Q]
        <4> HIDE DEF g
        <4> QED BY <2>2, <2>4 DEF AddsUp
      <3>6. g(Q)[Q] = g(R)[Q]
        BY <3>4
      <3> QED BY <2>4, <3>5, <3>6
    <2> QED BY <2>3, <2>4
  <1>4. ASSUME NEW R \in SUBSET T
        PROVE  h[R] = IF R = {} THEN 0 ELSE f[x(R)] + h[R \ {x(R)}]
    <2>1. V(R) = h[R]
      <3> HIDE DEF V, G
      <3> QED BY <1>3
    <2> HIDE DEF G
    <2>2. CASE R = {}
      BY <2>1, <2>2
    <2>3. CASE R # {}
      <3>1. x(R) \in R
        BY <2>3
      <3>2. R \ {x(R)} # T /\ R \ {x(R)} \in SUBSET T
        BY <3>1
      <3> QED BY <2>1, <2>3, <3>2
    <2> QED BY <2>2, <2>3
  <1>5. AddsUp(h, f, T)
    <2> HIDE DEF G, V
    <2>1. h = [R \in SUBSET T |-> h[R]]
      OBVIOUS
    <2> HIDE DEF h
    <2> QED BY <1>4, <2>1 DEF AddsUp
  <1> QED BY <1>1, <1>5

(* ... and SumFunctionOnSet returns its value. *)
LEMMA SumIs ==
    ASSUME NEW S, IsFiniteSet(S), NEW f
    PROVE  \E g : AddsUp(g, f, S) /\ SumFunctionOnSet(f, S) = g[S]
  <1> DEFINE g == CHOOSE g : AddsUp(g, f, S)
  <1>1. AddsUp(g, f, S)
    BY AddsUpExists
  <1>2. SumFunctionOnSet(f, S) = g[S]
    BY DEF SumFunctionOnSet, FoldFunctionOnSet, MapThenFoldSet, AddsUp
  <1> QED BY <1>1, <1>2

(* The sum of a finite set of integers is an integer ... *)
LEMMA SumType ==
    ASSUME NEW S, IsFiniteSet(S), NEW f, \A x \in S : f[x] \in Int
    PROVE  SumFunctionOnSet(f, S) \in Int
  <1>1. PICK g : AddsUp(g, f, S) /\ SumFunctionOnSet(f, S) = g[S]
    BY SumIs
  <1> DEFINE C == {s \in SUBSET S : g[s] \notin Int}
  <1> SUFFICES ASSUME C # {} PROVE FALSE
    BY <1>1
  <1>2. PICK T \in C : \A U \in C : U \subseteq T => U = T
    <2>1. C \subseteq SUBSET S
      OBVIOUS
    <2> HIDE DEF C
    <2> QED BY <2>1, MinimalFiniteSet
  <1> DEFINE x == CHOOSE x \in T : TRUE
  <1>3. g[T] = IF T = {} THEN 0 ELSE f[x] + g[T \ {x}]
    BY <1>1 DEF AddsUp
  <1>4. T # {} /\ x \in T
    BY <1>3
  <1>5. g[T \ {x}] \in Int
    BY <1>2, <1>4
  <1> QED BY <1>3, <1>4, <1>5

(* The sum over nothing is 0.                                             *)
LEMMA SumEmpty == ASSUME NEW f PROVE SumFunctionOnSet(f, {}) = 0
  <1>1. PICK g : AddsUp(g, f, {}) /\ SumFunctionOnSet(f, {}) = g[{}]
    BY SumIs, FS_EmptySet
  <1> QED BY <1>1 DEF AddsUp

(* The sum over a part of S is what the recursion over S gives for it. *)
LEMMA SumOfPart ==
    ASSUME NEW S, IsFiniteSet(S), NEW f, NEW g, AddsUp(g, f, S), NEW T \in SUBSET S
    PROVE  SumFunctionOnSet(f, T) = g[T]
  <1>1. IsFiniteSet(T)
    BY FS_Subset
  <1>2. PICK h : AddsUp(h, f, T) /\ SumFunctionOnSet(f, T) = h[T]
    BY <1>1, SumIs
  <1>3. h[T] = g[T]
    BY <1>1, <1>2, AddsUpUnique
  <1> QED BY <1>2, <1>3

(* Any element may be taken out: the order of the additions is irrelevant. *)
LEMMA SumRemove ==
    ASSUME NEW S, IsFiniteSet(S), NEW f, \A x \in S : f[x] \in Int, NEW y \in S
    PROVE  SumFunctionOnSet(f, S) = f[y] + SumFunctionOnSet(f, S \ {y})
  <1>1. PICK g : AddsUp(g, f, S) /\ SumFunctionOnSet(f, S) = g[S]
    BY SumIs
  <1>2. \A T \in SUBSET S : g[T] \in Int
    <2> SUFFICES ASSUME NEW T \in SUBSET S PROVE g[T] \in Int
      OBVIOUS
    <2>1. IsFiniteSet(T)
      BY FS_Subset
    <2> QED BY <1>1, <2>1, SumOfPart, SumType
  <1> DEFINE C == {T \in SUBSET S : \E z \in T : g[T] # f[z] + g[T \ {z}]}
  <1>3. C = {}
    <2> SUFFICES ASSUME C # {} PROVE FALSE
      OBVIOUS
    <2>1. PICK T \in C : \A U \in C : U \subseteq T => U = T
      <3>1. C \subseteq SUBSET S
        OBVIOUS
      <3> HIDE DEF C
      <3> QED BY <3>1, MinimalFiniteSet
    <2>2. PICK z \in T : g[T] # f[z] + g[T \ {z}]
      BY <2>1
    <2> DEFINE x == CHOOSE x \in T : TRUE
    <2>3. x \in T
      BY <2>2
    <2>4. g[T] = f[x] + g[T \ {x}]
      BY <1>1, <2>3 DEF AddsUp
    <2> HIDE DEF x
    <2>5. x # z
      BY <2>2, <2>4
    <2>6. T \ {x} \notin C /\ T \ {z} \notin C
      <3> HIDE DEF C
      <3> QED BY <2>1, <2>2, <2>3
    <2>7. g[T \ {x}] = f[z] + g[(T \ {x}) \ {z}]
      BY <2>2, <2>5, <2>6
    <2>8. g[T \ {z}] = f[x] + g[(T \ {z}) \ {x}]
      BY <2>3, <2>5, <2>6
    <2>9. (T \ {x}) \ {z} = (T \ {z}) \ {x}
      OBVIOUS
    <2>10. /\ T \in SUBSET S /\ f[x] \in Int /\ f[z] \in Int
           /\ g[(T \ {x}) \ {z}] \in Int
      BY <1>2, <2>2, <2>3
    <2>11. g[T \ {z}] = f[x] + g[(T \ {x}) \ {z}]
      BY <2>8, <2>9
    <2>12. \A a, b, c, d, e, i \in Int :
             a = b + c /\ c = d + i /\ e = b + i => a = d + e
      OBVIOUS
    <2>13. g[T] \in Int /\ g[T \ {x}] \in Int /\ g[T \ {z}] \in Int
      BY <1>2, <2>10
    <2> HIDE DEF C
    <2>14. g[T] = f[z] + g[T \ {z}]
      BY <2>4, <2>7, <2>10, <2>11, <2>12, <2>13
    <2> QED BY <2>2, <2>14
  <1>4. g[S] = f[y] + g[S \ {y}]
    BY <1>3
  <1>5. SumFunctionOnSet(f, S \ {y}) = g[S \ {y}]
    BY <1>1, SumOfPart
  <1> QED BY <1>1, <1>4, <1>5

(* The sum depends on the values on S only. *)
LEMMA SumSame ==
    ASSUME NEW S, IsFiniteSet(S), NEW f, NEW h, \A x \in S : f[x] = h[x]
    PROVE  SumFunctionOnSet(f, S) = SumFunctionOnSet(h, S)
  <1>1. PICK g : AddsUp(g, f, S) /\ SumFunctionOnSet(f, S) = g[S]
    BY SumIs
  <1>2. AddsUp(g, h, S)
    <2>1. ASSUME NEW s \in SUBSET S, s # {}
          PROVE  LET x == CHOOSE x \in s : TRUE IN f[x] = h[x]
      BY <2>1
    <2> QED BY <1>1, <2>1 DEF AddsUp
  <1> QED BY <1>1, <1>2, SumOfPart

(* A value that changes changes the sum by as much. *)
LEMMA SumChange ==
    ASSUME NEW S, IsFiniteSet(S), NEW f, NEW h, NEW y \in S,
           \A x \in S : f[x] \in Int /\ h[x] \in Int,
           \A x \in S \ {y} : f[x] = h[x]
    PROVE  SumFunctionOnSet(h, S) = SumFunctionOnSet(f, S) + (h[y] - f[y])
  <1>1. IsFiniteSet(S \ {y})
    BY FS_RemoveElement
  <1>2. SumFunctionOnSet(h, S \ {y}) = SumFunctionOnSet(f, S \ {y})
    BY <1>1, SumSame
  <1>3. SumFunctionOnSet(f, S \ {y}) \in Int
    BY <1>1, SumType
  <1>4. SumFunctionOnSet(f, S) = f[y] + SumFunctionOnSet(f, S \ {y})
    BY SumRemove
  <1>5. SumFunctionOnSet(h, S) = h[y] + SumFunctionOnSet(h, S \ {y})
    BY SumRemove
  <1> QED BY <1>2, <1>3, <1>4, <1>5

(* One element more adds its value. *)
LEMMA SumAdd ==
    ASSUME NEW S, IsFiniteSet(S), NEW f, NEW y, y \notin S,
           \A x \in S \cup {y} : f[x] \in Int
    PROVE  SumFunctionOnSet(f, S \cup {y}) = SumFunctionOnSet(f, S) + f[y]
  <1>1. IsFiniteSet(S \cup {y}) /\ (S \cup {y}) \ {y} = S
    BY FS_AddElement
  <1>2. SumFunctionOnSet(f, S \cup {y}) = f[y] + SumFunctionOnSet(f, S)
    BY <1>1, SumRemove
  <1> QED BY <1>2, SumType

(* A sum of natural numbers is one, and a sum of zeros is zero. *)
LEMMA SumNat ==
    ASSUME NEW S, IsFiniteSet(S), NEW f, \A x \in S : f[x] \in Nat
    PROVE  /\ SumFunctionOnSet(f, S) \in Nat
           /\ (\A x \in S : f[x] = 0) => SumFunctionOnSet(f, S) = 0
  <1>1. PICK g : AddsUp(g, f, S) /\ SumFunctionOnSet(f, S) = g[S]
    BY SumIs
  <1> DEFINE Z == \A x \in S : f[x] = 0
             C == {s \in SUBSET S : ~ (g[s] \in Nat /\ (Z => g[s] = 0))}
  <1> SUFFICES ASSUME C # {} PROVE FALSE
    BY <1>1
  <1>2. PICK T \in C : \A U \in C : U \subseteq T => U = T
    <2>1. C \subseteq SUBSET S
      OBVIOUS
    <2> HIDE DEF C
    <2> QED BY <2>1, MinimalFiniteSet
  <1> DEFINE x == CHOOSE x \in T : TRUE
  <1>3. g[T] = IF T = {} THEN 0 ELSE f[x] + g[T \ {x}]
    BY <1>1 DEF AddsUp
  <1>4. T # {} /\ x \in T
    BY <1>3
  <1>5. g[T \ {x}] \in Nat /\ (Z => g[T \ {x}] = 0)
    BY <1>2, <1>4
  <1> QED BY <1>3, <1>4, <1>5
==============================================================================
