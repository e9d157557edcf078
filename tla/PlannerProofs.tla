--------------------------- MODULE PlannerProofs ---------------------------
(***************************************************************************)
(* Facts about the allocator of module Planner: what the sums it is        *)
(* measured by add up to, what each iteration of a call keeps, and that    *)
(* every call ends.                                                        *)
(***************************************************************************)
EXTENDS Planner, TLAPS, FiniteSetTheorems, WellFoundedInduction

(***************************************************************************)
(* Induction.  The property to prove is a set, so that it can be cited.    *)
(***************************************************************************)
\* Every nonempty set of naturals has a least element.
LEMMA NatLeast ==
  ASSUME NEW T \in SUBSET Nat, T # {}
  PROVE  \E n \in T : \A m \in T : n <= m
<1>1. PICK n \in T : \A m \in T : ~ (<<m, n>> \in OpToRel(<, Nat))
  BY NatLessThanWellFounded, WFMin
<1>2. \A m \in T : ~ (m < n)
  BY <1>1 DEF OpToRel
<1> QED BY <1>2

\* Induction on the naturals, and on a finite set, for a set of those that have
\* the property.
LEMMA NatGrow ==
  ASSUME NEW G, 0 \in G, \A n \in Nat : n \in G => n + 1 \in G
  PROVE  Nat \subseteq G
<1> DEFINE Bad == Nat \ G
<1>1. SUFFICES ASSUME Bad # {} PROVE FALSE
  OBVIOUS
<1>2. PICK n \in Bad : \A m \in Bad : n <= m
  BY <1>1, NatLeast
<1>3. n # 0 /\ n \in Nat
  BY <1>2
<1>4. n - 1 \in Nat /\ n - 1 \notin Bad /\ (n - 1) + 1 = n
  BY <1>2, <1>3
<1> QED BY <1>2, <1>4

LEMMA SetInduction ==
  ASSUME NEW S, IsFiniteSet(S), NEW G,
         \A T \in SUBSET S : (\A U \in SUBSET T : U # T => U \in G) => T \in G
  PROVE  S \in G
<1> DEFINE Bad == {n \in Nat : \E X \in SUBSET S : Cardinality(X) = n /\ X \notin G}
<1>1. SUFFICES ASSUME S \notin G PROVE FALSE
  OBVIOUS
<1>2. \A X \in SUBSET S : IsFiniteSet(X) /\ Cardinality(X) \in Nat
  BY FS_Subset, FS_CardinalityType
<1>3. Cardinality(S) \in Bad
  BY <1>1, <1>2
<1>4. PICK n \in Bad : \A m \in Bad : n <= m
  BY <1>3, NatLeast
<1>5. PICK X \in SUBSET S : Cardinality(X) = n /\ X \notin G
  BY <1>4
<1>6. PICK U \in SUBSET X : U # X /\ U \notin G
  BY <1>5
<1>7. Cardinality(U) < n /\ Cardinality(U) \in Nat /\ U \in SUBSET S
  BY <1>2, <1>5, <1>6, FS_Subset
<1> QED BY <1>4, <1>6, <1>7

LEMMA SetGrow ==
  ASSUME NEW S, IsFiniteSet(S), NEW G, {} \in G,
         \A T \in SUBSET S : \A x \in S \ T : T \in G => T \cup {x} \in G
  PROVE  S \in G
<1>1. ASSUME NEW T \in SUBSET S, \A U \in SUBSET T : U # T => U \in G
      PROVE  T \in G
  <2>1. CASE T = {}
    BY <2>1
  <2>2. ASSUME NEW x \in T PROVE T \in G
    <3>1. T \ {x} \in G /\ T \ {x} \in SUBSET S /\ x \in S \ (T \ {x}) /\ (T \ {x}) \cup {x} = T
      BY <1>1
    <3> QED BY <3>1
  <2> QED BY <2>1, <2>2
<1> QED BY <1>1, SetInduction

\* A function from the naturals to numbers may be defined from its first value
\* and a step.
LEMMA NatRecursion ==
  ASSUME NEW a \in Int, NEW h \in [Nat \X Int -> Int]
  PROVE  \E f \in [Nat -> Int] :
           \A n \in Nat : f[n] = IF n = 0 THEN a ELSE h[<<n - 1, f[n - 1]>>]
<1> DEFINE Good(n, f) ==
             /\ f \in [0..n -> Int]
             /\ \A i \in 0..n : f[i] = IF i = 0 THEN a ELSE h[<<i - 1, f[i - 1]>>]
           G == {n \in Nat : \E f : Good(n, f)}
           Part(n) == CHOOSE f : Good(n, f)
           whole == [n \in Nat |-> Part(n)[n]]
<1>1. 0 \in G
  <2>1. Good(0, [i \in 0..0 |-> a])
    OBVIOUS
  <2> QED BY <2>1
<1>2. ASSUME NEW n \in Nat, NEW f, Good(n, f)
      PROVE  Good(n + 1, [i \in 0..(n + 1) |-> IF i = n + 1 THEN h[<<n, f[n]>>] ELSE f[i]])
  <2> DEFINE g == [i \in 0..(n + 1) |-> IF i = n + 1 THEN h[<<n, f[n]>>] ELSE f[i]]
  <2>1. f[n] \in Int /\ h[<<n, f[n]>>] \in Int
    BY <1>2
  <2>2. g \in [0..(n + 1) -> Int]
    BY <1>2, <2>1
  <2>3. ASSUME NEW i \in 0..(n + 1)
        PROVE  g[i] = IF i = 0 THEN a ELSE h[<<i - 1, g[i - 1]>>]
    <3>1. CASE i = n + 1
      <4>1. n \in 0..(n + 1) /\ n # n + 1 /\ i # 0 /\ i - 1 = n
        BY <3>1
      <4>2. g[i - 1] = f[n] /\ g[i] = h[<<n, f[n]>>]
        BY <3>1, <4>1
      <4> HIDE DEF g
      <4> QED BY <4>1, <4>2
    <3>2. CASE i \in 0..n
      <4>1. g[i] = f[i] /\ (i # 0 => g[i - 1] = f[i - 1])
        BY <3>2
      <4>2. f[i] = IF i = 0 THEN a ELSE h[<<i - 1, f[i - 1]>>]
        BY <1>2, <3>2
      <4> HIDE DEF g
      <4> QED BY <4>1, <4>2
    <3> QED
      <4>1. i = n + 1 \/ i \in 0..n
        OBVIOUS
      <4> HIDE DEF g
      <4> QED BY <3>1, <3>2, <4>1
  <2> QED BY <2>2, <2>3
<1>3. ASSUME NEW n \in Nat, n \in G PROVE n + 1 \in G
  <2>1. PICK f : Good(n, f)
    BY <1>3
  <2>2. Good(n + 1, [i \in 0..(n + 1) |-> IF i = n + 1 THEN h[<<n, f[n]>>] ELSE f[i]])
    <3> HIDE DEF Good
    <3> QED BY <1>2, <2>1
  <2> HIDE DEF Good
  <2> QED BY <2>2
<1> HIDE DEF G
<1>4. Nat \subseteq G
  BY <1>1, <1>3, NatGrow
<1>5. ASSUME NEW n \in Nat PROVE Good(n, Part(n))
  BY <1>4 DEF G
<1> HIDE DEF Part
<1> DEFINE E == {k \in Nat : \A n \in Nat : k <= n => Part(n)[k] = Part(k)[k]}
<1>6. Nat \subseteq E
  <2>1. ASSUME NEW n \in Nat PROVE Part(n)[0] = a
    <3>1. Good(n, Part(n))
      BY <1>5
    <3>2. 0 \in 0..n
      OBVIOUS
    <3> QED BY <3>1, <3>2
  <2>2. 0 \in E
    BY <2>1
  <2>3. ASSUME NEW k \in Nat, NEW n \in Nat, k + 1 <= n
        PROVE  Part(n)[k + 1] = h[<<k, Part(n)[k]>>]
    <3>1. Good(n, Part(n))
      BY <1>5
    <3>2. k + 1 \in 0..n /\ k + 1 # 0 /\ (k + 1) - 1 = k
      BY <2>3
    <3> QED BY <3>1, <3>2
  <2>4. ASSUME NEW k \in Nat, k \in E PROVE k + 1 \in E
    <3> SUFFICES ASSUME NEW n \in Nat, k + 1 <= n
                 PROVE  Part(n)[k + 1] = Part(k + 1)[k + 1]
      OBVIOUS
    <3>1. Part(n)[k] = Part(k)[k] /\ Part(k + 1)[k] = Part(k)[k]
      BY <2>4
    <3>2. /\ Part(n)[k + 1] = h[<<k, Part(n)[k]>>]
          /\ Part(k + 1)[k + 1] = h[<<k, Part(k + 1)[k]>>]
      BY <2>3
    <3> QED BY <3>1, <3>2
  <2> HIDE DEF E
  <2> QED BY <2>2, <2>4, NatGrow
<1>7. whole \in [Nat -> Int]
  <2>1. ASSUME NEW n \in Nat PROVE Part(n)[n] \in Int
    <3>1. Good(n, Part(n)) BY <1>5
    <3> QED BY <3>1
  <2> QED BY <2>1
<1>8. ASSUME NEW n \in Nat PROVE whole[n] = IF n = 0 THEN a ELSE h[<<n - 1, whole[n - 1]>>]
  <2>1. Good(n, Part(n))
    BY <1>5
  <2>2. Part(n)[n] = IF n = 0 THEN a ELSE h[<<n - 1, Part(n)[n - 1]>>]
    BY <2>1
  <2>3. ASSUME n # 0 PROVE n - 1 \in Nat /\ Part(n)[n - 1] = Part(n - 1)[n - 1]
    <3>1. n - 1 \in Nat /\ n - 1 <= n
      BY <2>3
    <3>2. n - 1 \in E
      BY <1>6, <3>1
    <3> QED BY <3>1, <3>2
  <2> HIDE DEF Good
  <2> QED BY <2>2, <2>3
<1> HIDE DEF whole
<1> QED BY <1>7, <1>8

\* A finite nonempty set has a member on which f is largest.
LEMMA FiniteArgMax ==
  ASSUME NEW S, IsFiniteSet(S), S # {}, NEW f \in [S -> Int]
  PROVE  \E k \in S : \A j \in S : f[k] >= f[j]
<1> DEFINE G == {T \in SUBSET S : T # {} => \E k \in T : \A j \in T : f[k] >= f[j]}
<1>1. ASSUME NEW T \in SUBSET S, NEW x \in S \ T, T \in G
      PROVE  T \cup {x} \in G
  <2>1. CASE T = {}
    <3>1. \A j \in T \cup {x} : f[x] >= f[j]
      BY <2>1
    <3> QED BY <3>1
  <2>2. CASE T # {}
    <3>1. PICK k \in T : \A j \in T : f[k] >= f[j]
      BY <1>1, <2>2
    <3>2. f[k] \in Int /\ f[x] \in Int /\ \A j \in T : f[j] \in Int
      OBVIOUS
    <3>3. \E m \in {k, x} : \A j \in T \cup {x} : f[m] >= f[j]
      BY <3>1, <3>2
    <3> QED BY <3>3
  <2> QED BY <2>1, <2>2
<1>2. {} \in G
  OBVIOUS
<1> HIDE DEF G
<1>3. S \in G
  BY <1>1, <1>2, SetGrow
<1> QED BY <1>3 DEF G

(***************************************************************************)
(* Sums.  The fold is a recursive function on the subsets; it has one      *)
(* solution, and the order in which it takes the members does not matter.  *)
(***************************************************************************)
First(T) == CHOOSE x \in T : TRUE

IsSum(g, f, S) ==
  g = [T \in SUBSET S |-> IF T = {} THEN 0 ELSE f[First(T)] + g[T \ {First(T)}]]

Folded(f, S) == CHOOSE g : IsSum(g, f, S)

LEMMA SumIs == \A f, S : SumOver(f, S) = Folded(f, S)[S]
BY DEF SumOver, MapThenSumSet, MapThenFoldSet, Folded, IsSum, First

LEMMA FirstIn == \A T : T # {} => First(T) \in T
BY DEF First

LEMMA SumEquation ==
  ASSUME NEW f, NEW S, NEW g, IsSum(g, f, S), NEW T \in SUBSET S
  PROVE  g[T] = IF T = {} THEN 0 ELSE f[First(T)] + g[T \ {First(T)}]
<1> DEFINE h == [X \in SUBSET S |-> IF X = {} THEN 0 ELSE f[First(X)] + g[X \ {First(X)}]]
<1>1. g = h
  BY DEF IsSum
<1>2. h[T] = IF T = {} THEN 0 ELSE f[First(T)] + g[T \ {First(T)}]
  OBVIOUS
<1> HIDE DEF h
<1> QED BY <1>1, <1>2

LEMMA SumUnique ==
  ASSUME NEW f, NEW S, NEW R, NEW g, NEW h, IsSum(g, f, S), IsSum(h, f, R),
         NEW U \in SUBSET S, U \in SUBSET R, IsFiniteSet(U)
  PROVE  g[U] = h[U]
<1> DEFINE G == {T \in SUBSET U : g[T] = h[T]}
<1>1. ASSUME NEW T \in SUBSET U, \A V \in SUBSET T : V # T => V \in G
      PROVE  T \in G
  <2>1. g[T] = IF T = {} THEN 0 ELSE f[First(T)] + g[T \ {First(T)}]
    BY SumEquation
  <2>2. h[T] = IF T = {} THEN 0 ELSE f[First(T)] + h[T \ {First(T)}]
    BY SumEquation
  <2>3. T # {} => g[T \ {First(T)}] = h[T \ {First(T)}]
    BY <1>1, FirstIn
  <2> QED BY <2>1, <2>2, <2>3
<1> HIDE DEF G
<1>2. U \in G
  BY <1>1, SetInduction
<1> QED BY <1>2 DEF G

\* A set's solution is put together from those of its subsets.
LEMMA SumExists ==
  ASSUME NEW f, NEW S, IsFiniteSet(S)
  PROVE  IsSum(Folded(f, S), f, S)
<1> DEFINE G == {T \in SUBSET S : IsSum(Folded(f, T), f, T)}
<1>1. ASSUME NEW X \in SUBSET S, \A V \in SUBSET X : V # X => V \in G
      PROVE  X \in G
  <2> DEFINE rest(T) == T \ {First(T)}
             val(T) == IF T = {} THEN 0 ELSE f[First(T)] + Folded(f, rest(T))[rest(T)]
             g == [T \in SUBSET X |-> val(T)]
  <2>1. ASSUME NEW T \in SUBSET X, T # {}
        PROVE  rest(T) \in SUBSET X /\ IsSum(Folded(f, rest(T)), f, rest(T)) /\ IsFiniteSet(rest(T))
    <3>1. First(T) \in T
      BY <2>1, FirstIn
    <3>2. rest(T) \in SUBSET X /\ rest(T) # X
      BY <3>1
    <3>3. rest(T) \in G /\ IsFiniteSet(rest(T))
      BY <1>1, <3>2, FS_Subset
    <3> QED BY <3>2, <3>3
  <2>2. ASSUME NEW T \in SUBSET X, T # {}
        PROVE  g[rest(T)] = Folded(f, rest(T))[rest(T)]
    <3> DEFINE U == rest(T)
    <3>1. U \in SUBSET X /\ IsSum(Folded(f, U), f, U) /\ IsFiniteSet(U) /\ U \in SUBSET U
      BY <2>1, <2>2
    <3>2. g[U] = val(U)
      BY <3>1
    <3> HIDE DEF U, g
    <3>3. Folded(f, U)[U] = IF U = {} THEN 0 ELSE f[First(U)] + Folded(f, U)[rest(U)]
      BY <3>1, SumEquation
    <3>4. ASSUME U # {} PROVE Folded(f, U)[rest(U)] = Folded(f, rest(U))[rest(U)]
      <4> DEFINE V == rest(U)
      <4>1. IsSum(Folded(f, V), f, V) /\ V \in SUBSET U /\ V \in SUBSET V /\ IsFiniteSet(V)
        BY <2>1, <3>1, <3>4
      <4> HIDE DEF V
      <4>2. Folded(f, U)[V] = Folded(f, V)[V]
        BY <3>1, <4>1, SumUnique
      <4> QED BY <4>2 DEF V
    <3>5. g[U] = Folded(f, U)[U]
      BY <3>2, <3>3, <3>4
    <3> QED BY <3>5 DEF U
  <2>3. IsSum(g, f, X)
    <3>1. ASSUME NEW T \in SUBSET X
          PROVE  val(T) = IF T = {} THEN 0 ELSE f[First(T)] + g[rest(T)]
      <4> HIDE DEF g
      <4> QED BY <2>2
    <3>2. g = [T \in SUBSET X |-> IF T = {} THEN 0 ELSE f[First(T)] + g[rest(T)]]
      <4> HIDE DEF val, rest
      <4> QED BY <3>1
    <3> QED BY <3>2 DEF IsSum
  <2>4. IsSum(Folded(f, X), f, X)
    <3> HIDE DEF g
    <3> QED BY <2>3 DEF Folded
  <2> QED BY <2>4
<1> HIDE DEF G
<1>2. S \in G
  BY <1>1, SetInduction
<1> QED BY <1>2 DEF G

LEMMA SumEmpty == \A f : SumOver(f, {}) = 0
<1> SUFFICES ASSUME NEW f PROVE SumOver(f, {}) = 0
  OBVIOUS
<1>1. IsSum(Folded(f, {}), f, {})
  BY FS_EmptySet, SumExists
<1>2. Folded(f, {})[{}] = 0
  <2> DEFINE g == Folded(f, {})
  <2> HIDE DEF g
  <2>1. IsSum(g, f, {}) /\ {} \in SUBSET {}
    BY <1>1 DEF g
  <2>2. g[{}] = 0
    BY <2>1, SumEquation
  <2> QED BY <2>2 DEF g
<1> QED BY <1>2, SumIs

LEMMA SumFirst ==
  ASSUME NEW f, NEW S, IsFiniteSet(S), S # {}
  PROVE  SumOver(f, S) = f[First(S)] + SumOver(f, S \ {First(S)})
<1> DEFINE R == S \ {First(S)}
<1>1. IsSum(Folded(f, S), f, S) /\ IsSum(Folded(f, R), f, R) /\ IsFiniteSet(R)
  BY SumExists, FS_Subset
<1>2. SumOver(f, S) = Folded(f, S)[S] /\ SumOver(f, R) = Folded(f, R)[R]
  BY SumIs
<1> HIDE DEF R
<1>3. Folded(f, S)[S] = f[First(S)] + Folded(f, S)[R]
  BY <1>1, SumEquation DEF R
<1>4. Folded(f, S)[R] = Folded(f, R)[R]
  <2>1. R \in SUBSET S /\ R \in SUBSET R
    BY DEF R
  <2> QED BY <1>1, <2>1, SumUnique
<1> QED BY <1>2, <1>3, <1>4 DEF R

\* Any member may be taken first.
LEMMA SumFacts ==
  ASSUME NEW f, NEW S, IsFiniteSet(S), \A k \in S : f[k] \in Int
  PROVE  /\ SumOver(f, S) \in Int
         /\ \A x \in S : SumOver(f, S) = f[x] + SumOver(f, S \ {x})
<1> DEFINE G == {T \in SUBSET S : /\ SumOver(f, T) \in Int
                                  /\ \A x \in T : SumOver(f, T) = f[x] + SumOver(f, T \ {x})}
<1>1. ASSUME NEW T \in SUBSET S, \A U \in SUBSET T : U # T => U \in G
      PROVE  T \in G
  <2>1. CASE T = {}
    BY <2>1, SumEmpty
  <2>2. CASE T # {}
    <3> DEFINE c == First(T)
               R == T \ {c}
    <3>1. c \in T /\ IsFiniteSet(T) /\ R \in SUBSET T /\ R # T
      BY <2>2, FirstIn, FS_Subset
    <3>2. SumOver(f, T) = f[c] + SumOver(f, R)
      BY <2>2, <3>1, SumFirst
    <3> HIDE DEF c
    <3>3. f[c] \in Int /\ SumOver(f, R) \in Int /\ SumOver(f, T) \in Int
      BY <1>1, <3>1, <3>2
    <3>4. ASSUME NEW x \in T PROVE SumOver(f, T) = f[x] + SumOver(f, T \ {x})
      <4>1. CASE x = c
        BY <3>2, <4>1
      <4>2. CASE x # c
        <5> DEFINE V == T \ {x}
                   W == R \ {x}
        <5>1. x \in R /\ c \in V /\ V \ {c} = W /\ W \in SUBSET T /\ W # T /\ V \in SUBSET T /\ V # T
          BY <3>1, <4>2
        <5>2. V \in G /\ R \in G /\ W \in G
          BY <1>1, <3>1, <5>1
        <5>3. SumOver(f, R) = f[x] + SumOver(f, W)
          BY <5>1, <5>2
        <5>4. SumOver(f, V) = f[c] + SumOver(f, W) /\ SumOver(f, W) \in Int
          BY <5>1, <5>2
        <5>5. f[x] \in Int
          OBVIOUS
        <5> HIDE DEF V, W, R
        <5>6. SumOver(f, T) = f[x] + SumOver(f, V)
          BY <3>2, <3>3, <5>3, <5>4, <5>5
        <5> QED BY <5>6 DEF V
      <4> QED BY <4>1, <4>2
    <3> QED BY <3>3, <3>4
  <2> QED BY <2>1, <2>2
<1> HIDE DEF G
<1>2. S \in G
  BY <1>1, SetInduction
<1> QED BY <1>2 DEF G

LEMMA SumAdd ==
  ASSUME NEW f, NEW S, IsFiniteSet(S), \A k \in S : f[k] \in Int, NEW x, x \notin S, f[x] \in Int
  PROVE  SumOver(f, S \cup {x}) = f[x] + SumOver(f, S)
<1> DEFINE T == S \cup {x}
<1>1. IsFiniteSet(T) /\ (\A k \in T : f[k] \in Int) /\ x \in T /\ T \ {x} = S
  BY FS_AddElement
<1> HIDE DEF T
<1>2. SumOver(f, T) = f[x] + SumOver(f, T \ {x})
  BY <1>1, SumFacts
<1> QED BY <1>1, <1>2 DEF T

\* Termwise order carries over, and so does termwise equality.
LEMMA SumOrder ==
  ASSUME NEW f, NEW g, NEW S, IsFiniteSet(S), 
         \A k \in S : f[k] \in Int /\ g[k] \in Int /\ f[k] <= g[k]
  PROVE  SumOver(f, S) <= SumOver(g, S)
<1> DEFINE G == {T \in SUBSET S : SumOver(f, T) <= SumOver(g, T)}
<1>1. {} \in G
  BY SumEmpty
<1>2. ASSUME NEW T \in SUBSET S, NEW x \in S \ T, T \in G
      PROVE  T \cup {x} \in G
  <2>1. IsFiniteSet(T) /\ \A k \in T : f[k] \in Int /\ g[k] \in Int
    BY FS_Subset
  <2>2. SumOver(f, T) \in Int /\ SumOver(g, T) \in Int
    BY <2>1, SumFacts
  <2>3. f[x] \in Int /\ g[x] \in Int /\ f[x] <= g[x]
    OBVIOUS
  <2>4. SumOver(f, T \cup {x}) = f[x] + SumOver(f, T) /\ SumOver(g, T \cup {x}) = g[x] + SumOver(g, T)
    BY <2>1, <2>3, SumAdd
  <2> QED BY <1>2, <2>2, <2>3, <2>4
<1> HIDE DEF G
<1>3. S \in G
  BY <1>1, <1>2, SetGrow
<1> QED BY <1>3 DEF G

LEMMA SumCongruent ==
  ASSUME NEW f, NEW g, NEW S, IsFiniteSet(S), \A k \in S : f[k] \in Int /\ g[k] = f[k]
  PROVE  SumOver(g, S) = SumOver(f, S)
<1>1. SumOver(f, S) <= SumOver(g, S)
  BY SumOrder
<1>2. SumOver(g, S) <= SumOver(f, S)
  BY SumOrder
<1>3. SumOver(f, S) \in Int /\ SumOver(g, S) \in Int
  BY SumFacts
<1> QED BY <1>1, <1>2, <1>3

LEMMA SumNat ==
  ASSUME NEW f, NEW S, IsFiniteSet(S), \A k \in S : f[k] \in Nat
  PROVE  SumOver(f, S) \in Nat
<1> DEFINE G == {T \in SUBSET S : SumOver(f, T) \in Nat}
<1>1. {} \in G
  BY SumEmpty
<1>2. ASSUME NEW T \in SUBSET S, NEW x \in S \ T, T \in G
      PROVE  T \cup {x} \in G
  <2>1. IsFiniteSet(T) /\ (\A k \in T : f[k] \in Int) /\ f[x] \in Nat
    BY FS_Subset
  <2>2. SumOver(f, T \cup {x}) = f[x] + SumOver(f, T)
    BY <2>1, SumAdd
  <2> QED BY <1>2, <2>1, <2>2
<1> HIDE DEF G
<1>3. S \in G
  BY <1>1, <1>2, SetGrow
<1> QED BY <1>3 DEF G

\* The sum of a sum.
LEMMA SumPlus ==
  ASSUME NEW f, NEW g, NEW h, NEW S, IsFiniteSet(S),
         \A k \in S : f[k] \in Int /\ g[k] \in Int /\ h[k] = f[k] + g[k]
  PROVE  SumOver(h, S) = SumOver(f, S) + SumOver(g, S)
<1> DEFINE G == {T \in SUBSET S : SumOver(h, T) = SumOver(f, T) + SumOver(g, T)}
<1>1. {} \in G
  BY SumEmpty
<1>2. ASSUME NEW T \in SUBSET S, NEW x \in S \ T, T \in G
      PROVE  T \cup {x} \in G
  <2>1. IsFiniteSet(T) /\ \A k \in T \cup {x} : f[k] \in Int /\ g[k] \in Int /\ h[k] \in Int
    BY FS_Subset
  <2>2. SumOver(f, T) \in Int /\ SumOver(g, T) \in Int /\ SumOver(h, T) \in Int
    BY <2>1, SumFacts
  <2>3. /\ SumOver(f, T \cup {x}) = f[x] + SumOver(f, T)
        /\ SumOver(g, T \cup {x}) = g[x] + SumOver(g, T)
        /\ SumOver(h, T \cup {x}) = h[x] + SumOver(h, T)
    BY <2>1, SumAdd
  <2>4. h[x] = f[x] + g[x] /\ f[x] \in Int /\ g[x] \in Int
    OBVIOUS
  <2> QED BY <1>2, <2>2, <2>3, <2>4
<1> HIDE DEF G
<1>3. S \in G
  BY <1>1, <1>2, SetGrow
<1> QED BY <1>3 DEF G

\* One term changes.
LEMMA SumChange ==
  ASSUME NEW f, NEW g, NEW S, IsFiniteSet(S), NEW x \in S,
         \A k \in S : f[k] \in Int /\ g[k] \in Int,
         \A k \in S \ {x} : g[k] = f[k]
  PROVE  SumOver(g, S) = SumOver(f, S) + g[x] - f[x]
<1>1. SumOver(g, S) = g[x] + SumOver(g, S \ {x}) /\ SumOver(f, S) = f[x] + SumOver(f, S \ {x})
  BY SumFacts
<1>2. IsFiniteSet(S \ {x})
  BY FS_Subset
<1>3. SumOver(g, S \ {x}) = SumOver(f, S \ {x}) /\ SumOver(f, S \ {x}) \in Int
  BY <1>2, SumCongruent, SumFacts
<1> QED BY <1>1, <1>3

\* Two sets that have nothing in common.
LEMMA SumUnion ==
  ASSUME NEW f, NEW S, NEW R, IsFiniteSet(S), IsFiniteSet(R), S \cap R = {},
         \A k \in S \cup R : f[k] \in Int
  PROVE  SumOver(f, S \cup R) = SumOver(f, S) + SumOver(f, R)
<1> DEFINE G == {T \in SUBSET R : SumOver(f, S \cup T) = SumOver(f, S) + SumOver(f, T)}
<1>1. {} \in G
  <2>1. S \cup {} = S /\ SumOver(f, S) \in Int
    BY SumFacts
  <2> QED BY <2>1, SumEmpty
<1>2. ASSUME NEW T \in SUBSET R, NEW x \in R \ T, T \in G
      PROVE  T \cup {x} \in G
  <2> DEFINE U == S \cup T
  <2>1. IsFiniteSet(T) /\ IsFiniteSet(U) /\ x \notin U /\ S \cup (T \cup {x}) = U \cup {x}
    BY FS_Subset, FS_Union
  <2>2. (\A k \in T : f[k] \in Int) /\ (\A k \in U : f[k] \in Int) /\ f[x] \in Int
    OBVIOUS
  <2>3. SumOver(f, U) = SumOver(f, S) + SumOver(f, T)
    BY <1>2
  <2> HIDE DEF U
  <2>4. SumOver(f, S) \in Int /\ SumOver(f, T) \in Int
    BY <2>1, <2>2, SumFacts
  <2>5. SumOver(f, T \cup {x}) = f[x] + SumOver(f, T) /\ SumOver(f, U \cup {x}) = f[x] + SumOver(f, U)
    BY <2>1, <2>2, SumAdd
  <2>6. f[x] + SumOver(f, U) = SumOver(f, S) + (f[x] + SumOver(f, T))
    BY <2>2, <2>3, <2>4
  <2>7. SumOver(f, S \cup (T \cup {x})) = SumOver(f, S) + SumOver(f, T \cup {x})
    BY <2>1, <2>5, <2>6
  <2> QED BY <2>7
<1> HIDE DEF G
<1>3. R \in G
  BY <1>1, <1>2, SetGrow
<1> QED BY <1>3 DEF G

\* A part costs no more than the whole.
LEMMA SumSubset ==
  ASSUME NEW f, NEW S, IsFiniteSet(S), \A k \in S : f[k] \in Nat, NEW T \in SUBSET S
  PROVE  SumOver(f, T) \in Nat /\ SumOver(f, S) \in Nat /\ SumOver(f, T) <= SumOver(f, S)
<1> DEFINE R == S \ T
<1>1. /\ IsFiniteSet(T) /\ IsFiniteSet(R) /\ T \cap R = {} /\ T \cup R = S
      /\ \A k \in T \cup R : f[k] \in Int
      /\ \A k \in T : f[k] \in Nat
      /\ \A k \in R : f[k] \in Nat
  BY FS_Subset
<1> HIDE DEF R
<1>2. SumOver(f, T) \in Nat /\ SumOver(f, R) \in Nat
  BY <1>1, SumNat
<1>3. SumOver(f, T \cup R) = SumOver(f, T) + SumOver(f, R)
  BY <1>1, SumUnion
<1>4. SumOver(f, S) = SumOver(f, T) + SumOver(f, R)
  BY <1>1, <1>3
<1> QED BY <1>2, <1>4

(***************************************************************************)
(* The inductive invariant, as a predicate on a call and its frame: it is  *)
(* well typed, within bounds and never overspent, and the donors of a      *)
(* round are of lower priority than its taker, so that no member is both.  *)
(***************************************************************************)
InWindows(in, s) ==
  \A k \in in.members : in.lo[k] <= s.alloc[k] /\ s.alloc[k] <= WantClamped(in, k)

Sound(in, s) ==
  /\ s \in Frame(in)
  /\ s.donors # {} => s.share # 0
  /\ s.pc = "round" =>
       /\ s.taker \in in.members
       /\ \A t \in s.donors : in.prio[t] < in.prio[s.taker]
  /\ InWindows(in, s)
  /\ s.spare >= Smaller(0, in.gap - FloorCost(in))

CallOK(in) == WellFormed(in) /\ FloorCost(in) \in Nat

LEMMA WantClampedType ==
  ASSUME NEW in, WellFormed(in), NEW k \in in.members
  PROVE  /\ WantClamped(in, k) \in Nat /\ in.lo[k] \in Nat
         /\ in.lo[k] <= WantClamped(in, k)
         /\ Floor(in, k) \in Nat
         /\ in.lo[k] <= Floor(in, k) /\ Floor(in, k) <= WantClamped(in, k)
<1>1. /\ in.lo[k] \in Nat /\ in.hi[k] \in Nat /\ in.want[k] \in Int
      /\ in.current[k] \in Nat /\ in.lo[k] <= in.hi[k]
  BY DEF WellFormed
<1> QED BY <1>1 DEF WantClamped, Floor, Larger, Smaller

\* The highest of some of a pool's tiers is one of them.
LEMMA TopTierType ==
  ASSUME NEW in, WellFormed(in), NEW P \in SUBSET Tiers(in), P # {}
  PROVE  TopTier(P) \in P /\ TopTier(P) \in Int /\ \A p \in P : TopTier(P) >= p
<1> DEFINE S == {k \in in.members : in.prio[k] \in P}
           f == [k \in S |-> in.prio[k]]
<1>1. IsFiniteSet(S)
  BY FS_Subset DEF WellFormed
<1>2. S # {} /\ f \in [S -> Int] /\ \A p \in P : \E k \in S : p = f[k]
  BY DEF WellFormed, Tiers
<1>3. PICK k \in S : \A j \in S : f[k] >= f[j]
  BY <1>1, <1>2, FiniteArgMax
<1>4. f[k] \in P /\ f[k] \in Int /\ \A p \in P : f[k] >= p
  BY <1>2, <1>3
<1> QED BY <1>2, <1>4 DEF TopTier, Max

(***************************************************************************)
(* Each iteration keeps it.                                                *)
(***************************************************************************)
LEMMA StartSound ==
  ASSUME NEW in, CallOK(in)
  PROVE  Sound(in, Start(in))
<1> DEFINE s == Start(in)
<1>1. in.gap - FloorCost(in) \in Int
  BY DEF CallOK, WellFormed
<1>2. \A k \in in.members : /\ Floor(in, k) \in Nat
                            /\ in.lo[k] <= Floor(in, k)
                            /\ Floor(in, k) <= WantClamped(in, k)
  BY WantClampedType DEF CallOK
<1>3. in.members # {} => TopTier(Tiers(in)) \in Int
  BY TopTierType DEF CallOK, Tiers
<1>4. s \in Frame(in)
  BY <1>1, <1>2, <1>3 DEF Start, Floors, Frame, TierMembers
<1>5. InWindows(in, s)
  BY <1>2 DEF InWindows, Start, Floors
<1>6. s.spare >= Smaller(0, in.gap - FloorCost(in))
  BY <1>1 DEF Start, Smaller
<1> QED BY <1>4, <1>5, <1>6 DEF Sound, Start

\* A bump is paid from the spare and goes to a member that lacks a replica.
LEMMA VisitSound ==
  ASSUME NEW in, CallOK(in), NEW s, Sound(in, s), s.pc = "sweep", NEW k \in in.members
  PROVE  Sound(in, Visit(in, s, k))
<1> DEFINE b == in.gap - FloorCost(in)
           t == Visit(in, s, k)
<1>1. /\ s \in Frame(in) /\ s.alloc \in [in.members -> Nat] /\ s.spare \in Int
      /\ b \in Int /\ in.gpr[k] \in Nat
  BY DEF Sound, Frame, CallOK, WellFormed
<1>2. CASE ~Bumpable(in, s, k)
  BY <1>1, <1>2 DEF Visit, Sound, Frame, InWindows
<1>3. CASE Bumpable(in, s, k)
  <2> DEFINE alloc == Plus(s.alloc, k, 1)
  <2>1. alloc = [s.alloc EXCEPT ![k] = @ + 1] /\ alloc \in [in.members -> Nat]
    BY <1>1 DEF Plus
  <2>2. /\ t \in Frame(in) /\ t.pc = s.pc /\ t.donors = s.donors /\ t.share = s.share
        /\ t.alloc = alloc /\ t.spare = s.spare - in.gpr[k]
    <3> DEFINE spare == s.spare - in.gpr[k]
    <3>1. t = [s EXCEPT !.alloc = alloc, !.spare = spare,
                        !.progressed = TRUE, !.todo = @ \ {k}]
      BY <1>3 DEF Visit
    <3>2. spare \in Int
      BY <1>1
    <3> HIDE DEF alloc, spare, t
    <3>3. t \in Frame(in)
      BY <1>1, <2>1, <3>1, <3>2 DEF Frame
    <3>4. /\ t.pc = s.pc /\ t.donors = s.donors /\ t.share = s.share
          /\ t.alloc = alloc /\ t.spare = spare
      BY <1>1, <3>1 DEF Frame
    <3> QED BY <3>3, <3>4 DEF spare
  <2>3. s.alloc[k] + 1 <= WantClamped(in, k)
    BY <1>1, <1>3, WantClampedType DEF Bumpable, Deficit, CallOK
  <2>4. InWindows(in, t)
    BY <1>1, <2>1, <2>2, <2>3, WantClampedType DEF InWindows, Sound, CallOK
  <2>5. t.spare >= Smaller(0, b)
    BY <1>1, <1>3, <2>2 DEF Bumpable, Smaller
  <2> QED BY <2>2, <2>4, <2>5 DEF Sound
<1> QED BY <1>2, <1>3

\* The iterations that move no replica.
LEMMA NextSweepSound ==
  ASSUME NEW in, NEW s, Sound(in, s)
  PROVE  Sound(in, NextSweep(in, s))
BY DEF NextSweep, TierMembers, Sound, Frame, InWindows

LEMMA NextTierSound ==
  ASSUME NEW in, CallOK(in), NEW s, Sound(in, s), LowerTiers(in, s) # {}
  PROVE  Sound(in, NextTier(in, s))
<1>1. TopTier(LowerTiers(in, s)) \in Int
  BY TopTierType DEF CallOK, LowerTiers
<1> QED BY <1>1 DEF NextTier, TierMembers, Sound, Frame, InWindows

LEMMA EndSweepsSound ==
  ASSUME NEW in, NEW s, Sound(in, s), s.pc = "sweep"
  PROVE  Sound(in, EndSweeps(in, s))
BY DEF EndSweeps, Hungry, Sound, Frame, InWindows

LEMMA DismissSound ==
  ASSUME NEW in, NEW s, Sound(in, s), NEW k
  PROVE  Sound(in, Dismiss(s, k))
BY DEF Dismiss, Sound, Frame, InWindows

LEMMA PhaseSound ==
  ASSUME NEW in, NEW s, Sound(in, s)
  PROVE  Sound(in, CloseRound(s)) /\ Sound(in, Finish(s))
BY DEF CloseRound, Finish, Sound, Frame, InWindows

\* A round has as many donors as it divides its need by.
LEMMA OpenRoundSound ==
  ASSUME NEW in, CallOK(in), NEW s, Sound(in, s), NEW k \in in.members
  PROVE  Sound(in, OpenRound(in, s, k))
<1> DEFINE donors == LowestTier(in, Donors(in, s, k))
           need == Deficit(in, s, k) * in.gpr[k]
           t == OpenRound(in, s, k)
<1>1. /\ donors \in SUBSET in.members
      /\ \A d \in donors : in.prio[d] < in.prio[k]
  BY DEF LowestTier, Donors
<1>2. Cardinality(donors) \in Nat /\ (donors # {} => Cardinality(donors) # 0)
  <2>1. IsFiniteSet(donors)
    BY <1>1, FS_Subset DEF CallOK, WellFormed
  <2> QED BY <2>1, FS_CardinalityType, FS_EmptySet
<1>3. need \in Int /\ k \in Nat
  <2>1. s.alloc[k] \in Int /\ in.gpr[k] \in Int /\ k \in Nat
    BY DEF Sound, Frame, CallOK, WellFormed
  <2> QED BY <2>1, WantClampedType DEF CallOK, Deficit
<1>4. t = [s EXCEPT !.pc = "round", !.taker = k, !.donors = donors,
                    !.share = Cardinality(donors), !.need = need]
  BY DEF OpenRound
<1> HIDE DEF donors, need, t
<1>5. /\ t \in Frame(in)
      /\ t.donors = donors /\ t.share = Cardinality(donors) /\ t.taker = k
      /\ t.alloc = s.alloc /\ t.spare = s.spare
  BY <1>1, <1>2, <1>3, <1>4 DEF Sound, Frame
<1>6. Sound(in, t)
  BY <1>1, <1>2, <1>5 DEF Sound, InWindows
<1> QED BY <1>6 DEF t

\* What whole replicas of a size cost is at most what they are cut from.
LEMMA QuotientCost ==
  ASSUME NEW freed \in Nat, NEW size \in Nat \ {0}, NEW n \in Nat, n <= freed \div size
  PROVE  n * size <= freed /\ n * size \in Nat
<1>1. (freed \div size) * size <= freed /\ freed \div size \in Nat
  OBVIOUS
<1>2. n * size <= (freed \div size) * size
  BY <1>1
<1> QED BY <1>1, <1>2

\* What one donation moves: n replicas of the donor, which keeps its floor, and
\* m for the taker, which gets at most what it lacks; what is freed pays for it.
LEMMA DonateFacts ==
  ASSUME NEW in, CallOK(in), NEW s, Sound(in, s), s.pc = "round", NEW d \in s.donors
  PROVE  LET t == Donate(in, s, d)
             k == s.taker
         IN  /\ t \in Frame(in)
             /\ t.pc = s.pc /\ t.queue = s.queue /\ t.taker = k /\ t.share = s.share
             /\ t.need = s.need /\ t.donors = s.donors \ {d}
             /\ \/ t.alloc = s.alloc /\ t.spare = s.spare
                \/ \E n \in Nat \ {0}, m \in Nat :
                     /\ n <= s.alloc[d] - in.lo[d]
                     /\ s.alloc[k] + m <= WantClamped(in, k)
                     /\ m * in.gpr[k] <= n * in.gpr[d]
                     /\ t.alloc = Plus(Plus(s.alloc, d, -n), k, m)
                     /\ t.spare = s.spare + n * in.gpr[d] - m * in.gpr[k]
<1> DEFINE k == s.taker
           take == Take(in, s, d)
           freed == take * in.gpr[d]
           bumps == Bumps(in, s, freed)
           t == Donate(in, s, d)
<1>1. /\ s \in Frame(in) /\ s.alloc \in [in.members -> Nat] /\ s.spare \in Int
      /\ s.need \in Int /\ s.share \in Nat \ {0}
      /\ d \in in.members /\ k \in in.members /\ d # k
      /\ s.alloc[d] \in Nat /\ s.alloc[k] \in Nat
  BY DEF Sound, Frame, CallOK, WellFormed
<1>2. /\ in.gpr[d] \in Nat \ {0} /\ in.gpr[k] \in Nat \ {0} /\ in.lo[d] \in Nat
      /\ WantClamped(in, k) \in Nat
  BY <1>1, WantClampedType DEF CallOK, WellFormed
<1>3. take \in Int /\ take <= s.alloc[d] - in.lo[d]
  <2>1. s.share * in.gpr[d] \in Nat \ {0}
    BY <1>1, <1>2
  <2>2. CeilDiv(s.need, s.share * in.gpr[d]) \in Int
    BY <1>1, <2>1 DEF CeilDiv
  <2> QED BY <1>1, <1>2, <2>2 DEF Take, Smaller
<1>4. CASE take <= 0
  <2>1. t = [s EXCEPT !.donors = @ \ {d}]
    BY <1>4 DEF Donate
  <2> HIDE DEF t
  <2>2. /\ t \in Frame(in)
        /\ t.pc = s.pc /\ t.queue = s.queue /\ t.taker = k /\ t.share = s.share
        /\ t.need = s.need /\ t.donors = s.donors \ {d}
        /\ t.alloc = s.alloc /\ t.spare = s.spare
    BY <1>1, <2>1 DEF Frame
  <2> QED BY <2>2 DEF t
<1>5. CASE ~ (take <= 0)
  <2> DEFINE alloc == Plus(Plus(s.alloc, d, -take), k, bumps)
             spare == s.spare + freed - bumps * in.gpr[k]
  <2>1. take \in Nat \ {0} /\ freed \in Nat
    BY <1>2, <1>3, <1>5
  <2>2. bumps \in Nat /\ s.alloc[k] + bumps <= WantClamped(in, k) /\ bumps <= freed \div in.gpr[k]
    <3>1. WantClamped(in, k) - s.alloc[k] \in Nat
      BY <1>1, <1>2 DEF Sound, InWindows
    <3>2. freed \div in.gpr[k] \in Nat
      BY <1>2, <2>1, SMTT(30)
    <3> HIDE DEF freed
    <3> QED BY <1>1, <1>2, <3>1, <3>2 DEF Bumps, Deficit, Smaller
  <2>3. bumps * in.gpr[k] <= freed /\ bumps * in.gpr[k] \in Nat
    BY <1>2, <2>1, <2>2, QuotientCost
  <2>4. t = [s EXCEPT !.donors = @ \ {d}, !.alloc = alloc, !.spare = spare]
    BY <1>5 DEF Donate
  <2> HIDE DEF take, bumps, t
  <2>5. alloc \in [in.members -> Nat]
    BY <1>1, <1>2, <1>3, <2>1, <2>2 DEF Plus
  <2>6. spare \in Int
    BY <1>1, <2>1, <2>3
  <2> HIDE DEF alloc, spare
  <2>7. /\ t \in Frame(in)
        /\ t.pc = s.pc /\ t.queue = s.queue /\ t.taker = k /\ t.share = s.share
        /\ t.need = s.need /\ t.donors = s.donors \ {d}
        /\ t.alloc = alloc /\ t.spare = spare
    BY <1>1, <2>4, <2>5, <2>6 DEF Frame
  <2> USE DEF alloc, spare
  <2> HIDE DEF k
  <2>8. \E n \in Nat \ {0}, m \in Nat :
          /\ n <= s.alloc[d] - in.lo[d]
          /\ s.alloc[k] + m <= WantClamped(in, k)
          /\ m * in.gpr[k] <= n * in.gpr[d]
          /\ t.alloc = Plus(Plus(s.alloc, d, -n), k, m)
          /\ t.spare = s.spare + n * in.gpr[d] - m * in.gpr[k]
    <3> HIDE DEF freed, alloc, spare
    <3>1. /\ take <= s.alloc[d] - in.lo[d]
          /\ s.alloc[k] + bumps <= WantClamped(in, k)
          /\ bumps * in.gpr[k] <= take * in.gpr[d]
          /\ t.alloc = Plus(Plus(s.alloc, d, -take), k, bumps)
          /\ t.spare = s.spare + take * in.gpr[d] - bumps * in.gpr[k]
      BY <1>3, <2>2, <2>3, <2>7 DEF freed, alloc, spare
    <3> QED BY <2>1, <2>2, <3>1, ZenonT(30)
  <2> QED BY <2>7, <2>8 DEF t, k
<1> QED BY <1>4, <1>5

\* The same, member by member.
LEMMA DonateMoves ==
  ASSUME NEW in, CallOK(in), NEW s, Sound(in, s), s.pc = "round", NEW d \in s.donors
  PROVE  LET t == Donate(in, s, d)
             k == s.taker
         IN  /\ in.lo[d] <= t.alloc[d] /\ t.alloc[d] <= s.alloc[d]
             /\ s.alloc[k] <= t.alloc[k] /\ t.alloc[k] <= WantClamped(in, k)
             /\ \A j \in in.members \ {d, k} : t.alloc[j] = s.alloc[j]
             /\ t.spare >= s.spare
             /\ t.alloc # s.alloc => t.alloc[d] < s.alloc[d]
<1> DEFINE t == Donate(in, s, d)
           k == s.taker
           Moved == /\ in.lo[d] <= t.alloc[d] /\ t.alloc[d] <= s.alloc[d]
                    /\ s.alloc[k] <= t.alloc[k] /\ t.alloc[k] <= WantClamped(in, k)
                    /\ \A j \in in.members \ {d, k} : t.alloc[j] = s.alloc[j]
                    /\ t.spare >= s.spare
                    /\ t.alloc # s.alloc => t.alloc[d] < s.alloc[d]
<1>1. /\ s.alloc \in [in.members -> Nat] /\ s.spare \in Int
      /\ d \in in.members /\ k \in in.members /\ d # k
      /\ s.alloc[d] \in Nat /\ s.alloc[k] \in Nat /\ in.lo[d] \in Nat
      /\ in.gpr[d] \in Nat /\ in.gpr[k] \in Nat
  BY DEF Sound, Frame, CallOK, WellFormed
<1>2. in.lo[d] <= s.alloc[d] /\ s.alloc[k] <= WantClamped(in, k)
  BY <1>1 DEF Sound, InWindows
<1>3. ASSUME t.alloc = s.alloc, t.spare = s.spare PROVE Moved
  <2> HIDE DEF t, k
  <2> QED BY <1>1, <1>2, <1>3
<1>4. ASSUME NEW n \in Nat \ {0}, NEW m \in Nat,
             n <= s.alloc[d] - in.lo[d],
             s.alloc[k] + m <= WantClamped(in, k),
             m * in.gpr[k] <= n * in.gpr[d],
             t.alloc = Plus(Plus(s.alloc, d, -n), k, m),
             t.spare = s.spare + n * in.gpr[d] - m * in.gpr[k]
      PROVE  Moved
  <2> HIDE DEF t, k
  <2>1. /\ t.alloc[d] = s.alloc[d] - n /\ t.alloc[k] = s.alloc[k] + m
        /\ \A j \in in.members \ {d, k} : t.alloc[j] = s.alloc[j]
    BY <1>1, <1>4 DEF Plus
  <2>2. n * in.gpr[d] \in Nat /\ m * in.gpr[k] \in Nat
    BY <1>1
  <2>3. t.spare >= s.spare
    BY <1>1, <1>4, <2>2
  <2> QED BY <1>1, <1>4, <2>1, <2>3
<1> QED BY <1>3, <1>4, DonateFacts

LEMMA DonateSound ==
  ASSUME NEW in, CallOK(in), NEW s, Sound(in, s), s.pc = "round", NEW d \in s.donors
  PROVE  Sound(in, Donate(in, s, d))
<1> DEFINE t == Donate(in, s, d)
           k == s.taker
<1>1. /\ t \in Frame(in) /\ t.pc = s.pc /\ t.taker = k /\ t.share = s.share
      /\ t.donors = s.donors \ {d}
  BY DonateFacts
<1>2. /\ in.lo[d] <= t.alloc[d]
      /\ s.alloc[k] <= t.alloc[k] /\ t.alloc[k] <= WantClamped(in, k)
      /\ t.alloc[d] <= s.alloc[d] /\ t.spare >= s.spare
      /\ \A j \in in.members \ {d, k} : t.alloc[j] = s.alloc[j]
  BY DonateMoves
<1> HIDE DEF t
<1>3. \A j \in in.members :
        /\ in.lo[j] <= s.alloc[j] /\ s.alloc[j] <= WantClamped(in, j)
        /\ in.lo[j] \in Nat /\ WantClamped(in, j) \in Nat
        /\ s.alloc[j] \in Nat /\ t.alloc[j] \in Nat
  BY <1>1, WantClampedType DEF Sound, InWindows, Frame, CallOK
<1>4. InWindows(in, t)
  <2> SUFFICES ASSUME NEW j \in in.members
               PROVE  in.lo[j] <= t.alloc[j] /\ t.alloc[j] <= WantClamped(in, j)
    BY DEF InWindows
  <2> QED BY <1>2, <1>3
<1>5. t.spare >= Smaller(0, in.gap - FloorCost(in))
  <2>1. t.spare >= s.spare /\ s.spare \in Int /\ t.spare \in Int
    BY <1>1, <1>2 DEF Sound, Frame
  <2>2. in.gap - FloorCost(in) \in Int
    BY DEF CallOK, WellFormed
  <2> QED BY <2>1, <2>2 DEF Sound, Smaller
<1>6. Sound(in, t)
  BY <1>1, <1>4, <1>5 DEF Sound
<1> QED BY <1>6 DEF t

(***************************************************************************)
(* The priority pass: nobody above the tier of the sweep can be bumped,    *)
(* and nobody of the tier whom a sweep without progress has passed.        *)
(***************************************************************************)
Swept(in, s) ==
  s.pc = "sweep" =>
    /\ s.todo \subseteq TierMembers(in, s.tier)
    /\ \A j \in in.members : in.prio[j] > s.tier => ~Bumpable(in, s, j)
    /\ ~s.progressed =>
         \A j \in in.members :
           in.prio[j] = s.tier /\ j \notin s.todo => ~Bumpable(in, s, j)

LEMMA StartSwept ==
  ASSUME NEW in, CallOK(in)
  PROVE  Swept(in, Start(in))
<1> DEFINE s == Start(in)
<1>1. SUFFICES ASSUME in.members # {} PROVE Swept(in, s)
  BY DEF Start, Swept
<1>2. s.tier = TopTier(Tiers(in)) /\ s.todo = TierMembers(in, s.tier)
  BY <1>1 DEF Start
<1>3. \A p \in Tiers(in) : s.tier >= p
  <2>1. Tiers(in) # {} /\ Tiers(in) \in SUBSET Tiers(in)
    BY <1>1 DEF Tiers
  <2> QED BY <1>2, <2>1, TopTierType DEF CallOK
<1>4. s.tier \in Int /\ \A j \in in.members : in.prio[j] \in Int /\ s.tier >= in.prio[j]
  <2>1. s \in Frame(in)
    BY StartSound DEF Sound
  <2> QED BY <1>3, <2>1 DEF Tiers, Frame, CallOK, WellFormed
<1> HIDE DEF s
<1> QED BY <1>2, <1>4 DEF Swept, TierMembers

\* What cannot be bumped stays so while its own replicas do not change and
\* the spare does not grow.
LEMMA StillStuck ==
  ASSUME NEW in, CallOK(in), NEW s, s.spare \in Int, NEW t, t.spare \in Int, t.spare <= s.spare,
         NEW j \in in.members, t.alloc[j] = s.alloc[j], ~Bumpable(in, s, j)
  PROVE  ~Bumpable(in, t, j)
<1>1. in.gpr[j] \in Int
  BY DEF CallOK, WellFormed
<1> QED BY <1>1 DEF Bumpable, Deficit

LEMMA VisitFacts ==
  ASSUME NEW in, CallOK(in), NEW s, Sound(in, s), NEW k \in in.members
  PROVE  LET t == Visit(in, s, k)
         IN  /\ t.pc = s.pc /\ t.tier = s.tier /\ t.todo = s.todo \ {k}
             /\ t.spare \in Int /\ s.spare \in Int /\ t.spare <= s.spare
             /\ \A j \in in.members \ {k} : t.alloc[j] = s.alloc[j]
             /\ Bumpable(in, s, k) => /\ t.progressed
                                      /\ t.alloc[k] = s.alloc[k] + 1
                                      /\ t.spare = s.spare - in.gpr[k]
             /\ ~Bumpable(in, s, k) => /\ t.alloc = s.alloc /\ t.spare = s.spare
                                       /\ t.progressed = s.progressed
<1>1. s \in Frame(in) /\ s.alloc \in [in.members -> Nat] /\ s.spare \in Int /\ in.gpr[k] \in Nat
  BY DEF Sound, Frame, CallOK, WellFormed
<1>2. CASE Bumpable(in, s, k)
  <2> DEFINE alloc == Plus(s.alloc, k, 1)
             spare == s.spare - in.gpr[k]
             t == Visit(in, s, k)
  <2>1. alloc[k] = s.alloc[k] + 1 /\ \A j \in in.members \ {k} : alloc[j] = s.alloc[j]
    BY <1>1 DEF Plus
  <2>2. t = [s EXCEPT !.alloc = alloc, !.spare = spare, !.progressed = TRUE, !.todo = @ \ {k}]
    BY <1>2 DEF Visit
  <2>3. spare = s.spare - in.gpr[k] /\ spare \in Int /\ spare <= s.spare
    BY <1>1
  <2> HIDE DEF alloc, spare, t
  <2>4. /\ t.pc = s.pc /\ t.tier = s.tier /\ t.todo = s.todo \ {k}
        /\ t.spare = spare /\ t.alloc = alloc /\ t.progressed
    BY <1>1, <2>2 DEF Frame
  <2> QED BY <1>1, <1>2, <2>1, <2>3, <2>4 DEF t
<1>3. CASE ~Bumpable(in, s, k)
  BY <1>1, <1>3 DEF Visit, Frame
<1> QED BY <1>2, <1>3

LEMMA VisitSwept ==
  ASSUME NEW in, CallOK(in), NEW s, Sound(in, s), Swept(in, s), s.pc = "sweep", NEW k \in s.todo
  PROVE  Swept(in, Visit(in, s, k))
<1> DEFINE t == Visit(in, s, k)
<1>1. k \in in.members /\ in.prio[k] = s.tier /\ s.tier \in Int
  BY DEF Swept, TierMembers, Sound, Frame
<1>2. /\ t.pc = s.pc /\ t.tier = s.tier /\ t.todo = s.todo \ {k}
      /\ t.spare \in Int /\ s.spare \in Int /\ t.spare <= s.spare
      /\ \A j \in in.members \ {k} : t.alloc[j] = s.alloc[j]
      /\ Bumpable(in, s, k) => t.progressed
      /\ ~Bumpable(in, s, k) => t.alloc = s.alloc /\ t.progressed = s.progressed
  BY <1>1, VisitFacts
<1> HIDE DEF t
<1>3. \A j \in in.members : in.prio[j] > t.tier => ~Bumpable(in, t, j)
  BY <1>1, <1>2, StillStuck DEF Swept
<1>4. ASSUME ~t.progressed, NEW j \in in.members, in.prio[j] = t.tier, j \notin t.todo
      PROVE  ~Bumpable(in, t, j)
  <2>1. ~Bumpable(in, s, j)
    BY <1>2, <1>4 DEF Swept
  <2> QED BY <1>2, <1>4, <2>1, StillStuck
<1>5. Swept(in, t)
  BY <1>2, <1>3, <1>4 DEF Swept
<1> QED BY <1>5 DEF t

LEMMA NextSweepSwept ==
  ASSUME NEW in, NEW s, Sound(in, s), Swept(in, s)
  PROVE  Swept(in, NextSweep(in, s))
BY DEF NextSweep, Swept, Sound, Frame, TierMembers, Bumpable, Deficit

\* A sweep without progress leaves nobody of its tier to bump, and the next
\* tier is the highest below it.
LEMMA NextTierSwept ==
  ASSUME NEW in, CallOK(in), NEW s, Sound(in, s), Swept(in, s), s.pc = "sweep",
         s.todo = {}, ~s.progressed, LowerTiers(in, s) # {}
  PROVE  Swept(in, NextTier(in, s))
<1> DEFINE t == NextTier(in, s)
           top == TopTier(LowerTiers(in, s))
<1>1. top \in Int /\ \A p \in LowerTiers(in, s) : top >= p
  BY TopTierType DEF CallOK, LowerTiers
<1>2. t = [s EXCEPT !.tier = top, !.todo = TierMembers(in, top)]
  BY DEF NextTier
<1> HIDE DEF t, top
<1>3. /\ t.pc = s.pc /\ t.tier = top /\ t.todo = TierMembers(in, top)
      /\ t.alloc = s.alloc /\ t.spare = s.spare
  BY <1>2 DEF Sound, Frame
<1>4. \A j \in in.members : in.prio[j] \in Int /\ in.prio[j] \in Tiers(in) /\ s.tier \in Int
  BY DEF CallOK, WellFormed, Tiers, Sound, Frame
<1>5. ASSUME NEW j \in in.members, in.prio[j] > top PROVE ~Bumpable(in, t, j)
  <2>1. ~ (in.prio[j] < s.tier)
    BY <1>1, <1>4, <1>5 DEF LowerTiers
  <2>2. ~Bumpable(in, s, j)
    BY <1>4, <2>1 DEF Swept
  <2> QED BY <1>3, <2>2 DEF Bumpable, Deficit
<1>6. Swept(in, t)
  BY <1>3, <1>5 DEF Swept, TierMembers
<1> QED BY <1>6 DEF t

\* After the last tier nobody can be bumped.
LEMMA PassLeavesNobody ==
  ASSUME NEW in, CallOK(in), NEW s, Sound(in, s), Swept(in, s), s.pc = "sweep",
         s.todo = {}, ~s.progressed, LowerTiers(in, s) = {}, NEW j \in in.members
  PROVE  ~Bumpable(in, s, j)
<1>1. in.prio[j] \in Int /\ s.tier \in Int /\ in.prio[j] \in Tiers(in)
  BY DEF CallOK, WellFormed, Tiers, Sound, Frame
<1>2. ~ (in.prio[j] < s.tier)
  BY <1>1 DEF LowerTiers
<1> QED BY <1>1, <1>2 DEF Swept

(***************************************************************************)
(* Preemption: below a hungry member that has had its turn everything is   *)
(* at its floor, and so is everything below the donors of a round.  A      *)
(* donor may go hungry by giving; it is then above nothing that can give.  *)
(***************************************************************************)
AtFloor(in, s, t) == s.alloc[t] <= in.lo[t]

Preempted(in, s) ==
  /\ s.pc # "sweep" =>
       \A k, t \in in.members :
         in.prio[t] < in.prio[k] /\ Deficit(in, s, k) > 0 /\ k \notin s.queue
           => AtFloor(in, s, t)
  /\ s.pc = "round" =>
       /\ s.taker \in s.queue
       /\ \A d \in s.donors, t \in in.members : in.prio[t] < in.prio[d] => AtFloor(in, s, t)
  /\ s.pc = "done" => s.queue = {}

LEMMA StartPreempted ==
  ASSUME NEW in, NEW s, s = Start(in)
  PROVE  Preempted(in, s)
BY DEF Start, Preempted

\* Iterations of the priority pass but for the last leave the phase alone.
LEMMA SweepPreempted ==
  ASSUME NEW in, NEW s, NEW t, s.pc = "sweep", t.pc = s.pc
  PROVE  Preempted(in, t)
BY DEF Preempted

LEMMA EndSweepsPreempted ==
  ASSUME NEW in, NEW s, Sound(in, s)
  PROVE  Preempted(in, EndSweeps(in, s))
BY DEF EndSweeps, Hungry, Sound, Frame, Preempted, Deficit

LEMMA DismissPreempted ==
  ASSUME NEW in, CallOK(in), NEW s, Sound(in, s), Preempted(in, s), s.pc = "preempt",
         NEW k \in in.members, Served(in, s, k)
  PROVE  Preempted(in, Dismiss(s, k))
<1> DEFINE t == Dismiss(s, k)
<1>1. /\ t.pc = "preempt" /\ t.alloc = s.alloc /\ t.queue = s.queue \ {k}
  BY DEF Dismiss, Sound, Frame
<1>2. \A j \in in.members : in.lo[j] \in Int /\ s.alloc[j] \in Int /\ WantClamped(in, j) \in Int
  BY WantClampedType DEF CallOK, Sound, Frame
<1>3. ASSUME NEW j \in in.members, in.prio[j] < in.prio[k], Deficit(in, s, k) > 0
      PROVE  AtFloor(in, s, j)
  BY <1>2, <1>3 DEF Served, Donors, AtFloor, Deficit
<1> HIDE DEF t
<1>4. Preempted(in, t)
  BY <1>1, <1>3 DEF Preempted, AtFloor, Deficit
<1> QED BY <1>4 DEF t

LEMMA OpenRoundPreempted ==
  ASSUME NEW in, CallOK(in), NEW s, Sound(in, s), Preempted(in, s), s.pc = "preempt",
         NEW k \in s.queue
  PROVE  Preempted(in, OpenRound(in, s, k))
<1> DEFINE donors == LowestTier(in, Donors(in, s, k))
           t == OpenRound(in, s, k)
<1>1. /\ t.pc = "round" /\ t.alloc = s.alloc /\ t.queue = s.queue
      /\ t.taker = k /\ t.donors = donors
  BY DEF OpenRound, Sound, Frame
<1>2. \A j \in in.members : in.lo[j] \in Int /\ s.alloc[j] \in Int /\ in.prio[j] \in Int
  BY WantClampedType DEF CallOK, WellFormed, Sound, Frame
<1>3. ASSUME NEW d \in donors, NEW j \in in.members, in.prio[j] < in.prio[d]
      PROVE  AtFloor(in, s, j)
  <2>1. d \in in.members /\ in.prio[d] < in.prio[k] /\ k \in in.members
    BY DEF LowestTier, Donors, Sound, Frame
  <2>2. j \notin Donors(in, s, k)
    BY <1>2, <1>3, <2>1 DEF LowestTier
  <2> QED BY <1>2, <1>3, <2>1, <2>2 DEF Donors, AtFloor
<1> HIDE DEF t, donors
<1>4. Preempted(in, t)
  BY <1>1, <1>3 DEF Preempted, AtFloor, Deficit
<1> QED BY <1>4 DEF t

LEMMA DonatePreempted ==
  ASSUME NEW in, CallOK(in), NEW s, Sound(in, s), Preempted(in, s), s.pc = "round",
         NEW d \in s.donors
  PROVE  Preempted(in, Donate(in, s, d))
<1> DEFINE t == Donate(in, s, d)
<1>1. /\ t.pc = s.pc /\ t.queue = s.queue /\ t.taker = s.taker
      /\ t.donors = s.donors \ {d}
      /\ t.alloc # s.alloc =>
           /\ in.lo[d] <= t.alloc[d] /\ t.alloc[d] < s.alloc[d]
           /\ \A m \in in.members \ {d, s.taker} : t.alloc[m] = s.alloc[m]
  BY DonateFacts, DonateMoves
<1>2. /\ t \in Frame(in)
      /\ \A m \in in.members : /\ t.alloc[m] \in Int /\ s.alloc[m] \in Int
                               /\ in.lo[m] \in Int /\ in.prio[m] \in Int
  <2>1. Sound(in, t)
    BY DonateSound
  <2> HIDE DEF t
  <2>2. t \in Frame(in) /\ s \in Frame(in)
    BY <2>1 DEF Sound
  <2> QED BY <2>2 DEF Frame, CallOK, WellFormed
<1>3. s.taker \in in.members /\ d \in in.members /\ in.prio[d] < in.prio[s.taker]
  BY DEF Sound, Frame
<1> HIDE DEF t
<1>4. CASE t.alloc = s.alloc
  <2>1. Preempted(in, t)
    BY <1>1, <1>4 DEF Preempted, AtFloor, Deficit
  <2> QED BY <2>1 DEF t
<1>5. CASE t.alloc # s.alloc
  \* Whoever but the taker was at its floor is there still.
  <2>1. \A m \in in.members \ {s.taker} : AtFloor(in, s, m) => AtFloor(in, t, m)
    BY <1>1, <1>2, <1>5 DEF AtFloor
  <2>2. ASSUME NEW k \in in.members, NEW m \in in.members, in.prio[m] < in.prio[k],
               Deficit(in, t, k) > 0, k \notin t.queue
        PROVE  AtFloor(in, t, m)
    <3>1. k # s.taker
      BY <1>1, <2>2 DEF Preempted
    <3>2. CASE k = d
      <4>1. AtFloor(in, s, m) /\ m # s.taker
        BY <1>2, <1>3, <2>2, <3>2 DEF Preempted
      <4> QED BY <2>1, <4>1
    <3>3. CASE k # d
      <4>1. Deficit(in, s, k) > 0
        BY <1>1, <1>5, <2>2, <3>1, <3>3 DEF Deficit
      <4>2. \A n \in in.members : in.prio[n] < in.prio[k] => AtFloor(in, s, n)
        BY <1>1, <2>2, <4>1 DEF Preempted
      <4>3. m # s.taker
        BY <1>1, <1>2, <1>3, <1>5, <2>2, <4>2 DEF AtFloor
      <4> QED BY <2>1, <2>2, <4>2, <4>3
    <3> QED BY <3>2, <3>3
  <2>3. ASSUME NEW e \in t.donors, NEW m \in in.members, in.prio[m] < in.prio[e]
        PROVE  AtFloor(in, t, m)
    <3>1. e \in s.donors /\ e \in in.members /\ in.prio[e] < in.prio[s.taker]
      BY <1>1, <2>3 DEF Sound, Frame
    <3>2. AtFloor(in, s, m) /\ m # s.taker
      BY <1>2, <1>3, <2>3, <3>1 DEF Preempted
    <3> QED BY <2>1, <3>2
  <2>4. Preempted(in, t)
    BY <1>1, <2>2, <2>3 DEF Preempted
  <2> QED BY <2>4 DEF t
<1> QED BY <1>4, <1>5

LEMMA PhasePreempted ==
  ASSUME NEW in, NEW s, Sound(in, s), Preempted(in, s)
  PROVE  /\ s.pc = "round" => Preempted(in, CloseRound(s))
         /\ s.pc = "preempt" /\ s.queue = {} => Preempted(in, Finish(s))
BY DEF CloseRound, Finish, Sound, Frame, Preempted, AtFloor, Deficit

(***************************************************************************)
(* GPUs: what an allocation costs and how a call accounts for it.          *)
(***************************************************************************)
Costs(in, a) == [k \in in.members |-> a[k] * in.gpr[k]]

LEMMA CostsType ==
  ASSUME NEW in, WellFormed(in), NEW a \in [in.members -> Int]
  PROVE  /\ IsFiniteSet(in.members)
         /\ \A k \in in.members : Costs(in, a)[k] \in Int
         /\ Cost(in, a) = SumOver(Costs(in, a), in.members)
         /\ Cost(in, a) \in Int
<1>1. \A k \in in.members : a[k] \in Int /\ in.gpr[k] \in Int
  BY DEF WellFormed
<1>2. IsFiniteSet(in.members) /\ \A k \in in.members : Costs(in, a)[k] \in Int
  BY <1>1 DEF WellFormed, Costs
<1>3. Cost(in, a) = SumOver(Costs(in, a), in.members)
  BY DEF Cost, Costs
<1> QED BY <1>2, <1>3, SumFacts

LEMMA FloorCostType ==
  ASSUME NEW in, WellFormed(in)
  PROVE  CallOK(in)
<1> DEFINE f == [k \in in.members |-> Larger(0, Floor(in, k) - in.current[k]) * in.gpr[k]]
<1>1. ASSUME NEW k \in in.members PROVE f[k] \in Nat
  <2>1. Floor(in, k) \in Int /\ in.current[k] \in Int /\ in.gpr[k] \in Nat
    BY WantClampedType DEF WellFormed
  <2>2. Larger(0, Floor(in, k) - in.current[k]) \in Nat
    BY <2>1 DEF Larger
  <2> QED BY <2>1, <2>2
<1>2. IsFiniteSet(in.members) /\ FloorCost(in) = SumOver(f, in.members)
  BY DEF FloorCost, WellFormed
<1> HIDE DEF f
<1> QED BY <1>1, <1>2, SumNat DEF CallOK

\* Costs of two allocations, compared and added.
LEMMA CostOrder ==
  ASSUME NEW in, WellFormed(in), NEW a \in [in.members -> Int], NEW b \in [in.members -> Int],
         \A k \in in.members : a[k] <= b[k]
  PROVE  Cost(in, a) <= Cost(in, b)
<1> DEFINE f == Costs(in, a)
           g == Costs(in, b)
<1>1. /\ IsFiniteSet(in.members) /\ \A k \in in.members : f[k] \in Int /\ g[k] \in Int
      /\ Cost(in, a) = SumOver(f, in.members) /\ Cost(in, b) = SumOver(g, in.members)
  BY CostsType
<1>2. ASSUME NEW k \in in.members PROVE f[k] <= g[k]
  <2>1. a[k] \in Int /\ b[k] \in Int /\ a[k] <= b[k] /\ in.gpr[k] \in Nat
    BY DEF WellFormed
  <2>2. \A x, y \in Int, n \in Nat : x <= y => x * n <= y * n
    OBVIOUS
  <2>3. f[k] = a[k] * in.gpr[k] /\ g[k] = b[k] * in.gpr[k]
    BY DEF Costs
  <2> HIDE DEF f, g
  <2> QED BY <2>1, <2>2, <2>3
<1> HIDE DEF f, g
<1> QED BY <1>1, <1>2, SumOrder

LEMMA CostSum ==
  ASSUME NEW in, WellFormed(in), NEW a \in [in.members -> Int], NEW b \in [in.members -> Int],
         NEW c \in [in.members -> Int], \A k \in in.members : c[k] = a[k] + b[k]
  PROVE  Cost(in, c) = Cost(in, a) + Cost(in, b)
<1> DEFINE f == Costs(in, a)
           g == Costs(in, b)
           h == Costs(in, c)
<1>1. /\ IsFiniteSet(in.members) /\ \A k \in in.members : f[k] \in Int /\ g[k] \in Int
      /\ Cost(in, a) = SumOver(f, in.members) /\ Cost(in, b) = SumOver(g, in.members)
      /\ Cost(in, c) = SumOver(h, in.members)
  BY CostsType
<1>2. ASSUME NEW k \in in.members PROVE h[k] = f[k] + g[k]
  <2>1. a[k] \in Int /\ b[k] \in Int /\ c[k] = a[k] + b[k] /\ in.gpr[k] \in Int
    BY DEF WellFormed
  <2>2. f[k] = a[k] * in.gpr[k] /\ g[k] = b[k] * in.gpr[k] /\ h[k] = c[k] * in.gpr[k]
    BY DEF Costs
  <2>3. \A x, y, n \in Int : (x + y) * n = x * n + y * n
    OBVIOUS
  <2> HIDE DEF f, g, h
  <2> QED BY <2>1, <2>2, <2>3
<1> HIDE DEF f, g, h
<1> QED BY <1>1, <1>2, SumPlus

\* n replicas more of one member cost what they hold.
LEMMA CostPlus ==
  ASSUME NEW in, WellFormed(in), NEW a \in [in.members -> Int], NEW k \in in.members, NEW n \in Int
  PROVE  Plus(a, k, n) \in [in.members -> Int] /\ Cost(in, Plus(a, k, n)) = Cost(in, a) + n * in.gpr[k]
<1> DEFINE b == Plus(a, k, n)
           f == Costs(in, a)
           g == Costs(in, b)
<1>1. b \in [in.members -> Int] /\ b[k] = a[k] + n /\ \A j \in in.members \ {k} : b[j] = a[j]
  BY DEF Plus
<1>2. g[k] = f[k] + n * in.gpr[k] /\ \A j \in in.members \ {k} : g[j] = f[j]
  <2>1. a[k] \in Int /\ in.gpr[k] \in Int
    BY DEF WellFormed
  <2>2. (a[k] + n) * in.gpr[k] = a[k] * in.gpr[k] + n * in.gpr[k]
    BY <2>1
  <2> HIDE DEF b
  <2> QED BY <1>1, <2>2 DEF Costs
<1> HIDE DEF b
<1>3. /\ IsFiniteSet(in.members)
      /\ \A j \in in.members : f[j] \in Int /\ g[j] \in Int
      /\ Cost(in, a) = SumOver(f, in.members) /\ Cost(in, b) = SumOver(g, in.members)
      /\ Cost(in, a) \in Int
  BY <1>1, CostsType
<1> HIDE DEF f, g
<1>4. SumOver(g, in.members) = SumOver(f, in.members) + g[k] - f[k]
  BY <1>2, <1>3, SumChange
<1>5. n * in.gpr[k] \in Int /\ f[k] \in Int
  BY <1>3 DEF WellFormed
<1>6. Cost(in, b) = Cost(in, a) + n * in.gpr[k]
  BY <1>2, <1>3, <1>4, <1>5
<1> QED BY <1>1, <1>6 DEF b

\* What a floor costs is what it holds already and what it grows by.
LEMMA FloorsCost ==
  ASSUME NEW in, WellFormed(in)
  PROVE  Cost(in, Floors(in)) =
           FloorCost(in) + Cost(in, [k \in in.members |-> Smaller(Floor(in, k), in.current[k])])
<1> DEFINE kept == [k \in in.members |-> Smaller(Floor(in, k), in.current[k])]
           f == [k \in in.members |-> Larger(0, Floor(in, k) - in.current[k]) * in.gpr[k]]
           g == Costs(in, kept)
           h == Costs(in, Floors(in))
<1>1. \A k \in in.members : Floor(in, k) \in Int /\ in.current[k] \in Int /\ in.gpr[k] \in Int
  BY WantClampedType DEF WellFormed
<1>2. kept \in [in.members -> Int] /\ Floors(in) \in [in.members -> Int]
  BY <1>1 DEF Floors, Smaller
<1>3. ASSUME NEW k \in in.members PROVE f[k] \in Int /\ h[k] = f[k] + g[k]
  <2> DEFINE more == Larger(0, Floor(in, k) - in.current[k])
             held == Smaller(Floor(in, k), in.current[k])
  <2>1. more \in Int /\ held \in Int /\ Floor(in, k) = more + held
    BY <1>1 DEF Larger, Smaller
  <2>2. f[k] = more * in.gpr[k] /\ g[k] = held * in.gpr[k] /\ h[k] = Floor(in, k) * in.gpr[k]
    BY DEF Costs, Floors
  <2> HIDE DEF more, held, f, g, h
  <2>3. (more + held) * in.gpr[k] = more * in.gpr[k] + held * in.gpr[k] /\ more * in.gpr[k] \in Int
    BY <1>1, <2>1
  <2> QED BY <2>1, <2>2, <2>3
<1>4. /\ IsFiniteSet(in.members) /\ FloorCost(in) = SumOver(f, in.members)
      /\ Cost(in, kept) = SumOver(g, in.members) /\ Cost(in, Floors(in)) = SumOver(h, in.members)
      /\ \A k \in in.members : g[k] \in Int
  BY <1>2, CostsType DEF FloorCost
<1> HIDE DEF f, g, h
<1>5. Cost(in, Floors(in)) = FloorCost(in) + Cost(in, kept)
  BY <1>3, <1>4, SumPlus
<1> QED BY <1>5

\* GPUs are neither made nor lost.
Balanced(in, s) == s.spare + Cost(in, s.alloc) = in.gap - FloorCost(in) + Cost(in, Floors(in))

LEMMA StartBalanced ==
  ASSUME NEW in
  PROVE  Balanced(in, Start(in))
BY DEF Balanced, Start

LEMMA VisitBalanced ==
  ASSUME NEW in, CallOK(in), NEW s, Sound(in, s), Balanced(in, s), NEW k \in in.members
  PROVE  Balanced(in, Visit(in, s, k))
<1> DEFINE t == Visit(in, s, k)
           alloc == Plus(s.alloc, k, 1)
<1>1. /\ WellFormed(in) /\ s \in Frame(in) /\ s.alloc \in [in.members -> Int]
      /\ s.spare \in Int /\ in.gpr[k] \in Int
  BY DEF Sound, Frame, CallOK, WellFormed
<1>2. CASE ~Bumpable(in, s, k)
  BY <1>1, <1>2 DEF Visit, Frame, Balanced
<1>3. CASE Bumpable(in, s, k)
  <2>1. Cost(in, alloc) = Cost(in, s.alloc) + 1 * in.gpr[k] /\ Cost(in, s.alloc) \in Int
    BY <1>1, CostPlus, CostsType
  <2>2. t = [s EXCEPT !.alloc = alloc, !.spare = @ - in.gpr[k], !.progressed = TRUE, !.todo = @ \ {k}]
    BY <1>3 DEF Visit
  <2> HIDE DEF alloc, t
  <2>3. t.alloc = alloc /\ t.spare = s.spare - in.gpr[k]
    BY <1>1, <2>2 DEF Frame
  <2>4. t.spare + Cost(in, t.alloc) = s.spare + Cost(in, s.alloc)
    BY <1>1, <2>1, <2>3
  <2> QED BY <2>4 DEF Balanced, t
<1> QED BY <1>2, <1>3

LEMMA DonateBalanced ==
  ASSUME NEW in, CallOK(in), NEW s, Sound(in, s), Balanced(in, s), s.pc = "round",
         NEW d \in s.donors
  PROVE  Balanced(in, Donate(in, s, d))
<1> DEFINE k == s.taker
           t == Donate(in, s, d)
<1>1. CASE t.alloc = s.alloc /\ t.spare = s.spare
  BY <1>1 DEF Balanced
<1>2. ASSUME NEW n \in Nat \ {0}, NEW m \in Nat,
             t.alloc = Plus(Plus(s.alloc, d, -n), k, m),
             t.spare = s.spare + n * in.gpr[d] - m * in.gpr[k]
      PROVE  Balanced(in, t)
  <2> DEFINE lent == Plus(s.alloc, d, -n)
  <2>1. /\ WellFormed(in) /\ s.alloc \in [in.members -> Int] /\ s.spare \in Int
        /\ d \in in.members /\ k \in in.members /\ -n \in Int /\ m \in Int
        /\ in.gpr[d] \in Int /\ in.gpr[k] \in Int
    BY DEF Sound, Frame, CallOK, WellFormed
  <2> HIDE DEF t, k
  <2>2. lent \in [in.members -> Int] /\ Cost(in, lent) = Cost(in, s.alloc) + (-n) * in.gpr[d]
    <3>1. /\ WellFormed(in) /\ s.alloc \in [in.members -> Int] /\ d \in in.members
          /\ -n \in Int
      BY <2>1
    <3> QED BY <3>1, CostPlus
  <2> HIDE DEF lent
  <2>3. Cost(in, Plus(lent, k, m)) = Cost(in, lent) + m * in.gpr[k]
    <3>1. WellFormed(in) /\ lent \in [in.members -> Int] /\ k \in in.members /\ m \in Int
      BY <2>1, <2>2
    <3> QED BY <3>1, CostPlus
  <2>4. /\ (-n) * in.gpr[d] = -(n * in.gpr[d]) /\ n * in.gpr[d] \in Int
        /\ m * in.gpr[k] \in Int /\ Cost(in, s.alloc) \in Int
    <3>1. Cost(in, s.alloc) \in Int
      BY <2>1, CostsType
    <3>2. \A x, y \in Int : x * y \in Int /\ (-x) * y = -(x * y)
      OBVIOUS
    <3> QED BY <2>1, <3>1, <3>2
  <2>5. t.spare + Cost(in, Plus(lent, k, m)) = s.spare + Cost(in, s.alloc)
    BY <1>2, <2>1, <2>2, <2>3, <2>4
  <2> QED BY <1>2, <2>5 DEF Balanced, lent
<1> QED BY <1>1, <1>2, DonateFacts

(***************************************************************************)
(* Turns: of two members of a tier and a size, the hungry one is at most a *)
(* bump behind, and then it is its turn or there is nothing left for it.   *)
(***************************************************************************)
Gain(in, s, k) == s.alloc[k] - Floor(in, k)

InTurn(in, s, k, j) ==
  /\ Gain(in, s, k) <= Gain(in, s, j) + 1
  /\ Gain(in, s, k) = Gain(in, s, j) + 1 =>
       (j \in s.todo /\ k \notin s.todo) \/ s.spare < in.gpr[j]
  /\ j \notin s.todo /\ k \in s.todo /\ s.spare >= in.gpr[j] =>
       Gain(in, s, k) < Gain(in, s, j)

Turns(in, s) ==
  s.pc = "sweep" =>
    \A k, j \in in.members :
      in.prio[k] = in.prio[j] /\ in.gpr[k] = in.gpr[j] /\ Deficit(in, s, j) > 0
        => InTurn(in, s, k, j)

LEMMA StartTurns ==
  ASSUME NEW in, WellFormed(in)
  PROVE  Turns(in, Start(in))
<1> DEFINE s == Start(in)
<1>1. \A k \in in.members : Gain(in, s, k) = 0
  BY WantClampedType DEF Gain, Start, Floors
<1>2. \A k, j \in in.members :
        s.pc = "sweep" /\ in.prio[k] = in.prio[j] /\ k \in s.todo => j \in s.todo
  BY DEF Start, TierMembers
<1> HIDE DEF s
<1>3. Turns(in, s)
  BY <1>1, <1>2 DEF Turns, InTurn
<1> QED BY <1>3 DEF s

LEMMA VisitTurns ==
  ASSUME NEW in, CallOK(in), NEW s, Sound(in, s), Turns(in, s), s.pc = "sweep", NEW m \in s.todo
  PROVE  Turns(in, Visit(in, s, m))
<1> DEFINE t == Visit(in, s, m)
<1>1. m \in in.members /\ WellFormed(in)
  BY DEF Sound, Frame, CallOK
<1>2. /\ t.pc = s.pc /\ t.todo = s.todo \ {m} /\ t.spare \in Int /\ s.spare \in Int
      /\ t.spare <= s.spare
      /\ \A j \in in.members \ {m} : t.alloc[j] = s.alloc[j]
      /\ Bumpable(in, s, m) => t.alloc[m] = s.alloc[m] + 1
      /\ ~Bumpable(in, s, m) => t.alloc = s.alloc /\ t.spare = s.spare
  BY <1>1, VisitFacts
<1> SUFFICES Turns(in, t)
  OBVIOUS
<1> HIDE DEF t
<1> SUFFICES ASSUME NEW k \in in.members, NEW j \in in.members, in.prio[k] = in.prio[j],
                    in.gpr[k] = in.gpr[j], Deficit(in, t, j) > 0
             PROVE  InTurn(in, t, k, j)
  BY DEF Turns
<1>3. \A x \in in.members : /\ s.alloc[x] \in Int /\ Gain(in, s, x) \in Int /\ in.gpr[x] \in Int
                            /\ WantClamped(in, x) \in Int
                            /\ x # m => Gain(in, t, x) = Gain(in, s, x)
  BY <1>1, <1>2, WantClampedType DEF Sound, Frame, WellFormed, Gain
<1>4. CASE Bumpable(in, s, m)
  <2>1. Gain(in, t, m) = Gain(in, s, m) + 1
    BY <1>1, <1>2, <1>4, WantClampedType DEF Gain, Sound, Frame
  <2>2. Deficit(in, s, j) > 0
    <3>1. s.alloc[j] <= t.alloc[j]
      BY <1>2, <1>3, <1>4
    <3>2. t.alloc[j] \in Int
      BY <1>1, <1>2, <1>3, <1>4
    <3> QED BY <1>3, <3>1, <3>2 DEF Deficit
  <2>3. InTurn(in, s, k, j)
    BY <2>2 DEF Turns
  <2>4. in.gpr[m] <= s.spare
    BY <1>4 DEF Bumpable
  <2>5. CASE k = j
    BY <1>1, <1>2, <1>3, <2>1, <2>5 DEF InTurn
  <2>6. CASE k # j /\ k = m
    BY <1>1, <1>2, <1>3, <2>1, <2>3, <2>4, <2>6 DEF InTurn
  <2>7. CASE k # j /\ j = m
    BY <1>1, <1>2, <1>3, <2>1, <2>3, <2>4, <2>7 DEF InTurn
  <2>8. CASE k # m /\ j # m
    BY <1>1, <1>2, <1>3, <2>3, <2>8 DEF InTurn
  <2> QED BY <2>5, <2>6, <2>7, <2>8
<1>5. CASE ~Bumpable(in, s, m)
  <2>1. \A x \in in.members : Gain(in, t, x) = Gain(in, s, x)
    BY <1>2, <1>5 DEF Gain
  <2>2. Deficit(in, s, j) > 0
    BY <1>2, <1>5 DEF Deficit
  <2>3. InTurn(in, s, k, j)
    BY <2>2 DEF Turns
  <2>4. j = m => s.spare < in.gpr[j]
    BY <1>2, <1>3, <1>5, <2>2 DEF Bumpable
  <2> QED BY <1>2, <1>3, <1>5, <2>1, <2>3, <2>4 DEF InTurn
<1> QED BY <1>4, <1>5

\* When a sweep is over it is nobody's turn: whoever is behind does not fit.
LEMMA NewListTurns ==
  ASSUME NEW in, WellFormed(in), NEW s, Turns(in, s), s.pc = "sweep", s.todo = {},
         NEW t, t.pc = s.pc, t.alloc = s.alloc, t.spare = s.spare,
         NEW p, t.todo = TierMembers(in, p)
  PROVE  Turns(in, t)
<1> SUFFICES ASSUME NEW k \in in.members, NEW j \in in.members, in.prio[k] = in.prio[j],
                    in.gpr[k] = in.gpr[j], Deficit(in, t, j) > 0
             PROVE  InTurn(in, t, k, j)
  BY DEF Turns
<1>1. InTurn(in, s, k, j)
  BY DEF Turns, Deficit
<1>2. k \in t.todo => j \in t.todo
  BY DEF TierMembers
<1> QED BY <1>1, <1>2 DEF InTurn, Gain

(***************************************************************************)
(* Who is taken from below its floor has somebody above it who wanted to   *)
(* grow.                                                                   *)
(***************************************************************************)
Eager(in, k) == Floor(in, k) < WantClamped(in, k)

Earned(in, s) ==
  /\ s.pc = "sweep" => \A k \in in.members : Floor(in, k) <= s.alloc[k]
  /\ s.pc # "sweep" =>
       /\ \A k \in s.queue : Eager(in, k)
       /\ \A t \in in.members : s.alloc[t] < Floor(in, t) =>
            \E k \in in.members : in.prio[k] > in.prio[t] /\ Eager(in, k)

LEMMA StartEarned ==
  ASSUME NEW in, WellFormed(in)
  PROVE  Earned(in, Start(in))
<1> DEFINE s == Start(in)
<1>1. \A k \in in.members : s.alloc[k] = Floor(in, k) /\ Floor(in, k) \in Int
  BY WantClampedType DEF Start, Floors
<1>2. s.queue = {}
  BY DEF Start
<1> HIDE DEF s
<1>3. Earned(in, s)
  BY <1>1, <1>2 DEF Earned
<1> QED BY <1>3 DEF s

LEMMA VisitEarned ==
  ASSUME NEW in, CallOK(in), NEW s, Sound(in, s), Earned(in, s), s.pc = "sweep", NEW m \in in.members
  PROVE  Earned(in, Visit(in, s, m))
<1> DEFINE t == Visit(in, s, m)
<1>1. /\ t.pc = s.pc
      /\ \A j \in in.members \ {m} : t.alloc[j] = s.alloc[j]
      /\ Bumpable(in, s, m) => t.alloc[m] = s.alloc[m] + 1
      /\ ~Bumpable(in, s, m) => t.alloc = s.alloc
  BY VisitFacts
<1>2. \A j \in in.members : s.alloc[j] \in Int /\ Floor(in, j) \in Int /\ Floor(in, j) <= s.alloc[j]
  BY WantClampedType DEF Earned, Sound, Frame, CallOK
<1> HIDE DEF t
<1>3. Earned(in, t)
  BY <1>1, <1>2 DEF Earned
<1> QED BY <1>3 DEF t

LEMMA EndSweepsEarned ==
  ASSUME NEW in, CallOK(in), NEW s, Sound(in, s), Earned(in, s), s.pc = "sweep"
  PROVE  Earned(in, EndSweeps(in, s))
<1> DEFINE t == EndSweeps(in, s)
<1>1. t.pc = "preempt" /\ t.alloc = s.alloc /\ t.queue = Hungry(in, s)
  BY DEF EndSweeps, Sound, Frame
<1>2. \A j \in in.members : /\ s.alloc[j] \in Int /\ Floor(in, j) \in Int /\ Floor(in, j) <= s.alloc[j]
                            /\ WantClamped(in, j) \in Int
  BY WantClampedType DEF Earned, Sound, Frame, CallOK
<1> HIDE DEF t
<1>3. Earned(in, t)
  BY <1>1, <1>2 DEF Earned, Hungry, Deficit, Eager
<1> QED BY <1>3 DEF t

\* The donors of a round are below its taker, who waits in the queue.
LEMMA DonateEarned ==
  ASSUME NEW in, CallOK(in), NEW s, Sound(in, s), Preempted(in, s), Earned(in, s),
         s.pc = "round", NEW d \in s.donors
  PROVE  Earned(in, Donate(in, s, d))
<1> DEFINE t == Donate(in, s, d)
<1>1. /\ t.pc = s.pc /\ t.queue = s.queue
      /\ t.alloc # s.alloc =>
           /\ s.alloc[s.taker] <= t.alloc[s.taker]
           /\ \A m \in in.members \ {d, s.taker} : t.alloc[m] = s.alloc[m]
  BY DonateFacts, DonateMoves
<1>2. /\ s.taker \in in.members /\ Eager(in, s.taker) /\ in.prio[s.taker] > in.prio[d]
      /\ d \in in.members
  BY DEF Sound, Frame, Preempted, Earned, CallOK, WellFormed
<1>3. t.alloc \in [in.members -> Int] /\ s.alloc \in [in.members -> Int]
  <2>1. Sound(in, t)
    BY DonateSound
  <2> HIDE DEF t
  <2> QED BY <2>1 DEF Sound, Frame
<1> HIDE DEF t
<1>4. ASSUME NEW m \in in.members, t.alloc[m] < Floor(in, m)
      PROVE  \E k \in in.members : in.prio[k] > in.prio[m] /\ Eager(in, k)
  <2>1. CASE m = d
    BY <1>2, <2>1
  <2>2. CASE m # d
    <3>1. s.alloc[m] \in Int /\ t.alloc[m] \in Int /\ Floor(in, m) \in Int
      BY <1>3, WantClampedType DEF CallOK
    <3>2. s.alloc[m] <= t.alloc[m]
      BY <1>1, <2>2, <3>1
    <3>3. s.alloc[m] < Floor(in, m)
      BY <1>4, <3>1, <3>2
    <3> QED BY <3>3 DEF Earned
  <2> QED BY <2>1, <2>2
<1>5. Earned(in, t)
  BY <1>1, <1>4 DEF Earned
<1> QED BY <1>5 DEF t

(***************************************************************************)
(* The order of the walks always has a next member.                        *)
(***************************************************************************)
LEMMA LexFirst ==
  ASSUME NEW S, IsFiniteSet(S), S # {}, NEW f \in [S -> Int], NEW g \in [S -> Nat]
  PROVE  \E k \in S : \A j \in S : f[k] > f[j] \/ (f[k] = f[j] /\ g[k] <= g[j])
<1>1. PICK m \in S : \A j \in S : f[m] >= f[j]
  BY FiniteArgMax
<1> DEFINE Ties == {k \in S : f[k] = f[m]}
           N == {g[k] : k \in Ties}
<1>2. N \in SUBSET Nat /\ N # {}
  BY <1>1
<1>3. PICK n \in N : \A x \in N : n <= x
  BY <1>2, NatLeast
<1>4. PICK k \in Ties : g[k] = n
  BY <1>3
<1>5. ASSUME NEW j \in S PROVE f[k] > f[j] \/ (f[k] = f[j] /\ g[k] <= g[j])
  <2>1. f[k] = f[m] /\ f[m] >= f[j] /\ f[j] \in Int /\ f[m] \in Int
    BY <1>1, <1>4
  <2>2. CASE f[j] = f[m]
    BY <1>3, <1>4, <2>1, <2>2
  <2>3. CASE f[j] # f[m]
    BY <2>1, <2>3
  <2> QED BY <2>2, <2>3
<1> QED BY <1>4, <1>5

LEMMA WalksGoOn ==
  ASSUME NEW in, WellFormed(in), NEW s, Sound(in, s)
  PROVE  /\ s.todo # {} => TheOne(Neediest(in, s)) \in Neediest(in, s)
         /\ s.queue # {} => TheOne(Foremost(in, s.queue)) \in Foremost(in, s.queue)
         /\ s.donors # {} => TheOne(FirstMember(in, s.donors)) \in FirstMember(in, s.donors)
<1>1. /\ s.todo \in SUBSET in.members /\ s.queue \in SUBSET in.members
      /\ s.donors \in SUBSET in.members /\ s.alloc \in [in.members -> Nat]
      /\ \A X \in SUBSET in.members : IsFiniteSet(X)
      /\ \A k \in in.members : k \in Nat /\ in.pos[k] \in Nat /\ in.prio[k] \in Int
                               /\ in.gpr[k] \in Int
  BY FS_Subset DEF Sound, Frame, WellFormed
<1>2. ASSUME s.todo # {} PROVE Neediest(in, s) # {}
  <2> DEFINE f == [k \in s.todo |-> Deficit(in, s, k) * in.gpr[k]]
             g == [k \in s.todo |-> k]
  <2>1. ASSUME NEW k \in s.todo PROVE Deficit(in, s, k) * in.gpr[k] \in Int
    <3>1. Deficit(in, s, k) \in Int
      BY <1>1, WantClampedType DEF Deficit
    <3> QED BY <1>1, <3>1
  <2>2. f \in [s.todo -> Int] /\ g \in [s.todo -> Nat]
    BY <1>1, <2>1
  <2> HIDE DEF f, g
  <2>3. PICK k \in s.todo : \A j \in s.todo : f[k] > f[j] \/ (f[k] = f[j] /\ g[k] <= g[j])
    BY <1>1, <1>2, <2>2, LexFirst
  <2>4. k \in Neediest(in, s)
    BY <2>3 DEF Neediest, f, g
  <2> QED BY <2>4
<1>3. ASSUME s.queue # {} PROVE Foremost(in, s.queue) # {}
  <2> DEFINE f == [k \in s.queue |-> in.prio[k]]
             g == [k \in s.queue |-> in.pos[k]]
  <2>1. f \in [s.queue -> Int] /\ g \in [s.queue -> Nat]
    BY <1>1
  <2> HIDE DEF f, g
  <2>2. PICK k \in s.queue : \A j \in s.queue : f[k] > f[j] \/ (f[k] = f[j] /\ g[k] <= g[j])
    BY <1>1, <1>3, <2>1, LexFirst
  <2>3. k \in Foremost(in, s.queue)
    BY <2>2 DEF Foremost, f, g
  <2> QED BY <2>3
<1>4. ASSUME s.donors # {} PROVE FirstMember(in, s.donors) # {}
  <2> DEFINE N == {in.pos[k] : k \in s.donors}
  <2>1. N \in SUBSET Nat /\ N # {}
    BY <1>1, <1>4
  <2>2. PICK n \in N : \A x \in N : n <= x
    BY <2>1, NatLeast
  <2> QED BY <2>2 DEF FirstMember
<1> QED BY <1>2, <1>3, <1>4 DEF TheOne

(***************************************************************************)
(* An iteration of a call, and everything it keeps.                        *)
(***************************************************************************)
Iteration(in, s, t) ==
  \/ s.pc = "sweep" /\ \E k \in Neediest(in, s) : t = Visit(in, s, k)
  \/ s.pc = "sweep" /\ s.todo = {} /\ s.progressed /\ t = NextSweep(in, s)
  \/ s.pc = "sweep" /\ s.todo = {} /\ ~s.progressed
       /\ LowerTiers(in, s) # {} /\ t = NextTier(in, s)
  \/ s.pc = "sweep" /\ s.todo = {} /\ ~s.progressed
       /\ LowerTiers(in, s) = {} /\ t = EndSweeps(in, s)
  \/ s.pc = "preempt" /\ \E k \in Foremost(in, s.queue) : Served(in, s, k) /\ t = Dismiss(s, k)
  \/ s.pc = "preempt" /\ \E k \in Foremost(in, s.queue) : ~Served(in, s, k) /\ t = OpenRound(in, s, k)
  \/ s.pc = "round" /\ \E d \in FirstMember(in, s.donors) : t = Donate(in, s, d)
  \/ s.pc = "round" /\ s.donors = {} /\ t = CloseRound(s)
  \/ s.pc = "preempt" /\ s.queue = {} /\ t = Finish(s)

Orderly(in, s) ==
  /\ Sound(in, s)
  /\ Swept(in, s) /\ Preempted(in, s)
  /\ Balanced(in, s) /\ Turns(in, s) /\ Earned(in, s)

LEMMA StartOrderly ==
  ASSUME NEW in, WellFormed(in)
  PROVE  Orderly(in, Start(in))
<1>1. CallOK(in)
  BY FloorCostType
<1> QED
  BY <1>1, StartSound, StartSwept, StartPreempted, StartBalanced, StartTurns, StartEarned
  DEF Orderly

\* An iteration that moves no replica.
LEMMA StillBalanced ==
  ASSUME NEW in, NEW s, Orderly(in, s), NEW t, t.alloc = s.alloc, t.spare = s.spare
  PROVE  Balanced(in, t)
BY DEF Orderly, Balanced

LEMMA IterationKeeps ==
  ASSUME NEW in, WellFormed(in), NEW s, Orderly(in, s), NEW t, Iteration(in, s, t)
  PROVE  Orderly(in, t)
<1>1. /\ CallOK(in) /\ Sound(in, s) /\ s \in Frame(in) /\ Swept(in, s) /\ Preempted(in, s)
      /\ Balanced(in, s) /\ Turns(in, s) /\ Earned(in, s)
  BY FloorCostType DEF Orderly, Sound
<1>2. s.todo \subseteq in.members /\ s.queue \subseteq in.members
  BY <1>1 DEF Frame
<1>3. ASSUME s.pc = "sweep", NEW k \in s.todo, t = Visit(in, s, k) PROVE Orderly(in, t)
  <2>1. k \in in.members
    BY <1>2
  <2>2. t.pc = "sweep"
    BY <1>1, <1>3, <2>1, VisitFacts
  <2> QED
    BY <1>1, <1>3, <2>1, <2>2, VisitSound, VisitSwept, SweepPreempted, VisitBalanced,
       VisitTurns, VisitEarned
    DEF Orderly
<1>4. ASSUME s.pc = "sweep", s.todo = {}, t = NextSweep(in, s) PROVE Orderly(in, t)
  <2>1. /\ t.pc = s.pc /\ t.alloc = s.alloc /\ t.spare = s.spare
        /\ t.todo = TierMembers(in, s.tier)
    BY <1>1, <1>4 DEF NextSweep, Frame
  <2>2. Earned(in, t)
    BY <1>1, <1>4, <2>1 DEF Earned
  <2> QED
    BY <1>1, <1>4, <2>1, <2>2, NextSweepSound, NextSweepSwept, SweepPreempted, StillBalanced,
       NewListTurns
    DEF Orderly
<1>5. ASSUME s.pc = "sweep", s.todo = {}, ~s.progressed, LowerTiers(in, s) # {},
             t = NextTier(in, s)
      PROVE  Orderly(in, t)
  <2>1. /\ t.pc = s.pc /\ t.alloc = s.alloc /\ t.spare = s.spare
        /\ t.todo = TierMembers(in, TopTier(LowerTiers(in, s)))
    BY <1>1, <1>5 DEF NextTier, Frame
  <2>2. Earned(in, t)
    BY <1>1, <1>5, <2>1 DEF Earned
  <2> QED
    BY <1>1, <1>5, <2>1, <2>2, NextTierSound, NextTierSwept, SweepPreempted, StillBalanced,
       NewListTurns
    DEF Orderly
<1>6. ASSUME s.pc = "sweep", t = EndSweeps(in, s) PROVE Orderly(in, t)
  <2>1. t.pc = "preempt" /\ t.alloc = s.alloc /\ t.spare = s.spare
    BY <1>1, <1>6 DEF EndSweeps, Frame
  <2> QED
    BY <1>1, <1>6, <2>1, EndSweepsSound, EndSweepsPreempted, EndSweepsEarned, StillBalanced
    DEF Orderly, Swept, Turns
<1>7. ASSUME s.pc = "preempt", NEW k \in s.queue, Served(in, s, k), t = Dismiss(s, k)
      PROVE  Orderly(in, t)
  <2>1. t.pc = "preempt" /\ t.alloc = s.alloc /\ t.spare = s.spare /\ t.queue \subseteq s.queue
    BY <1>1, <1>7 DEF Dismiss, Frame
  <2>2. Earned(in, t)
    BY <1>1, <1>7, <2>1 DEF Earned
  <2> QED
    BY <1>1, <1>2, <1>7, <2>1, <2>2, DismissSound, DismissPreempted, StillBalanced
    DEF Orderly, Swept, Turns
<1>8. ASSUME s.pc = "preempt", NEW k \in s.queue, t = OpenRound(in, s, k)
      PROVE  Orderly(in, t)
  <2>1. t.pc = "round" /\ t.alloc = s.alloc /\ t.spare = s.spare /\ t.queue = s.queue
    BY <1>1, <1>8 DEF OpenRound, Frame
  <2>2. Earned(in, t)
    BY <1>1, <1>8, <2>1 DEF Earned
  <2> QED
    BY <1>1, <1>2, <1>8, <2>1, <2>2, OpenRoundSound, OpenRoundPreempted, StillBalanced
    DEF Orderly, Swept, Turns
<1>9. ASSUME s.pc = "round", NEW d \in s.donors, t = Donate(in, s, d) PROVE Orderly(in, t)
  <2>1. t.pc = "round"
    BY <1>1, <1>9, DonateFacts
  <2> QED
    BY <1>1, <1>9, <2>1, DonateSound, DonatePreempted, DonateBalanced, DonateEarned
    DEF Orderly, Swept, Turns
<1>10. ASSUME \/ s.pc = "round" /\ t = CloseRound(s)
              \/ s.pc = "preempt" /\ s.queue = {} /\ t = Finish(s)
       PROVE  Orderly(in, t)
  <2>1. t.pc # "sweep" /\ t.alloc = s.alloc /\ t.spare = s.spare /\ t.queue = s.queue
    BY <1>1, <1>10 DEF CloseRound, Finish, Frame
  <2>2. Earned(in, t)
    BY <1>1, <1>10, <2>1 DEF Earned
  <2> QED
    BY <1>1, <1>10, <2>1, <2>2, PhaseSound, PhasePreempted, StillBalanced
    DEF Orderly, Swept, Turns
<1> QED
  BY <1>3, <1>4, <1>5, <1>6, <1>7, <1>8, <1>9, <1>10
  DEF Iteration, Neediest, Foremost, FirstMember

\* The whole-call operator makes the same iterations.
LEMMA AdvanceIterates ==
  ASSUME NEW in, WellFormed(in), NEW s, Sound(in, s)
  PROVE  \/ s.pc = "done" /\ Advance(in, s) = s
         \/ Iteration(in, s, Advance(in, s))
<1>1. /\ s.todo # {} => TheOne(Neediest(in, s)) \in Neediest(in, s)
      /\ s.queue # {} => TheOne(Foremost(in, s.queue)) \in Foremost(in, s.queue)
      /\ s.donors # {} => TheOne(FirstMember(in, s.donors)) \in FirstMember(in, s.donors)
  BY WalksGoOn
<1>2. CASE s.pc = "sweep"
  BY <1>1, <1>2 DEF Advance, AdvanceSweep, Iteration
<1>3. CASE s.pc = "preempt"
  BY <1>1, <1>3 DEF Advance, AdvancePreempt, Iteration
<1>4. CASE s.pc = "round"
  BY <1>1, <1>4 DEF Advance, AdvanceRound, Iteration
<1>5. CASE s.pc = "done"
  BY <1>5 DEF Advance
<1>6. s.pc \in {"sweep", "preempt", "round", "done"}
  BY DEF Sound, Frame
<1> QED BY <1>6, <1>2, <1>3, <1>4, <1>5

(***************************************************************************)
(* What an orderly frame allots fits the pool, unless the floors alone do  *)
(* not.                                                                    *)
(***************************************************************************)
Retained(in) == [k \in in.members |-> Smaller(Floor(in, k), in.current[k])]

LEMMA OrderlyAffordable ==
  ASSUME NEW in, WellFormed(in), NEW s, Orderly(in, s)
  PROVE  Cost(in, s.alloc) <= Larger(Cost(in, Floors(in)), in.gap + Cost(in, Retained(in)))
<1>1. /\ WellFormed(in) /\ s.alloc \in [in.members -> Int]
      /\ s.spare \in Int /\ in.gap \in Int /\ FloorCost(in) \in Int
      /\ s.spare >= Smaller(0, in.gap - FloorCost(in))
      /\ s.spare + Cost(in, s.alloc) = in.gap - FloorCost(in) + Cost(in, Floors(in))
  <2>1. CallOK(in) /\ s \in Frame(in) /\ s.spare >= Smaller(0, in.gap - FloorCost(in))
    BY FloorCostType DEF Orderly, Sound, CallOK
  <2>2. s.spare + Cost(in, s.alloc) = in.gap - FloorCost(in) + Cost(in, Floors(in))
    BY DEF Orderly, Balanced
  <2>3. s.alloc \in [in.members -> Nat] /\ s.spare \in Int
    BY <2>1 DEF Frame
  <2>4. WellFormed(in) /\ in.gap \in Int /\ FloorCost(in) \in Int
    BY <2>1 DEF CallOK, WellFormed
  <2> QED BY <2>1, <2>2, <2>3, <2>4
<1>2. Retained(in) \in [in.members -> Int] /\ Floors(in) \in [in.members -> Int]
  BY <1>1, WantClampedType DEF Retained, Floors, Smaller, WellFormed
<1>3. Cost(in, Floors(in)) = FloorCost(in) + Cost(in, Retained(in))
  BY <1>1, FloorsCost DEF Retained
<1>4. /\ Cost(in, Retained(in)) \in Int /\ Cost(in, Floors(in)) \in Int /\ Cost(in, s.alloc) \in Int
  BY <1>1, <1>2, CostsType
<1>5. \A f, r, w, a, p, g \in Int :
        p >= Smaller(0, g - f) /\ p + a = g - f + w /\ w = f + r => a <= Larger(w, g + r)
  BY DEF Larger, Smaller
<1> HIDE DEF Retained
<1> QED BY <1>1, <1>3, <1>4, <1>5

(***************************************************************************)
(* Every call ends: each iteration lowers the work that is left.           *)
(***************************************************************************)

\* A round asks nobody in vain, and nobody waits who comes before its taker.
Offered(in, s) ==
  s.pc = "round" =>
    /\ s.need > 0
    /\ \A k \in s.queue : in.prio[k] <= in.prio[s.taker]
    /\ \A d \in s.donors : s.alloc[d] > in.lo[d]

LEMMA OpenRoundOffers ==
  ASSUME NEW in, WellFormed(in), NEW s, Sound(in, s), NEW k \in Foremost(in, s.queue),
         ~Served(in, s, k)
  PROVE  LET t == OpenRound(in, s, k)
         IN  /\ Offered(in, t) /\ t.pc = "round" /\ t.queue = s.queue /\ t.alloc = s.alloc
             /\ t.donors # {} /\ t.taker = k
             /\ \A d \in t.donors : d \in in.members /\ in.prio[d] < in.prio[k]
                                    /\ s.alloc[d] > in.lo[d]
<1> DEFINE donors == LowestTier(in, Donors(in, s, k))
           need == Deficit(in, s, k) * in.gpr[k]
           t == OpenRound(in, s, k)
<1>1. /\ s \in Frame(in) /\ s.alloc \in [in.members -> Nat] /\ k \in in.members
      /\ in.prio \in [in.members -> Int] /\ IsFiniteSet(in.members)
      /\ in.gpr[k] \in Nat \ {0}
  BY DEF Sound, Frame, Foremost, WellFormed
<1>2. Deficit(in, s, k) \in Int /\ Deficit(in, s, k) > 0 /\ Donors(in, s, k) # {}
  BY <1>1, WantClampedType DEF Served, Deficit
<1>3. need > 0
  <2>1. \A x, y \in Int : x > 0 /\ y > 0 => x * y > 0
    OBVIOUS
  <2> QED BY <1>1, <1>2, <2>1
<1>4. donors # {}
  <2> DEFINE D == Donors(in, s, k)
             f == [d \in D |-> -in.prio[d]]
  <2>1. D \in SUBSET in.members
    BY DEF Donors
  <2>2. IsFiniteSet(D) /\ f \in [D -> Int]
    BY <1>1, <2>1, FS_Subset
  <2>3. PICK d \in D : \A e \in D : f[d] >= f[e]
    BY <1>2, <2>2, FiniteArgMax
  <2>4. \A e \in D : in.prio[d] <= in.prio[e]
    BY <1>1, <2>1, <2>3
  <2> QED BY <2>4 DEF LowestTier
<1>5. \A d \in donors : d \in in.members /\ in.prio[d] < in.prio[k] /\ s.alloc[d] > in.lo[d]
  BY DEF LowestTier, Donors
<1>6. \A j \in s.queue : in.prio[j] <= in.prio[k]
  <2>1. \A j \in s.queue : j \in in.members
    BY <1>1 DEF Frame
  <2> QED BY <1>1, <2>1 DEF Foremost
<1>7. t = [s EXCEPT !.pc = "round", !.taker = k, !.donors = donors,
                    !.share = Cardinality(donors), !.need = need]
  BY DEF OpenRound
<1> HIDE DEF donors, need, t
<1>8. /\ t.pc = "round" /\ t.queue = s.queue /\ t.alloc = s.alloc /\ t.donors = donors
      /\ t.need = need /\ t.taker = k
  BY <1>1, <1>7 DEF Frame
<1> QED BY <1>3, <1>4, <1>5, <1>6, <1>8 DEF Offered, t

\* Every donor that is asked gives.
LEMMA DonorGives ==
  ASSUME NEW in, CallOK(in), NEW s, Sound(in, s), s.pc = "round", Offered(in, s),
         NEW d \in s.donors
  PROVE  Donate(in, s, d).alloc[d] < s.alloc[d]
<1> DEFINE size == s.share * in.gpr[d]
           take == Take(in, s, d)
           k == s.taker
<1>1. /\ s \in Frame(in) /\ s.alloc \in [in.members -> Nat]
      /\ s.need \in Int /\ s.need > 0 /\ s.share \in Nat \ {0}
      /\ d \in in.members /\ k \in in.members /\ d # k
      /\ s.alloc[d] \in Nat /\ s.alloc[k] \in Nat /\ s.alloc[d] > in.lo[d] /\ in.lo[d] \in Nat
      /\ in.gpr[d] \in Nat \ {0}
  BY DEF Sound, Frame, CallOK, WellFormed, Offered
<1>2. size \in Nat \ {0}
  BY <1>1
<1> HIDE DEF size
<1>3. CeilDiv(s.need, size) \in Int /\ CeilDiv(s.need, size) > 0
  BY <1>1, <1>2 DEF CeilDiv
<1>4. take \in Int /\ take > 0
  BY <1>1, <1>3 DEF Take, Smaller, size
<1> HIDE DEF take
<1> DEFINE bumps == Bumps(in, s, take * in.gpr[d])
           alloc == Plus(Plus(s.alloc, d, -take), k, bumps)
<1>5. Donate(in, s, d).alloc = alloc
  <2>1. Donate(in, s, d) = [s EXCEPT !.donors = @ \ {d}, !.alloc = alloc,
                               !.spare = @ + take * in.gpr[d] - bumps * in.gpr[k]]
    BY <1>4 DEF Donate, take
  <2> HIDE DEF alloc, bumps
  <2> QED BY <1>1, <2>1 DEF Frame
<1>6. alloc[d] = s.alloc[d] - take
  <2> HIDE DEF bumps
  <2> QED BY <1>1, <1>4 DEF Plus
<1> QED BY <1>1, <1>4, <1>5, <1>6

LEMMA OfferedKept ==
  ASSUME NEW in, CallOK(in), NEW s, Sound(in, s), Offered(in, s), NEW t, Iteration(in, s, t)
  PROVE  Offered(in, t)
<1>0. s \in Frame(in) /\ WellFormed(in)
  BY DEF Sound, CallOK
<1>1. CASE s.pc = "preempt" /\ \E k \in Foremost(in, s.queue) : ~Served(in, s, k) /\ t = OpenRound(in, s, k)
  BY <1>0, <1>1, OpenRoundOffers
<1>2. ASSUME s.pc = "round", NEW d \in FirstMember(in, s.donors), t = Donate(in, s, d)
      PROVE  Offered(in, t)
  <2>1. d \in s.donors
    BY <1>2 DEF FirstMember
  <2>2. /\ t.queue = s.queue /\ t.taker = s.taker /\ t.need = s.need /\ t.donors = s.donors \ {d}
    BY <1>2, <2>1, DonateFacts
  <2>3. \A e \in s.donors \ {d} : t.alloc[e] = s.alloc[e]
    <3>1. \A e \in s.donors : e \in in.members /\ e # s.taker
      BY <1>0, <1>2 DEF Sound, Frame, WellFormed
    <3>2. \A e \in in.members \ {d, s.taker} : t.alloc[e] = s.alloc[e]
      BY <1>2, <2>1, DonateMoves
    <3> QED BY <3>1, <3>2
  <2> QED BY <1>2, <2>2, <2>3 DEF Offered
<1>3. CASE t.pc # "round"
  BY <1>3 DEF Offered
<1>4. ASSUME s.pc = "sweep" PROVE t.pc # "round"
  <2>1. ASSUME NEW k \in Neediest(in, s), t = Visit(in, s, k) PROVE t.pc # "round"
    <3>1. k \in in.members
      BY <1>0, <2>1 DEF Neediest, Frame
    <3> QED BY <1>4, <2>1, <3>1, VisitFacts
  <2> QED BY <1>0, <1>4, <2>1 DEF Iteration, NextSweep, NextTier, EndSweeps, Frame
<1>5. ASSUME s.pc = "preempt", t = Finish(s) \/ \E k \in s.queue : t = Dismiss(s, k)
      PROVE  t.pc # "round"
  BY <1>0, <1>5 DEF Finish, Dismiss, Frame
<1>6. ASSUME t = CloseRound(s) PROVE t.pc # "round"
  BY <1>0, <1>6 DEF CloseRound, Frame
<1> QED BY <1>1, <1>2, <1>3, <1>4, <1>5, <1>6 DEF Iteration, Foremost

\* What the measure adds up.
SweepTerms(in, s) == [t \in in.members |-> SweepsFor(in, s, t)]
RoundTerms(in, s) == [t \in in.members |-> RoundsFor(in, s, t)]
Size(in) == Cardinality(in.members)

LEMMA WorkTerms ==
  ASSUME NEW in, CallOK(in), NEW s, Sound(in, s), Offered(in, s)
  PROVE  /\ IsFiniteSet(in.members) /\ Size(in) \in Nat
         /\ \A X \in SUBSET in.members : Cardinality(X) \in Nat /\ Cardinality(X) <= Size(in)
         /\ SweepsLeft(in, s) \in Nat
         /\ \A t \in in.members :
              /\ RoundTerms(in, s)[t] \in Nat
              /\ SweepTerms(in, s)[t] \in Nat
         /\ SumOver(RoundTerms(in, s), in.members) \in Nat
         /\ SumOver(SweepTerms(in, s), in.members) \in Nat
<1>1. IsFiniteSet(in.members) /\ Size(in) \in Nat
  BY FS_CardinalityType DEF CallOK, WellFormed, Size
<1>2. \A X \in SUBSET in.members : Cardinality(X) \in Nat /\ Cardinality(X) <= Size(in)
  BY <1>1, FS_Subset, FS_CardinalityType DEF Size
<1>3. SweepsLeft(in, s) \in Nat
  <2>1. Cardinality({k \in in.members : in.prio[k] < s.tier}) \in Nat
    BY <1>2
  <2> QED BY <2>1 DEF SweepsLeft
<1>4. ASSUME NEW t \in in.members
      PROVE  RoundTerms(in, s)[t] \in Nat /\ SweepTerms(in, s)[t] \in Nat
  <2>1. /\ s.alloc[t] \in Nat /\ in.lo[t] \in Nat /\ WantClamped(in, t) \in Nat
        /\ in.lo[t] <= s.alloc[t] /\ s.alloc[t] <= WantClamped(in, t)
        /\ s.pc = "round" /\ t \in s.donors => s.alloc[t] > in.lo[t]
    BY WantClampedType DEF Sound, Frame, InWindows, CallOK, Offered
  <2>2. RoundsFor(in, s, t) \in Nat
    BY <2>1 DEF RoundsFor
  <2>3. Deficit(in, s, t) \in Nat /\ 3 * (WantClamped(in, t) - in.lo[t]) \in Nat
    BY <2>1 DEF Deficit
  <2>4. 2 * (Size(in) + 1) * Deficit(in, s, t) \in Nat
    <3>1. \A x, y \in Nat : 2 * (x + 1) * y \in Nat
      OBVIOUS
    <3> QED BY <1>1, <2>3, <3>1
  <2>5. SweepsFor(in, s, t) \in Nat
    <3>1. \A x, y \in Nat : x + y \in Nat
      OBVIOUS
    <3> QED BY <2>3, <2>4, <3>1 DEF SweepsFor, Size
  <2> QED BY <2>2, <2>5 DEF RoundTerms, SweepTerms
<1> HIDE DEF RoundTerms, SweepTerms
<1>5. /\ SumOver(RoundTerms(in, s), in.members) \in Nat
      /\ SumOver(SweepTerms(in, s), in.members) \in Nat
  BY <1>1, <1>4, SumNat
<1> QED BY <1>1, <1>2, <1>3, <1>4, <1>5

\* The measure, in terms of its sums.
LEMMA WorkIs ==
  ASSUME NEW in, NEW s
  PROVE  /\ s.pc = "sweep" =>
              Work(in, s) = SumOver(SweepTerms(in, s), in.members)
                              + (Size(in) + 1) * SweepsLeft(in, s)
                              + Cardinality(s.todo) + Size(in) + 2
         /\ s.pc = "preempt" =>
              Work(in, s) = SumOver(RoundTerms(in, s), in.members) + Cardinality(s.queue) + 1
         /\ s.pc = "round" =>
              Work(in, s) = SumOver(RoundTerms(in, s), in.members) + Cardinality(s.queue) + 2
         /\ s.pc = "done" => Work(in, s) = 0
<1>1. CASE s.pc = "sweep"
  BY <1>1 DEF Work, SweepTerms, Size
<1>2. CASE s.pc = "preempt"
  BY <1>2 DEF Work, RoundTerms
<1>3. CASE s.pc = "round"
  BY <1>3 DEF Work, RoundTerms
<1>4. CASE s.pc = "done"
  BY <1>4 DEF Work
<1> QED BY <1>1, <1>2, <1>3, <1>4

\* A call that is not over has work left.
LEMMA WorkLeft ==
  ASSUME NEW in, CallOK(in), NEW s, Sound(in, s), Offered(in, s)
  PROVE  Work(in, s) \in Nat /\ (s.pc # "done" => Work(in, s) > 0)
<1>1. /\ s.todo \in SUBSET in.members /\ s.queue \in SUBSET in.members
      /\ s.pc \in {"sweep", "preempt", "round", "done"}
  BY DEF Sound, Frame
<1>2. /\ Size(in) \in Nat /\ SweepsLeft(in, s) \in Nat
      /\ Cardinality(s.todo) \in Nat /\ Cardinality(s.queue) \in Nat
      /\ SumOver(RoundTerms(in, s), in.members) \in Nat
      /\ SumOver(SweepTerms(in, s), in.members) \in Nat
  BY <1>1, WorkTerms
<1>3. (Size(in) + 1) * SweepsLeft(in, s) \in Nat
  <2>1. \A x, y \in Nat : (x + 1) * y \in Nat
    OBVIOUS
  <2> QED BY <1>2, <2>1
<1> QED BY <1>1, <1>2, <1>3, WorkIs

\* A visit uses up a place in the sweep; a bump may cost one more sweep and
\* saves two.
LEMMA VisitWorks ==
  ASSUME NEW in, CallOK(in), NEW s, Sound(in, s), Offered(in, s), s.pc = "sweep",
         NEW k \in s.todo, Sound(in, Visit(in, s, k)), Offered(in, Visit(in, s, k))
  PROVE  Work(in, Visit(in, s, k)) < Work(in, s)
<1> DEFINE t == Visit(in, s, k)
           f == SweepTerms(in, s)
           g == SweepTerms(in, t)
           N == Size(in) + 1
<1>1. /\ k \in in.members /\ s.todo \in SUBSET in.members /\ s.alloc \in [in.members -> Nat]
      /\ s \in Frame(in)
  BY DEF Sound, Frame
<1>2. /\ t.pc = "sweep" /\ t.tier = s.tier /\ t.todo = s.todo \ {k}
      /\ \A j \in in.members \ {k} : t.alloc[j] = s.alloc[j]
      /\ Bumpable(in, s, k) => t.progressed /\ t.alloc[k] = s.alloc[k] + 1
      /\ ~Bumpable(in, s, k) => t.alloc = s.alloc /\ t.progressed = s.progressed
  BY <1>1, VisitFacts
<1>3. /\ IsFiniteSet(in.members) /\ Size(in) \in Nat /\ N \in Nat
      /\ Cardinality(s.todo) \in Nat
      /\ SweepsLeft(in, s) \in Nat /\ SumOver(f, in.members) \in Nat
      /\ \A j \in in.members : f[j] \in Int
  BY <1>1, WorkTerms
<1>4. /\ SweepsLeft(in, t) \in Nat /\ SumOver(g, in.members) \in Nat
      /\ \A j \in in.members : g[j] \in Int
  BY WorkTerms
<1>5. Cardinality(t.todo) = Cardinality(s.todo) - 1
  <2>1. IsFiniteSet(s.todo)
    BY <1>1, <1>3, FS_Subset
  <2> QED BY <1>2, <2>1, FS_RemoveElement
<1>6. /\ Work(in, s) = SumOver(f, in.members) + N * SweepsLeft(in, s)
                         + Cardinality(s.todo) + Size(in) + 2
      /\ Work(in, t) = SumOver(g, in.members) + N * SweepsLeft(in, t)
                         + Cardinality(t.todo) + Size(in) + 2
  BY <1>2, WorkIs
<1>7. ASSUME NEW j \in in.members, t.alloc[j] = s.alloc[j] PROVE g[j] = f[j]
  BY <1>7 DEF SweepTerms, SweepsFor, Deficit
<1>8. CASE ~Bumpable(in, s, k)
  <2>1. SumOver(g, in.members) = SumOver(f, in.members)
    <3>1. \A j \in in.members : f[j] \in Int /\ g[j] = f[j]
      BY <1>2, <1>3, <1>7, <1>8
    <3> HIDE DEF f, g
    <3> QED BY <1>3, <3>1, SumCongruent
  <2>2. SweepsLeft(in, t) = SweepsLeft(in, s)
    BY <1>2, <1>8 DEF SweepsLeft
  <2>3. N * SweepsLeft(in, s) \in Int
    BY <1>3
  <2> HIDE DEF f, g, t, N
  <2> QED BY <1>3, <1>5, <1>6, <2>1, <2>2, <2>3 DEF t
<1>9. CASE Bumpable(in, s, k)
  <2>1. g[k] = f[k] - 2 * N
    <3>1. Deficit(in, t, k) = Deficit(in, s, k) - 1 /\ Deficit(in, s, k) \in Int
      BY <1>1, <1>2, <1>9, WantClampedType DEF Deficit, CallOK
    <3>2. /\ f[k] = 2 * N * Deficit(in, s, k) + 3 * (WantClamped(in, k) - in.lo[k])
          /\ g[k] = 2 * N * Deficit(in, t, k) + 3 * (WantClamped(in, k) - in.lo[k])
      BY <1>1 DEF SweepTerms, SweepsFor, Size
    <3>3. 3 * (WantClamped(in, k) - in.lo[k]) \in Int
      BY <1>1, WantClampedType DEF CallOK
    <3>4. \A x, y \in Int : 2 * x * (y - 1) = 2 * x * y - 2 * x /\ 2 * x * y \in Int
      OBVIOUS
    <3> HIDE DEF f, g, t, N
    <3> QED BY <1>3, <3>1, <3>2, <3>3, <3>4
  <2>2. SumOver(g, in.members) = SumOver(f, in.members) + g[k] - f[k]
    <3>1. /\ \A j \in in.members : f[j] \in Int /\ g[j] \in Int
          /\ \A j \in in.members \ {k} : g[j] = f[j]
      BY <1>2, <1>3, <1>4, <1>7
    <3> HIDE DEF f, g
    <3> QED BY <1>1, <1>3, <3>1, SumChange
  <2>3. SweepsLeft(in, t) <= SweepsLeft(in, s) + 1
    <3>1. Cardinality({j \in in.members : in.prio[j] < s.tier}) \in Nat
      BY WorkTerms
    <3> QED BY <1>2, <3>1 DEF SweepsLeft
  <2>4. N * SweepsLeft(in, t) <= N * SweepsLeft(in, s) + N
        /\ N * SweepsLeft(in, t) \in Int /\ N * SweepsLeft(in, s) \in Int
    <3>1. \A x, y, z \in Nat : y <= z + 1 => x * y <= x * z + x /\ x * y \in Int /\ x * z \in Int
      OBVIOUS
    <3> QED BY <1>3, <1>4, <2>3, <3>1
  <2>5. f[k] \in Int
    BY <1>1, <1>3
  <2> HIDE DEF f, g, t, N
  <2> QED BY <1>3, <1>4, <1>5, <1>6, <2>1, <2>2, <2>4, <2>5 DEF t
<1> QED BY <1>8, <1>9

\* The frames of two sweeps with the same allocation differ only in the sweeps
\* that are left.
LEMMA FewerSweeps ==
  ASSUME NEW in, CallOK(in), NEW s, Sound(in, s), Offered(in, s), s.pc = "sweep", s.todo = {},
         NEW t, Sound(in, t), Offered(in, t), t.pc = "sweep", t.alloc = s.alloc,
         SweepsLeft(in, t) < SweepsLeft(in, s)
  PROVE  Work(in, t) < Work(in, s)
<1> DEFINE sum == SumOver(SweepTerms(in, s), in.members)
           N == Size(in) + 1
<1>1. /\ IsFiniteSet(in.members) /\ Size(in) \in Nat /\ N \in Nat /\ sum \in Nat
      /\ Cardinality(t.todo) \in Nat /\ Cardinality(t.todo) <= Size(in)
      /\ SweepsLeft(in, s) \in Nat /\ SweepsLeft(in, t) \in Nat
  <2>1. t.todo \in SUBSET in.members
    BY DEF Sound, Frame
  <2> QED BY <2>1, WorkTerms
<1>2. SweepTerms(in, t) = SweepTerms(in, s)
  BY DEF SweepTerms, SweepsFor, Deficit
<1>3. /\ Work(in, s) = sum + N * SweepsLeft(in, s) + Cardinality(s.todo) + Size(in) + 2
      /\ Work(in, t) = sum + N * SweepsLeft(in, t) + Cardinality(t.todo) + Size(in) + 2
  BY <1>2, WorkIs
<1>4. Cardinality(s.todo) = 0
  BY FS_EmptySet
<1>5. /\ N * SweepsLeft(in, t) \in Int /\ N * SweepsLeft(in, s) \in Int
      /\ N * SweepsLeft(in, t) + N <= N * SweepsLeft(in, s)
  <2>1. \A x, y, z \in Nat : y < z => x * y + x <= x * z /\ x * y \in Int /\ x * z \in Int
    OBVIOUS
  <2> QED BY <1>1, <2>1
<1> HIDE DEF sum
<1> QED BY <1>1, <1>3, <1>4, <1>5

LEMMA SweepsWork ==
  ASSUME NEW in, CallOK(in), NEW s, Sound(in, s), Offered(in, s), s.pc = "sweep", s.todo = {}
  PROVE  /\ s.progressed /\ Offered(in, NextSweep(in, s))
              => Work(in, NextSweep(in, s)) < Work(in, s)
         /\ ~s.progressed /\ LowerTiers(in, s) # {} /\ Offered(in, NextTier(in, s))
              => Work(in, NextTier(in, s)) < Work(in, s)
<1> DEFINE Under(p) == {k \in in.members : in.prio[k] < p}
<1>0. s \in Frame(in) /\ s.tier \in Int /\ WellFormed(in)
  BY DEF Sound, Frame, CallOK
<1>1. \A p : Cardinality(Under(p)) \in Nat /\ IsFiniteSet(Under(p))
  <2>1. \A p : Under(p) \in SUBSET in.members
    OBVIOUS
  <2> HIDE DEF Under
  <2> QED BY <2>1, WorkTerms, FS_Subset
<1>2. ASSUME s.progressed, Offered(in, NextSweep(in, s))
      PROVE  Work(in, NextSweep(in, s)) < Work(in, s)
  <2> DEFINE t == NextSweep(in, s)
  <2>1. t.pc = "sweep" /\ t.alloc = s.alloc /\ t.tier = s.tier /\ ~t.progressed
    BY <1>0 DEF NextSweep, Frame
  <2>2. SweepsLeft(in, t) < SweepsLeft(in, s)
    <3>1. /\ SweepsLeft(in, t) = Cardinality(Under(s.tier)) + 0
          /\ SweepsLeft(in, s) = Cardinality(Under(s.tier)) + 1
      BY <1>2, <2>1 DEF SweepsLeft
    <3> HIDE DEF Under, t
    <3> QED BY <1>1, <3>1
  <2>3. Sound(in, t)
    BY NextSweepSound
  <2> HIDE DEF t
  <2>4. Work(in, t) < Work(in, s)
    BY <1>2, <2>1, <2>2, <2>3, FewerSweeps DEF t
  <2> QED BY <2>4 DEF t
<1>3. ASSUME ~s.progressed, LowerTiers(in, s) # {}, Offered(in, NextTier(in, s))
      PROVE  Work(in, NextTier(in, s)) < Work(in, s)
  <2> DEFINE t == NextTier(in, s)
             top == TopTier(LowerTiers(in, s))
  <2>1. top \in LowerTiers(in, s) /\ top \in Int
    BY <1>0, <1>3, TopTierType DEF LowerTiers
  <2>2. t.pc = "sweep" /\ t.alloc = s.alloc /\ t.tier = top /\ t.progressed = s.progressed
    <3>1. t = [s EXCEPT !.tier = top, !.todo = TierMembers(in, top)]
      BY DEF NextTier
    <3> HIDE DEF t, top
    <3> QED BY <1>0, <3>1 DEF Frame
  <2>3. Cardinality(Under(top)) < Cardinality(Under(s.tier))
    <3>1. PICK k \in in.members : in.prio[k] = top /\ top < s.tier
      BY <2>1 DEF LowerTiers, Tiers
    <3>2. \A j \in in.members : in.prio[j] \in Int
      BY <1>0 DEF WellFormed
    <3>3. Under(top) \in SUBSET Under(s.tier) /\ k \in Under(s.tier) /\ k \notin Under(top)
      BY <1>0, <2>1, <3>1, <3>2
    <3> HIDE DEF Under, top
    <3>4. /\ Cardinality(Under(top)) <= Cardinality(Under(s.tier))
          /\ Cardinality(Under(top)) # Cardinality(Under(s.tier))
      BY <1>1, <3>3, FS_Subset
    <3> QED BY <1>1, <3>4
  <2>4. SweepsLeft(in, t) < SweepsLeft(in, s)
    <3>1. /\ SweepsLeft(in, t) = Cardinality(Under(top)) + 0
          /\ SweepsLeft(in, s) = Cardinality(Under(s.tier)) + 0
      BY <1>3, <2>2 DEF SweepsLeft
    <3> HIDE DEF Under, top, t
    <3> QED BY <1>1, <2>3, <3>1
  <2>5. Sound(in, t)
    BY <1>3, NextTierSound
  <2> HIDE DEF t
  <2>6. Work(in, t) < Work(in, s)
    BY <1>3, <2>2, <2>4, <2>5, FewerSweeps DEF t
  <2> QED BY <2>6 DEF t
<1> QED BY <1>2, <1>3

\* What the sweeps could still give is at least what the rounds can take back.
LEMMA EndSweepsWork ==
  ASSUME NEW in, CallOK(in), NEW s, Sound(in, s), Offered(in, s), s.pc = "sweep",
         Offered(in, EndSweeps(in, s))
  PROVE  Work(in, EndSweeps(in, s)) < Work(in, s)
<1> DEFINE t == EndSweeps(in, s)
           f == SweepTerms(in, s)
           g == RoundTerms(in, t)
           N == Size(in) + 1
<1>1. /\ s \in Frame(in) /\ s.todo \in SUBSET in.members /\ WellFormed(in)
      /\ s.alloc \in [in.members -> Nat]
  BY DEF Sound, Frame, CallOK
<1>2. t.pc = "preempt" /\ t.alloc = s.alloc /\ t.queue \in SUBSET in.members /\ Sound(in, t)
  <2>1. t.pc = "preempt" /\ t.alloc = s.alloc /\ t.queue = Hungry(in, s)
    BY <1>1 DEF EndSweeps, Frame
  <2>2. Hungry(in, s) \in SUBSET in.members
    BY DEF Hungry
  <2>3. Sound(in, t)
    BY EndSweepsSound
  <2> QED BY <2>1, <2>2, <2>3
<1>3. /\ IsFiniteSet(in.members) /\ Size(in) \in Nat /\ N \in Nat
      /\ Cardinality(s.todo) \in Nat /\ SweepsLeft(in, s) \in Nat
      /\ SumOver(f, in.members) \in Nat
  BY <1>1, WorkTerms
<1>4. /\ SumOver(g, in.members) \in Nat
      /\ Cardinality(t.queue) \in Nat /\ Cardinality(t.queue) <= Size(in)
  BY <1>2, WorkTerms
<1>5. SumOver(g, in.members) <= SumOver(f, in.members)
  <2>1. ASSUME NEW j \in in.members PROVE g[j] <= f[j] /\ f[j] \in Int /\ g[j] \in Int
    <3> DEFINE give == 2 * N * Deficit(in, s, j)
    <3>1. f[j] \in Nat /\ g[j] \in Nat
      BY <1>2, WorkTerms
    <3>2. /\ s.alloc[j] \in Nat /\ in.lo[j] \in Nat /\ WantClamped(in, j) \in Nat
          /\ in.lo[j] <= s.alloc[j] /\ s.alloc[j] <= WantClamped(in, j)
      BY <1>1, WantClampedType DEF Sound, InWindows
    <3>3. give \in Nat
      <4>1. Deficit(in, s, j) \in Nat
        BY <3>2 DEF Deficit
      <4>2. \A x, y \in Nat : 2 * x * y \in Nat
        OBVIOUS
      <4> QED BY <1>3, <4>1, <4>2
    <3>4. f[j] = give + 3 * (WantClamped(in, j) - in.lo[j])
      BY DEF SweepTerms, SweepsFor, Size
    <3>5. g[j] = 0 \/ g[j] = 3 * (s.alloc[j] - in.lo[j])
      BY <1>2, <3>2 DEF RoundTerms, RoundsFor
    <3> HIDE DEF f, g, give
    <3> QED BY <3>1, <3>2, <3>3, <3>4, <3>5
  <2> HIDE DEF f, g
  <2> QED BY <1>3, <2>1, SumOrder
<1>6. /\ Work(in, s) = SumOver(f, in.members) + N * SweepsLeft(in, s)
                         + Cardinality(s.todo) + Size(in) + 2
      /\ Work(in, t) = SumOver(g, in.members) + Cardinality(t.queue) + 1
  BY <1>2, WorkIs
<1>7. N * SweepsLeft(in, s) \in Nat
  BY <1>3
<1> HIDE DEF f, g, N, t
<1> QED BY <1>3, <1>4, <1>5, <1>6, <1>7 DEF t

\* A dismissal shortens the queue and gives nobody more to lose.
LEMMA DismissWorks ==
  ASSUME NEW in, CallOK(in), NEW s, Sound(in, s), Offered(in, s), s.pc = "preempt",
         NEW k \in s.queue, Offered(in, Dismiss(s, k))
  PROVE  Work(in, Dismiss(s, k)) < Work(in, s)
<1> DEFINE t == Dismiss(s, k)
           f == RoundTerms(in, s)
           g == RoundTerms(in, t)
<1>1. s \in Frame(in) /\ s.queue \in SUBSET in.members /\ s.alloc \in [in.members -> Nat]
  BY DEF Sound, Frame
<1>2. t.pc = "preempt" /\ t.alloc = s.alloc /\ t.queue = s.queue \ {k} /\ Sound(in, t)
  BY <1>1, DismissSound DEF Dismiss, Frame
<1>3. /\ IsFiniteSet(in.members) /\ Cardinality(s.queue) \in Nat
      /\ SumOver(f, in.members) \in Nat /\ SumOver(g, in.members) \in Nat
      /\ \A j \in in.members : f[j] \in Nat /\ g[j] \in Nat
  BY <1>1, <1>2, WorkTerms
<1>4. Cardinality(t.queue) = Cardinality(s.queue) - 1
  <2>1. IsFiniteSet(s.queue)
    BY <1>1, <1>3, FS_Subset
  <2> QED BY <1>2, <2>1, FS_RemoveElement
<1>5. SumOver(g, in.members) <= SumOver(f, in.members)
  <2>1. \A j \in in.members : g[j] = f[j] \/ g[j] = 0
    BY <1>2 DEF RoundTerms, RoundsFor
  <2>2. \A j \in in.members : g[j] <= f[j] /\ f[j] \in Int /\ g[j] \in Int
    BY <1>3, <2>1
  <2> HIDE DEF f, g
  <2> QED BY <1>3, <2>2, SumOrder
<1>6. /\ Work(in, s) = SumOver(f, in.members) + Cardinality(s.queue) + 1
      /\ Work(in, t) = SumOver(g, in.members) + Cardinality(t.queue) + 1
  BY <1>2, WorkIs
<1> HIDE DEF f, g, t
<1> QED BY <1>3, <1>4, <1>5, <1>6 DEF t

\* A round has a donor, and opening it is paid by what that one has to give.
LEMMA OpenRoundWorks ==
  ASSUME NEW in, CallOK(in), NEW s, Sound(in, s), Offered(in, s), s.pc = "preempt",
         NEW k \in Foremost(in, s.queue), ~Served(in, s, k)
  PROVE  Work(in, OpenRound(in, s, k)) < Work(in, s)
<1> DEFINE t == OpenRound(in, s, k)
           f == RoundTerms(in, s)
           g == RoundTerms(in, t)
<1>1. /\ s \in Frame(in) /\ s.queue \in SUBSET in.members /\ k \in s.queue
      /\ \A j \in in.members : s.alloc[j] \in Int /\ in.lo[j] \in Int
  BY DEF Sound, Frame, Foremost, CallOK, WellFormed
<1>2. /\ Offered(in, t) /\ t.pc = "round" /\ t.queue = s.queue /\ t.alloc = s.alloc
      /\ t.donors # {}
      /\ \A d \in t.donors : d \in in.members /\ in.prio[d] < in.prio[k]
  BY OpenRoundOffers DEF CallOK
<1>3. Sound(in, t)
  BY <1>1, OpenRoundSound
<1>4. /\ IsFiniteSet(in.members) /\ Cardinality(s.queue) \in Nat
      /\ SumOver(f, in.members) \in Nat /\ SumOver(g, in.members) \in Nat
      /\ \A j \in in.members : f[j] \in Nat /\ g[j] \in Nat
  BY <1>1, <1>2, <1>3, WorkTerms
<1>5. PICK d \in t.donors : TRUE
  BY <1>2
<1>6. g[d] = f[d] - 2 /\ \A j \in in.members : g[j] = f[j] \/ g[j] = f[j] - 2
  <2>1. ASSUME NEW j \in in.members PROVE g[j] = f[j] \/ g[j] = f[j] - 2
    <3> DEFINE full == 3 * (s.alloc[j] - in.lo[j])
    <3>1. full \in Int
      BY <1>1
    <3>2. \/ f[j] = 0 /\ g[j] = 0
          \/ f[j] = full - 0 /\ (g[j] = full - 0 \/ g[j] = full - 2)
      BY <1>2 DEF RoundTerms, RoundsFor
    <3> HIDE DEF f, g, full
    <3> QED BY <3>1, <3>2
  <2>2. g[d] = f[d] - 2
    <3> DEFINE full == 3 * (s.alloc[d] - in.lo[d])
    <3>1. full \in Int /\ d \in in.members
      BY <1>1, <1>2, <1>5
    <3>2. f[d] = full - 0 /\ g[d] = full - 2
      BY <1>1, <1>2, <1>5 DEF RoundTerms, RoundsFor
    <3> HIDE DEF f, g, full
    <3> QED BY <3>1, <3>2
  <2> QED BY <2>1, <2>2
<1>7. SumOver(g, in.members) <= SumOver(f, in.members) - 2
  <2> DEFINE h == [f EXCEPT ![d] = f[d] - 2]
  <2>1. d \in in.members /\ f = [j \in in.members |-> f[j]]
    BY <1>2, <1>5 DEF RoundTerms
  <2> HIDE DEF f, g
  <2>2. /\ h[d] = f[d] - 2 /\ \A j \in in.members \ {d} : h[j] = f[j]
        /\ \A j \in in.members : f[j] \in Int /\ h[j] \in Int
    BY <1>4, <2>1
  <2> HIDE DEF h
  <2>3. SumOver(h, in.members) = SumOver(f, in.members) + h[d] - f[d]
    <3>1. /\ IsFiniteSet(in.members) /\ d \in in.members
          /\ \A j \in in.members : f[j] \in Int /\ h[j] \in Int
          /\ \A j \in in.members \ {d} : h[j] = f[j]
      BY <1>4, <2>1, <2>2
    <3> HIDE DEF t
    <3> QED BY <3>1, SumChange
  <2>4. \A j \in in.members : g[j] \in Int /\ h[j] \in Int /\ g[j] <= h[j]
    BY <1>4, <1>6, <2>2
  <2>5. SumOver(g, in.members) <= SumOver(h, in.members)
    BY <1>4, <2>4, SumOrder
  <2>6. SumOver(g, in.members) \in Int /\ SumOver(f, in.members) \in Int /\ f[d] \in Int
    BY <1>4, <2>1
  <2> QED BY <2>2, <2>3, <2>5, <2>6
<1>8. /\ Work(in, s) = SumOver(f, in.members) + Cardinality(s.queue) + 1
      /\ Work(in, t) = SumOver(g, in.members) + Cardinality(s.queue) + 2
  BY <1>2, WorkIs
<1> HIDE DEF f, g, t
<1> QED BY <1>4, <1>7, <1>8 DEF t

\* A donation takes a replica that is not taken again: its taker has nobody
\* above it in the queue.
LEMMA DonateWorks ==
  ASSUME NEW in, CallOK(in), NEW s, Sound(in, s), Preempted(in, s), Offered(in, s),
         s.pc = "round", NEW d \in s.donors, Offered(in, Donate(in, s, d))
  PROVE  Work(in, Donate(in, s, d)) < Work(in, s)
<1> DEFINE t == Donate(in, s, d)
           k == s.taker
           f == RoundTerms(in, s)
           g == RoundTerms(in, t)
<1>1. /\ s \in Frame(in) /\ s.queue \in SUBSET in.members
      /\ d \in in.members /\ k \in s.queue /\ k \in in.members /\ in.prio[d] < in.prio[k]
      /\ \A j \in in.members : in.prio[j] \in Int /\ s.alloc[j] \in Int /\ in.lo[j] \in Int
      /\ \A q \in s.queue : in.prio[q] <= in.prio[k]
  BY DEF Sound, Frame, CallOK, WellFormed, Preempted, Offered
<1>2. /\ t.pc = "round" /\ t.queue = s.queue /\ t.donors = s.donors \ {d} /\ Sound(in, t)
  BY DonateFacts, DonateSound
<1>3. t.alloc[d] < s.alloc[d] /\ \A j \in in.members \ {d, k} : t.alloc[j] = s.alloc[j]
  BY DonorGives, DonateMoves
<1>4. /\ IsFiniteSet(in.members) /\ Cardinality(s.queue) \in Nat
      /\ SumOver(f, in.members) \in Nat /\ SumOver(g, in.members) \in Nat
      /\ \A j \in in.members : f[j] \in Nat /\ g[j] \in Nat
  BY <1>1, <1>2, WorkTerms
<1>5. g[d] < f[d]
  <2>1. t.alloc[d] \in Int
    BY <1>1, <1>2 DEF Sound, Frame
  <2>2. f[d] = 3 * (s.alloc[d] - in.lo[d]) - 2
    BY <1>1 DEF RoundTerms, RoundsFor
  <2>3. g[d] = 3 * (t.alloc[d] - in.lo[d])
    BY <1>1, <1>2, <2>1 DEF RoundTerms, RoundsFor
  <2> HIDE DEF f, g, t
  <2> QED BY <1>1, <1>3, <2>1, <2>2, <2>3
<1>6. \A j \in in.members \ {d} : g[j] = f[j]
  <2>1. ~ \E q \in s.queue : in.prio[k] < in.prio[q]
    BY <1>1
  <2>2. f[k] = 0 /\ g[k] = 0
    BY <1>1, <1>2, <2>1 DEF RoundTerms, RoundsFor
  <2>3. \A j \in in.members \ {d, k} : g[j] = f[j]
    BY <1>2, <1>3 DEF RoundTerms, RoundsFor
  <2> QED BY <2>2, <2>3
<1>7. SumOver(g, in.members) = SumOver(f, in.members) + g[d] - f[d]
  <2>1. \A j \in in.members : f[j] \in Int /\ g[j] \in Int
    BY <1>4
  <2> HIDE DEF f, g
  <2> QED BY <1>1, <1>4, <1>6, <2>1, SumChange
<1>8. /\ Work(in, s) = SumOver(f, in.members) + Cardinality(s.queue) + 2
      /\ Work(in, t) = SumOver(g, in.members) + Cardinality(s.queue) + 2
  BY <1>2, WorkIs
<1> HIDE DEF f, g, t
<1> QED BY <1>1, <1>4, <1>5, <1>7, <1>8 DEF t

\* The ends of a round and of a call.
LEMMA EndsWork ==
  ASSUME NEW in, CallOK(in), NEW s, Sound(in, s), Offered(in, s)
  PROVE  /\ s.pc = "round" /\ s.donors = {} => Work(in, CloseRound(s)) < Work(in, s)
         /\ s.pc = "preempt" => Work(in, Finish(s)) < Work(in, s)
<1>1. s \in Frame(in) /\ s.queue \in SUBSET in.members
  BY DEF Sound, Frame
<1>2. Cardinality(s.queue) \in Nat /\ SumOver(RoundTerms(in, s), in.members) \in Nat
  BY <1>1, WorkTerms
<1>3. ASSUME s.pc = "round", s.donors = {} PROVE Work(in, CloseRound(s)) < Work(in, s)
  <2> DEFINE t == CloseRound(s)
  <2>1. t.pc = "preempt" /\ t.alloc = s.alloc /\ t.queue = s.queue
    BY <1>1 DEF CloseRound, Frame
  <2>2. RoundTerms(in, t) = RoundTerms(in, s)
    <3>1. ASSUME NEW j \in in.members PROVE RoundsFor(in, t, j) = RoundsFor(in, s, j)
      BY <1>3, <2>1 DEF RoundsFor
    <3> QED BY <3>1 DEF RoundTerms
  <2> HIDE DEF t
  <2>3. Work(in, t) < Work(in, s)
    BY <1>2, <1>3, <2>1, <2>2, WorkIs
  <2> QED BY <2>3 DEF t
<1>4. ASSUME s.pc = "preempt" PROVE Work(in, Finish(s)) < Work(in, s)
  <2>1. Finish(s).pc = "done"
    BY <1>1 DEF Finish, Frame
  <2> QED BY <1>4, <2>1, WorkIs, WorkLeft
<1> QED BY <1>3, <1>4

LEMMA IterationWorks ==
  ASSUME NEW in, CallOK(in), NEW s, Orderly(in, s), Offered(in, s), NEW t, Iteration(in, s, t)
  PROVE  Offered(in, t) /\ Work(in, t) < Work(in, s)
<1>1. /\ Sound(in, s) /\ Preempted(in, s) /\ s \in Frame(in) /\ WellFormed(in)
  BY DEF Orderly, Sound, CallOK
<1>2. Offered(in, t)
  BY <1>1, OfferedKept
<1>3. Sound(in, t)
  BY <1>1, IterationKeeps DEF Orderly
<1>4. ASSUME s.pc = "sweep", NEW k \in Neediest(in, s), t = Visit(in, s, k)
      PROVE  Work(in, t) < Work(in, s)
  <2>1. k \in s.todo
    BY <1>4 DEF Neediest
  <2> QED BY <1>1, <1>2, <1>3, <1>4, <2>1, VisitWorks
<1>5. ASSUME s.pc = "sweep", s.todo = {},
             \/ s.progressed /\ t = NextSweep(in, s)
             \/ ~s.progressed /\ LowerTiers(in, s) # {} /\ t = NextTier(in, s)
      PROVE  Work(in, t) < Work(in, s)
  BY <1>1, <1>2, <1>5, SweepsWork
<1>6. ASSUME s.pc = "sweep", t = EndSweeps(in, s) PROVE Work(in, t) < Work(in, s)
  BY <1>1, <1>2, <1>6, EndSweepsWork
<1>7. ASSUME s.pc = "preempt", NEW k \in Foremost(in, s.queue), t = Dismiss(s, k)
      PROVE  Work(in, t) < Work(in, s)
  <2>1. k \in s.queue
    BY <1>7 DEF Foremost
  <2> QED BY <1>1, <1>2, <1>7, <2>1, DismissWorks
<1>8. ASSUME s.pc = "preempt", NEW k \in Foremost(in, s.queue), ~Served(in, s, k),
             t = OpenRound(in, s, k)
      PROVE  Work(in, t) < Work(in, s)
  BY <1>1, <1>8, OpenRoundWorks
<1>9. ASSUME s.pc = "round", NEW d \in FirstMember(in, s.donors), t = Donate(in, s, d)
      PROVE  Work(in, t) < Work(in, s)
  <2>1. d \in s.donors
    BY <1>9 DEF FirstMember
  <2> QED BY <1>1, <1>2, <1>9, <2>1, DonateWorks
<1>10. ASSUME \/ s.pc = "round" /\ s.donors = {} /\ t = CloseRound(s)
              \/ s.pc = "preempt" /\ t = Finish(s)
       PROVE  Work(in, t) < Work(in, s)
  BY <1>1, <1>10, EndsWork
<1>11. Work(in, t) < Work(in, s)
  BY <1>4, <1>5, <1>6, <1>7, <1>8, <1>9, <1>10 DEF Iteration
<1> QED BY <1>2, <1>11

(***************************************************************************)
(* The walks leave no choice: Advance is the only iteration there is.      *)
(***************************************************************************)
LEMMA WalksAreOrders ==
  ASSUME NEW in, WellFormed(in), NEW s, Sound(in, s)
  PROVE  /\ \A k, j \in Neediest(in, s) : k = j
         /\ \A k, j \in Foremost(in, s.queue) : k = j
         /\ \A k, j \in FirstMember(in, s.donors) : k = j
<1>1. /\ s.todo \in SUBSET in.members /\ s.queue \in SUBSET in.members
      /\ s.donors \in SUBSET in.members /\ s.alloc \in [in.members -> Nat]
      /\ \A k \in in.members : k \in Nat /\ in.pos[k] \in Nat /\ in.prio[k] \in Int
                               /\ in.gpr[k] \in Int
      /\ \A k, j \in in.members : in.pos[k] = in.pos[j] => k = j
  BY DEF Sound, Frame, WellFormed
<1>2. ASSUME NEW k \in Neediest(in, s), NEW j \in Neediest(in, s) PROVE k = j
  <2> DEFINE f(m) == Deficit(in, s, m) * in.gpr[m]
  <2>1. k \in s.todo /\ j \in s.todo
    BY <1>2 DEF Neediest
  <2>2. /\ f(k) > f(j) \/ (f(k) = f(j) /\ k <= j)
        /\ f(j) > f(k) \/ (f(j) = f(k) /\ j <= k)
    BY <1>2, <2>1 DEF Neediest
  <2>3. \A m \in in.members : f(m) \in Int
    <3>1. ASSUME NEW m \in in.members PROVE f(m) \in Int
      <4>1. Deficit(in, s, m) \in Int /\ in.gpr[m] \in Int
        BY <1>1, WantClampedType DEF Deficit
      <4> QED BY <4>1
    <3> QED BY <3>1
  <2>4. f(k) \in Int /\ f(j) \in Int /\ k \in Nat /\ j \in Nat
    BY <1>1, <2>1, <2>3
  <2> HIDE DEF f
  <2> QED BY <2>2, <2>4
<1>3. ASSUME NEW k \in Foremost(in, s.queue), NEW j \in Foremost(in, s.queue) PROVE k = j
  <2>1. k \in in.members /\ j \in in.members
    BY <1>1, <1>3 DEF Foremost
  <2>2. in.pos[k] = in.pos[j]
    BY <1>1, <1>3, <2>1 DEF Foremost
  <2> QED BY <1>1, <2>1, <2>2
<1>4. ASSUME NEW k \in FirstMember(in, s.donors), NEW j \in FirstMember(in, s.donors) PROVE k = j
  <2>1. k \in in.members /\ j \in in.members
    BY <1>1, <1>4 DEF FirstMember
  <2>2. in.pos[k] = in.pos[j]
    BY <1>1, <1>4, <2>1 DEF FirstMember
  <2> QED BY <1>1, <2>1, <2>2
<1> QED BY <1>2, <1>3, <1>4

LEMMA IterationAdvances ==
  ASSUME NEW in, WellFormed(in), NEW s, Sound(in, s), NEW t, Iteration(in, s, t)
  PROVE  t = Advance(in, s) /\ s.pc # "done"
<1>1. /\ \A k \in Neediest(in, s) : k = TheOne(Neediest(in, s)) /\ k \in s.todo
      /\ \A k \in Foremost(in, s.queue) : k = TheOne(Foremost(in, s.queue)) /\ k \in s.queue
      /\ \A k \in FirstMember(in, s.donors) : k = TheOne(FirstMember(in, s.donors)) /\ k \in s.donors
  <2>1. /\ \A k \in Neediest(in, s) : k \in s.todo
        /\ \A k \in Foremost(in, s.queue) : k \in s.queue
        /\ \A k \in FirstMember(in, s.donors) : k \in s.donors
    BY DEF Neediest, Foremost, FirstMember
  <2>2. /\ s.todo # {} => TheOne(Neediest(in, s)) \in Neediest(in, s)
        /\ s.queue # {} => TheOne(Foremost(in, s.queue)) \in Foremost(in, s.queue)
        /\ s.donors # {} => TheOne(FirstMember(in, s.donors)) \in FirstMember(in, s.donors)
    BY WalksGoOn
  <2>3. /\ \A k, j \in Neediest(in, s) : k = j
        /\ \A k, j \in Foremost(in, s.queue) : k = j
        /\ \A k, j \in FirstMember(in, s.donors) : k = j
    BY WalksAreOrders
  <2> QED BY <2>1, <2>2, <2>3
<1>2. CASE s.pc = "sweep"
  BY <1>1, <1>2 DEF Iteration, Advance, AdvanceSweep
<1>3. CASE s.pc = "preempt"
  BY <1>1, <1>3 DEF Iteration, Advance, AdvancePreempt
<1>4. CASE s.pc = "round"
  BY <1>1, <1>4 DEF Iteration, Advance, AdvanceRound
<1> QED BY <1>2, <1>3, <1>4 DEF Iteration

(***************************************************************************)
(* Allocate runs a call to its end: its run passes through the frames of   *)
(* the call, one iteration after the other, and rests when it is over.     *)
(***************************************************************************)
IsRun(run, in, n) ==
  run = [i \in 0..n |-> IF i = 0 THEN Start(in) ELSE Advance(in, run[i - 1])]

LEMMA RunEquation ==
  ASSUME NEW in, NEW n \in Nat, NEW run, IsRun(run, in, n), NEW i \in 0..n
  PROVE  run[i] = IF i = 0 THEN Start(in) ELSE Advance(in, run[i - 1])
<1> DEFINE f == [m \in 0..n |-> IF m = 0 THEN Start(in) ELSE Advance(in, run[m - 1])]
<1>1. run = f
  BY DEF IsRun
<1>2. f[i] = IF i = 0 THEN Start(in) ELSE Advance(in, run[i - 1])
  OBVIOUS
<1> HIDE DEF f
<1> QED BY <1>1, <1>2

LEMMA RunExists ==
  ASSUME NEW in, NEW limit \in Nat
  PROVE  \E run : IsRun(run, in, limit)
<1> DEFINE G == {n \in Nat : \E run : IsRun(run, in, n)}
<1>1. 0 \in G
  <2> DEFINE f == [i \in 0..0 |-> Start(in)]
  <2>1. IsRun(f, in, 0)
    BY DEF IsRun
  <2> QED BY <2>1
<1>2. ASSUME NEW n \in Nat, n \in G PROVE n + 1 \in G
  <2>1. PICK f : IsRun(f, in, n)
    BY <1>2
  <2> DEFINE g == [i \in 0..(n + 1) |-> IF i = n + 1 THEN Advance(in, f[n]) ELSE f[i]]
  <2>2. ASSUME NEW i \in 0..(n + 1)
        PROVE  g[i] = IF i = 0 THEN Start(in) ELSE Advance(in, g[i - 1])
    <3>1. CASE i = n + 1
      BY <3>1
    <3>2. CASE i \in 0..n
      <4>1. f[i] = IF i = 0 THEN Start(in) ELSE Advance(in, f[i - 1])
        BY <2>1, <3>2, RunEquation
      <4>2. g[i] = f[i] /\ (i # 0 => g[i - 1] = f[i - 1])
        BY <3>2
      <4> QED BY <4>1, <4>2
    <3> QED BY <3>1, <3>2
  <2>3. g = [i \in 0..(n + 1) |-> g[i]]
    OBVIOUS
  <2> HIDE DEF g
  <2>4. IsRun(g, in, n + 1)
    BY <2>2, <2>3 DEF IsRun
  <2> QED BY <2>4
<1> HIDE DEF G
<1>3. limit \in G
  BY <1>1, <1>2, NatGrow
<1> QED BY <1>3 DEF G

\* The run that Allocate makes.
RunOf(in, limit) == CHOOSE run : IsRun(run, in, limit)

LEMMA RunStep ==
  ASSUME NEW in, NEW limit \in Nat
  PROVE  /\ RunOf(in, limit)[0] = Start(in)
         /\ \A i \in Nat : i < limit =>
              RunOf(in, limit)[i + 1] = Advance(in, RunOf(in, limit)[i])
<1> DEFINE run == RunOf(in, limit)
<1>1. IsRun(run, in, limit)
  BY RunExists DEF RunOf
<1> HIDE DEF run
<1>2. run[0] = Start(in)
  <2>1. 0 \in 0..limit
    OBVIOUS
  <2> QED BY <1>1, <2>1, RunEquation
<1>3. ASSUME NEW i \in Nat, i < limit PROVE run[i + 1] = Advance(in, run[i])
  <2>1. i + 1 \in 0..limit /\ i + 1 # 0 /\ (i + 1) - 1 = i
    BY <1>3
  <2>2. run[i + 1] = IF i + 1 = 0 THEN Start(in) ELSE Advance(in, run[(i + 1) - 1])
    BY <1>1, <2>1, RunEquation
  <2> QED BY <2>1, <2>2
<1> QED BY <1>2, <1>3 DEF run

LEMMA RunRests ==
  ASSUME NEW in, NEW limit \in Nat, NEW i \in 0..limit, RunOf(in, limit)[i].pc = "done"
  PROVE  RunOf(in, limit)[limit] = RunOf(in, limit)[i]
<1> DEFINE run == RunOf(in, limit)
           G == {n \in Nat : i + n <= limit => run[i + n] = run[i]}
<1>1. 0 \in G
  OBVIOUS
<1>2. ASSUME NEW n \in Nat, n \in G, i + (n + 1) <= limit PROVE run[i + (n + 1)] = run[i]
  <2>1. run[i + n] = run[i]
    BY <1>2
  <2>2. run[(i + n) + 1] = Advance(in, run[i + n])
    <3>1. i + n \in Nat /\ i + n < limit
      BY <1>2
    <3> QED BY <3>1, RunStep
  <2>3. Advance(in, run[i]) = run[i]
    BY DEF Advance
  <2>4. (i + n) + 1 = i + (n + 1)
    OBVIOUS
  <2> QED BY <2>1, <2>2, <2>3, <2>4
<1>3. \A n \in Nat : n \in G => n + 1 \in G
  BY <1>2
<1> HIDE DEF run
<1>4. limit - i \in Nat
  OBVIOUS
<1>5. limit - i \in G
  <2> HIDE DEF G
  <2> QED BY <1>1, <1>3, <1>4, NatGrow
<1>6. i + (limit - i) = limit
  OBVIOUS
<1> QED BY <1>5, <1>6 DEF run

\* Allocate returns the last allocation of its run.
LEMMA AllocateRuns ==
  ASSUME NEW in, WellFormed(in)
  PROVE  LET limit == Work(in, Start(in))
         IN  limit \in Nat /\ Allocate(in) = RunOf(in, limit)[limit].alloc
<1> DEFINE limit == Work(in, Start(in))
<1>1. limit \in Nat
  <2>1. CallOK(in) /\ Sound(in, Start(in)) /\ Offered(in, Start(in))
    BY StartOrderly, FloorCostType DEF CallOK, Orderly, Offered, Start
  <2> QED BY <2>1, WorkLeft
<1>2. Allocate(in) = RunOf(in, limit)[limit].alloc
  BY DEF Allocate, RunOf, IsRun
<1> QED BY <1>1, <1>2

\* Every frame of the run is a frame of a call, and has no more iterations left
\* than the run.
LEMMA RunOnTrack ==
  ASSUME NEW in, WellFormed(in), NEW limit \in Nat, limit = Work(in, Start(in)), NEW i \in 0..limit
  PROVE  LET s == RunOf(in, limit)[i]
         IN  /\ Orderly(in, s) /\ Offered(in, s)
             /\ s.pc = "done" \/ i + Work(in, s) <= limit
<1> DEFINE run == RunOf(in, limit)
           OnTrack(s, n) == /\ Orderly(in, s) /\ Offered(in, s)
                            /\ s.pc = "done" \/ n + Work(in, s) <= limit
           G == {n \in Nat : n <= limit => OnTrack(run[n], n)}
<1>1. CallOK(in)
  BY FloorCostType DEF CallOK
<1>2. run[0] = Start(in) /\ \A n \in Nat : n < limit => run[n + 1] = Advance(in, run[n])
  BY RunStep
<1> HIDE DEF run
<1>3. 0 \in G
  <2>1. Orderly(in, Start(in)) /\ Offered(in, Start(in))
    BY StartOrderly DEF Offered, Start
  <2>2. 0 + Work(in, Start(in)) <= limit
    OBVIOUS
  <2> QED BY <1>2, <2>1, <2>2
<1>4. ASSUME NEW n \in Nat, n \in G, n + 1 <= limit PROVE OnTrack(run[n + 1], n + 1)
  <2> DEFINE s == run[n]
             t == Advance(in, s)
  <2>1. OnTrack(s, n) /\ run[n + 1] = t
    BY <1>2, <1>4
  <2> HIDE DEF t, s
  <2>2. Sound(in, s) /\ Orderly(in, s) /\ Offered(in, s)
    BY <2>1 DEF Orderly
  <2>3. CASE s.pc = "done" /\ t = s
    BY <2>1, <2>3
  <2>4. CASE Iteration(in, s, t)
    <3>1. Orderly(in, t) /\ Offered(in, t) /\ Work(in, t) < Work(in, s)
      BY <1>1, <2>2, <2>4, IterationKeeps, IterationWorks
    <3>2. Work(in, s) \in Nat /\ Work(in, t) \in Nat /\ s.pc # "done"
      <4>1. Sound(in, t)
        BY <3>1 DEF Orderly
      <4> QED BY <1>1, <2>2, <2>4, <3>1, <4>1, WorkLeft, IterationAdvances
    <3>3. n + Work(in, s) <= limit
      BY <2>1, <3>2
    <3>4. (n + 1) + Work(in, t) <= limit
      BY <3>1, <3>2, <3>3
    <3> QED BY <2>1, <3>1, <3>4
  <2> QED BY <2>2, <2>3, <2>4, AdvanceIterates DEF t
<1>5. \A n \in Nat : n \in G => n + 1 \in G
  BY <1>4
<1>6. i \in G
  <2> HIDE DEF G
  <2> QED BY <1>3, <1>5, NatGrow
<1> QED BY <1>6 DEF run

LEMMA AllocateEnds ==
  ASSUME NEW in, WellFormed(in)
  PROVE  \E s : Orderly(in, s) /\ s.pc = "done" /\ Allocate(in) = s.alloc
<1> DEFINE limit == Work(in, Start(in))
           s == RunOf(in, limit)[limit]
<1>1. limit \in Nat /\ Allocate(in) = s.alloc
  BY AllocateRuns
<1>2. Orderly(in, s) /\ Offered(in, s) /\ (s.pc = "done" \/ limit + Work(in, s) <= limit)
  <2>1. limit \in 0..limit
    BY <1>1
  <2> HIDE DEF limit
  <2> QED BY <1>1, <2>1, RunOnTrack DEF limit
<1>3. CallOK(in) /\ Sound(in, s)
  BY <1>2, FloorCostType DEF CallOK, Orderly
<1> HIDE DEF limit, s
<1>4. Work(in, s) \in Nat /\ (s.pc # "done" => Work(in, s) > 0)
  BY <1>2, <1>3, WorkLeft
<1>5. s.pc = "done"
  BY <1>1, <1>2, <1>4
<1> QED BY <1>1, <1>2, <1>5
=============================================================================
