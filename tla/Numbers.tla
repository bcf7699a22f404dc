------------------------------ MODULE Numbers ------------------------------
(***************************************************************************)
(* What the proofs need about numbers: a set of them has a least and a     *)
(* greatest element (the loops of the server look for the first or the     *)
(* last seat of a kind, or for the lowest bet), and how the sums behave    *)
(* that Functions and Folds define (chips, bets and pots are added up).    *)
(* Induction is over sets: the lemmas take the set of the numbers, or of   *)
(* the subsets, that a statement holds for.                                *)
(***************************************************************************)
EXTENDS Integers, FiniteSets, Functions, FiniteSetTheorems,
        WellFoundedInduction, TLAPS

\* Every set of natural numbers has a least one.
LEMMA MinExists ==
    ASSUME NEW S \in SUBSET Nat, S # {}
    PROVE  \E x \in S : \A y \in S : x <= y
<1>1. \E x \in S : \A y \in S : ~ (<<y, x>> \in OpToRel(<, Nat))
  BY NatLessThanWellFounded, WFMin
<1>2. PICK x \in S : \A y \in S : ~ (<<y, x>> \in OpToRel(<, Nat))
  BY <1>1
<1>3. \A y \in S : ~ (y < x)
  BY <1>2 DEF OpToRel
<1> QED
  BY <1>3

\* A bounded set of natural numbers has a greatest one.
LEMMA MaxExists ==
    ASSUME NEW S \in SUBSET Nat, S # {}, NEW b \in Nat, \A x \in S : x <= b
    PROVE  \E x \in S : \A y \in S : x >= y
<1> DEFINE T == {b - x : x \in S}
<1>1. T \in SUBSET Nat /\ T # {}
  <2>1. \A x \in S : b - x \in Nat
    OBVIOUS
  <2> QED
    BY <2>1
<1>2. PICK z \in T : \A y \in T : z <= y
  BY <1>1, MinExists
<1>3. PICK x \in S : z = b - x
  OBVIOUS
<1>4. \A y \in S : b - y \in T /\ b - x <= b - y
  BY <1>2, <1>3
<1> QED
  BY <1>4

-----------------------------------------------------------------------------
\* Induction: a set of numbers with 0 and every successor has them all.
LEMMA NumbersAll ==
    ASSUME NEW G \in SUBSET Nat, 0 \in G, \A n \in G : n + 1 \in G
    PROVE  G = Nat
<1> SUFFICES ASSUME Nat \ G # {} PROVE FALSE
  OBVIOUS
<1>1. PICK n \in Nat \ G : \A m \in Nat \ G : n <= m
  BY MinExists
<1>2. n - 1 \in G
  BY <1>1
<1>3. (n - 1) + 1 \in G
  BY <1>2
<1> QED
  BY <1>1, <1>3

\* A family of subsets that has a set whenever it has all of its parts with
\* one element less has every finite set.
LEMMA SubsetsAll ==
    ASSUME NEW S, IsFiniteSet(S), NEW G,
           \A T \in SUBSET S : (\A x \in T : T \ {x} \in G) => T \in G
    PROVE  S \in G
<1> DEFINE Sizes == {n \in Nat : \A T \in SUBSET S :
                                    Cardinality(T) = n => T \in G}
<1>1. \A T \in SUBSET S : IsFiniteSet(T) /\ Cardinality(T) \in Nat
  BY FS_Subset, FS_CardinalityType
<1>2. 0 \in Sizes
  <2>1. ASSUME NEW T \in SUBSET S, Cardinality(T) = 0
        PROVE  T \in G
    <3>1. T = {}
      BY <1>1, <2>1, FS_EmptySet
    <3> QED
      BY <3>1
  <2> QED
    BY <2>1
<1>3. ASSUME NEW n \in Sizes
      PROVE  n + 1 \in Sizes
  <2>1. ASSUME NEW T \in SUBSET S, Cardinality(T) = n + 1, NEW x \in T
        PROVE  T \ {x} \in G
    <3>1. Cardinality(T \ {x}) = Cardinality(T) - 1
      BY <1>1, FS_RemoveElement
    <3>2. Cardinality(T \ {x}) = n
      BY <2>1, <3>1
    <3> QED
      BY <3>2
  <2>2. \A T \in SUBSET S : Cardinality(T) = n + 1 => T \in G
    BY <2>1
  <2> QED
    BY <2>2
<1>4. Sizes = Nat
  <2> HIDE DEF Sizes
  <2>1. Sizes \in SUBSET Nat
    BY DEF Sizes
  <2> QED
    BY <1>2, <1>3, <2>1, NumbersAll
<1>5. Cardinality(S) \in Sizes
  <2> HIDE DEF Sizes
  <2> QED
    BY <1>1, <1>4
<1> QED
  BY <1>5

-----------------------------------------------------------------------------
(***************************************************************************)
(* Sums.  SumFunction and FoldFunction of the community modules add up the *)
(* values of a function one by one, in an order that CHOOSE decides.       *)
(***************************************************************************)

\* The element that is added first, the equation of a sum's recursion, and
\* the function that solves it.
One(s) == CHOOSE x \in s : TRUE
Adds(g, f, D) ==
    g = [s \in D |-> IF s = {} THEN 0 ELSE f[One(s)] + g[s \ {One(s)}]]
Sums(f, S) == CHOOSE g : Adds(g, f, SUBSET S)

\* The element that is added first is one of the set.
LEMMA OneIsIn ==
    ASSUME NEW s, s # {}
    PROVE  One(s) \in s
BY DEF One

\* The recursion has a solution.
LEMMA SumsExist ==
    ASSUME NEW f, NEW S, IsFiniteSet(S)
    PROVE  Adds(Sums(f, S), f, SUBSET S)
<1> DEFINE Small(n) == {s \in SUBSET S : Cardinality(s) <= n}
           G == {n \in Nat : \E g : Adds(g, f, Small(n))}
<1>1. \A T \in SUBSET S :
         /\ IsFiniteSet(T) /\ Cardinality(T) \in Nat
         /\ T = {} <=> Cardinality(T) = 0
         /\ \A x \in T : Cardinality(T \ {x}) = Cardinality(T) - 1
  BY FS_Subset, FS_CardinalityType, FS_EmptySet, FS_RemoveElement
<1>2. 0 \in G
  <2> DEFINE g == [s \in Small(0) |-> 0]
  <2>1. \A s \in Small(0) : s = {}
    BY <1>1
  <2>2. g = [s \in Small(0) |-> IF s = {} THEN 0
                                ELSE f[One(s)] + g[s \ {One(s)}]]
    BY <2>1
  <2> QED
    BY <2>2 DEF Adds
<1>3. ASSUME NEW n \in G
      PROVE  n + 1 \in G
  <2>1. PICK g : Adds(g, f, Small(n))
    OBVIOUS
  <2> DEFINE next(h, s) == IF s = {} THEN 0 ELSE f[One(s)] + h[s \ {One(s)}]
             h == [s \in Small(n + 1) |-> next(g, s)]
  <2>2. \A s \in Small(n) : g[s] = next(g, s) /\ s \in Small(n + 1)
    <3>1. g = [s \in Small(n) |-> next(g, s)]
      BY <2>1 DEF Adds
    <3>2. \A s \in Small(n) : s \in Small(n + 1)
      BY <1>1
    <3> HIDE DEF next, Small
    <3> QED
      BY <3>1, <3>2
  <2>3. \A s \in Small(n) : h[s] = g[s]
    <3> HIDE DEF next, Small
    <3> QED
      BY <2>2
  <2>4. \A s \in Small(n + 1) : s # {} => s \ {One(s)} \in Small(n)
    BY <1>1, OneIsIn
  <2>5. \A s \in Small(n + 1) : next(g, s) = next(h, s)
    <3> HIDE DEF Small, h
    <3> QED
      BY <2>3, <2>4
  <2>6. [s \in Small(n + 1) |-> next(g, s)] = [s \in Small(n + 1) |-> next(h, s)]
    <3> HIDE DEF Small, next, h
    <3> QED
      BY <2>5, Zenon
  <2>7. h = [s \in Small(n + 1) |-> next(h, s)]
    <3> HIDE DEF Small, next
    <3> QED
      BY <2>6
  <2>8. Adds(h, f, Small(n + 1))
    <3> HIDE DEF Small, h
    <3> QED
      BY <2>7 DEF Adds
  <2>9. \E g2 : Adds(g2, f, Small(n + 1))
    <3> HIDE DEF Small, h
    <3> QED
      BY <2>8
  <2> HIDE DEF Small
  <2> QED
    BY <2>9
<1>4. G = Nat
  <2> HIDE DEF G
  <2>1. G \in SUBSET Nat
    BY DEF G
  <2> QED
    BY <1>2, <1>3, <2>1, NumbersAll
<1>5. Cardinality(S) \in G
  <2> HIDE DEF G
  <2> QED
    BY <1>1, <1>4
<1>6. Small(Cardinality(S)) = SUBSET S
  <2>1. \A T \in SUBSET S : Cardinality(T) <= Cardinality(S)
    BY FS_Subset
  <2> QED
    BY <2>1
<1>7. \E g : Adds(g, f, SUBSET S)
  BY <1>5, <1>6
<1> QED
  BY <1>7 DEF Sums

\* One step of the recursion.
LEMMA SumsStep ==
    ASSUME NEW f, NEW S, IsFiniteSet(S), NEW T \in SUBSET S
    PROVE  Sums(f, S)[T] = IF T = {} THEN 0
                           ELSE f[One(T)] + Sums(f, S)[T \ {One(T)}]
<1>1. Adds(Sums(f, S), f, SUBSET S)
  BY SumsExist
<1>2. ASSUME NEW g, Adds(g, f, SUBSET S)
      PROVE  g[T] = IF T = {} THEN 0 ELSE f[One(T)] + g[T \ {One(T)}]
  BY <1>2 DEF Adds
<1> QED
  BY <1>1, <1>2

\* The sum over a set does not depend on what it is a part of, and only on
\* the values in it.
LEMMA SumsAgree ==
    ASSUME NEW f, NEW g, NEW S, IsFiniteSet(S), NEW R, IsFiniteSet(R),
           NEW T \in SUBSET (S \cap R), \A x \in T : f[x] = g[x]
    PROVE  Sums(f, S)[T] = Sums(g, R)[T]
<1> DEFINE G == {s \in SUBSET T : Sums(f, S)[s] = Sums(g, R)[s]}
<1>1. IsFiniteSet(T)
  BY FS_Subset
<1>2. ASSUME NEW s \in SUBSET T, \A x \in s : s \ {x} \in G
      PROVE  s \in G
  <2>1. CASE s = {}
    BY <2>1, SumsStep
  <2>2. CASE s # {}
    <3>1. One(s) \in s /\ f[One(s)] = g[One(s)]
      BY <2>2, OneIsIn
    <3>2. Sums(f, S)[s \ {One(s)}] = Sums(g, R)[s \ {One(s)}]
      BY <1>2, <3>1
    <3>3. Sums(f, S)[s] = f[One(s)] + Sums(f, S)[s \ {One(s)}]
      BY <2>2, SumsStep
    <3>4. Sums(g, R)[s] = g[One(s)] + Sums(g, R)[s \ {One(s)}]
      BY <2>2, SumsStep
    <3> QED
      BY <3>1, <3>2, <3>3, <3>4
  <2> QED
    BY <2>1, <2>2
<1>3. T \in G
  <2> HIDE DEF G
  <2> QED
    BY <1>1, <1>2, SubsetsAll
<1> QED
  BY <1>3

-----------------------------------------------------------------------------
(***************************************************************************)
(* SumFunctionOnSet(f, S), for a finite set S of integers f[x].            *)
(***************************************************************************)
\* The fold of the community modules is that recursion.
LEMMA SumIsSums ==
    ASSUME NEW f, NEW S
    PROVE  SumFunctionOnSet(f, S) = Sums(f, S)[S]
BY DEF SumFunctionOnSet, FoldFunctionOnSet, MapThenFoldSet, Sums, Adds, One

\* FoldFunction with + is SumFunction.
LEMMA FoldIsSum ==
    ASSUME NEW f
    PROVE  FoldFunction(+, 0, f) = SumFunction(f)
BY DEF SumFunction, SumFunctionOnSet, FoldFunction

\* Nothing adds up to 0.
LEMMA SumEmpty ==
    ASSUME NEW f
    PROVE  SumFunctionOnSet(f, {}) = 0
BY SumIsSums, SumsStep, FS_EmptySet

\* Equal summands have equal sums.
LEMMA SumSame ==
    ASSUME NEW f, NEW g, NEW S, IsFiniteSet(S), \A x \in S : f[x] = g[x]
    PROVE  SumFunctionOnSet(f, S) = SumFunctionOnSet(g, S)
<1>1. Sums(f, S)[S] = Sums(g, S)[S]
  BY SumsAgree
<1> QED
  BY <1>1, SumIsSums

\* The recursion of the fold.
LEMMA SumFirst ==
    ASSUME NEW f, NEW S, IsFiniteSet(S), S # {}
    PROVE  SumFunctionOnSet(f, S) =
             f[One(S)] + SumFunctionOnSet(f, S \ {One(S)})
<1>1. Sums(f, S)[S] = f[One(S)] + Sums(f, S)[S \ {One(S)}]
  BY SumsStep
<1>2. IsFiniteSet(S \ {One(S)})
  BY FS_Subset
<1>3. Sums(f, S)[S \ {One(S)}] = Sums(f, S \ {One(S)})[S \ {One(S)}]
  BY <1>2, SumsAgree
<1> QED
  BY <1>1, <1>3, SumIsSums

\* A sum of integers is one.
LEMMA SumType ==
    ASSUME NEW f, NEW S, IsFiniteSet(S), \A x \in S : f[x] \in Int
    PROVE  SumFunctionOnSet(f, S) \in Int
<1> DEFINE G == {T \in SUBSET S : SumFunctionOnSet(f, T) \in Int}
<1>1. ASSUME NEW T \in SUBSET S, \A x \in T : T \ {x} \in G
      PROVE  T \in G
  <2>1. CASE T = {}
    BY <2>1, SumEmpty
  <2>2. CASE T # {}
    <3>1. One(T) \in T /\ f[One(T)] \in Int
      BY <2>2, OneIsIn
    <3>2. SumFunctionOnSet(f, T \ {One(T)}) \in Int
      BY <1>1, <3>1
    <3>3. SumFunctionOnSet(f, T) = f[One(T)] + SumFunctionOnSet(f, T \ {One(T)})
      BY <2>2, FS_Subset, SumFirst
    <3> QED
      BY <3>1, <3>2, <3>3
  <2> QED
    BY <2>1, <2>2
<1>2. S \in G
  <2> HIDE DEF G
  <2> QED
    BY <1>1, SubsetsAll
<1> QED
  BY <1>2

\* Any element may be added last.
LEMMA SumRemove ==
    ASSUME NEW f, NEW S, IsFiniteSet(S), \A x \in S : f[x] \in Int,
           NEW a \in S
    PROVE  SumFunctionOnSet(f, S) = f[a] + SumFunctionOnSet(f, S \ {a})
<1> DEFINE Sum(T) == SumFunctionOnSet(f, T)
           G == {T \in SUBSET S : \A x \in T : Sum(T) = f[x] + Sum(T \ {x})}
<1>1. ASSUME NEW T \in SUBSET S, \A x \in T : T \ {x} \in G, NEW x \in T
      PROVE  Sum(T) = f[x] + Sum(T \ {x})
  <2> DEFINE y == One(T)
  <2>1. IsFiniteSet(T) /\ \A R \in SUBSET T : IsFiniteSet(R)
    BY FS_Subset
  <2>2. y \in T /\ Sum(T) = f[y] + Sum(T \ {y})
    BY <2>1, OneIsIn, SumFirst
  <2>3. CASE x = y
    BY <2>2, <2>3
  <2>4. CASE x # y
    <3> HIDE DEF y, Sum
    <3>1. Sum(T \ {y}) = f[x] + Sum((T \ {y}) \ {x})
      BY <1>1, <2>2, <2>4
    <3>2. Sum(T \ {x}) = f[y] + Sum((T \ {x}) \ {y})
      BY <1>1, <2>2, <2>4
    <3>3. (T \ {y}) \ {x} = (T \ {x}) \ {y}
      OBVIOUS
    <3>4. f[x] \in Int /\ f[y] \in Int
      BY <2>2
    <3>5. Sum((T \ {x}) \ {y}) \in Int
      BY <2>1, SumType DEF Sum
    <3>6. Sum(T) = f[y] + (f[x] + Sum((T \ {x}) \ {y}))
      BY <2>2, <3>1, <3>3, Zenon
    <3>7. \A m, n, k \in Int : m + (n + k) = n + (m + k)
      OBVIOUS
    <3>8. Sum(T) = f[x] + (f[y] + Sum((T \ {x}) \ {y}))
      BY <3>4, <3>5, <3>6, <3>7, Zenon
    <3> QED
      BY <3>2, <3>8, Zenon
  <2> QED
    BY <2>3, <2>4
<1>2. \A T \in SUBSET S : (\A x \in T : T \ {x} \in G) => T \in G
  BY <1>1
<1>3. S \in G
  <2> HIDE DEF G
  <2> QED
    BY <1>2, SubsetsAll
<1> QED
  BY <1>3

\* One summand changed.
LEMMA SumChange ==
    ASSUME NEW f, NEW g, NEW S, IsFiniteSet(S), NEW a \in S,
           \A x \in S : f[x] \in Int /\ g[x] \in Int,
           \A x \in S \ {a} : f[x] = g[x]
    PROVE  SumFunctionOnSet(g, S) = SumFunctionOnSet(f, S) - f[a] + g[a]
<1>1. SumFunctionOnSet(f, S) = f[a] + SumFunctionOnSet(f, S \ {a})
  BY SumRemove
<1>2. SumFunctionOnSet(g, S) = g[a] + SumFunctionOnSet(g, S \ {a})
  BY SumRemove
<1>3. IsFiniteSet(S \ {a})
  BY FS_Subset
<1>4. SumFunctionOnSet(f, S \ {a}) = SumFunctionOnSet(g, S \ {a})
  BY <1>3, SumSame
<1>5. SumFunctionOnSet(f, S \ {a}) \in Int
  BY <1>3, SumType
<1> QED
  BY <1>1, <1>2, <1>4, <1>5

\* Adding two functions adds their sums.
LEMMA SumAdd ==
    ASSUME NEW f, NEW g, NEW h, NEW S, IsFiniteSet(S),
           \A x \in S : f[x] \in Int /\ g[x] \in Int /\ h[x] = f[x] + g[x]
    PROVE  SumFunctionOnSet(h, S)
             = SumFunctionOnSet(f, S) + SumFunctionOnSet(g, S)
<1> DEFINE Sum(k, T) == SumFunctionOnSet(k, T)
           G == {T \in SUBSET S : Sum(h, T) = Sum(f, T) + Sum(g, T)}
<1>1. ASSUME NEW T \in SUBSET S, \A x \in T : T \ {x} \in G
      PROVE  Sum(h, T) = Sum(f, T) + Sum(g, T)
  <2>1. CASE T = {}
    BY <2>1, SumEmpty
  <2>2. CASE T # {}
    <3>1. PICK x \in T : TRUE
      BY <2>2
    <3>2. IsFiniteSet(T) /\ IsFiniteSet(T \ {x})
      BY FS_Subset
    <3>3. \A z \in S : h[z] \in Int
      OBVIOUS
    <3>4. /\ Sum(f, T) = f[x] + Sum(f, T \ {x})
          /\ Sum(g, T) = g[x] + Sum(g, T \ {x})
          /\ Sum(h, T) = h[x] + Sum(h, T \ {x})
      BY <3>2, <3>3, SumRemove
    <3>5. Sum(h, T \ {x}) = Sum(f, T \ {x}) + Sum(g, T \ {x})
      BY <1>1
    <3>6. Sum(f, T \ {x}) \in Int /\ Sum(g, T \ {x}) \in Int
      BY <3>2, SumType
    <3> HIDE DEF Sum
    <3> QED
      BY <3>4, <3>5, <3>6
  <2> QED
    BY <2>1, <2>2
<1>2. \A T \in SUBSET S : (\A x \in T : T \ {x} \in G) => T \in G
  BY <1>1
<1>3. S \in G
  <2> HIDE DEF G
  <2> QED
    BY <1>2, SubsetsAll
<1> QED
  BY <1>3

\* Smaller summands have a smaller sum.
LEMMA SumAtMost ==
    ASSUME NEW f, NEW g, NEW S, IsFiniteSet(S),
           \A x \in S : f[x] \in Int /\ g[x] \in Int /\ f[x] <= g[x]
    PROVE  SumFunctionOnSet(f, S) <= SumFunctionOnSet(g, S)
<1> DEFINE Sum(k, T) == SumFunctionOnSet(k, T)
           G == {T \in SUBSET S : Sum(f, T) <= Sum(g, T)}
<1>1. ASSUME NEW T \in SUBSET S, \A x \in T : T \ {x} \in G
      PROVE  Sum(f, T) <= Sum(g, T)
  <2>1. CASE T = {}
    BY <2>1, SumEmpty
  <2>2. CASE T # {}
    <3>1. PICK x \in T : TRUE
      BY <2>2
    <3>2. IsFiniteSet(T) /\ IsFiniteSet(T \ {x})
      BY FS_Subset
    <3>4. /\ Sum(f, T) = f[x] + Sum(f, T \ {x})
          /\ Sum(g, T) = g[x] + Sum(g, T \ {x})
      BY <3>2, SumRemove
    <3>5. Sum(f, T \ {x}) <= Sum(g, T \ {x})
      BY <1>1
    <3>6. Sum(f, T \ {x}) \in Int /\ Sum(g, T \ {x}) \in Int
      BY <3>2, SumType
    <3> HIDE DEF Sum
    <3> QED
      BY <3>4, <3>5, <3>6
  <2> QED
    BY <2>1, <2>2
<1>2. \A T \in SUBSET S : (\A x \in T : T \ {x} \in G) => T \in G
  BY <1>1
<1>3. S \in G
  <2> HIDE DEF G
  <2> QED
    BY <1>2, SubsetsAll
<1> QED
  BY <1>3

\* What is 0 everywhere adds up to 0.
LEMMA SumZero ==
    ASSUME NEW f, NEW S, IsFiniteSet(S), \A x \in S : f[x] = 0
    PROVE  SumFunctionOnSet(f, S) = 0
<1>1. \A x \in S : f[x] \in Int /\ f[x] = f[x] + f[x]
  OBVIOUS
<1>2. SumFunctionOnSet(f, S)
        = SumFunctionOnSet(f, S) + SumFunctionOnSet(f, S)
  BY <1>1, SumAdd
<1>3. SumFunctionOnSet(f, S) \in Int
  BY <1>1, SumType
<1>4. \A n \in Int : n = n + n => n = 0
  OBVIOUS
<1> QED
  BY <1>2, <1>3, <1>4, Zenon

\* What is 0 in a part of the set adds nothing.
LEMMA SumPart ==
    ASSUME NEW f, NEW S, IsFiniteSet(S), \A x \in S : f[x] \in Int,
           NEW T \in SUBSET S, \A x \in S \ T : f[x] = 0
    PROVE  SumFunctionOnSet(f, S) = SumFunctionOnSet(f, T)
<1> DEFINE Sum(R) == SumFunctionOnSet(f, R)
           G == {R \in SUBSET S : Sum(R) = Sum(R \cap T)}
<1>1. ASSUME NEW R \in SUBSET S, \A x \in R : R \ {x} \in G
      PROVE  Sum(R) = Sum(R \cap T)
  <2>1. CASE R \subseteq T
    <3>1. R \cap T = R
      BY <2>1
    <3> QED
      BY <3>1
  <2>2. CASE \E x \in R : x \notin T
    <3>1. PICK x \in R : x \notin T
      BY <2>2
    <3>2. IsFiniteSet(R) /\ IsFiniteSet(R \ {x})
      BY FS_Subset
    <3>3. Sum(R) = f[x] + Sum(R \ {x})
      BY <3>2, SumRemove
    <3>4. Sum(R \ {x}) = Sum((R \ {x}) \cap T)
      BY <1>1
    <3>5. (R \ {x}) \cap T = R \cap T
      BY <3>1
    <3>6. f[x] = 0 /\ Sum(R \ {x}) \in Int
      BY <3>1, <3>2, SumType
    <3>7. \A n \in Int : 0 + n = n
      OBVIOUS
    <3>8. Sum(R) = Sum(R \ {x})
      BY <3>3, <3>6, <3>7, Zenon
    <3> QED
      BY <3>4, <3>5, <3>8, Zenon
  <2> QED
    BY <2>1, <2>2
<1>2. \A R \in SUBSET S : (\A x \in R : R \ {x} \in G) => R \in G
  BY <1>1
<1>3. S \in G
  <2> HIDE DEF G
  <2> QED
    BY <1>2, SubsetsAll
<1>4. S \cap T = T
  OBVIOUS
<1> QED
  BY <1>3, <1>4

\* The same number for each of some elements.
LEMMA SumCount ==
    ASSUME NEW f, NEW S, IsFiniteSet(S), NEW B \in SUBSET S, NEW m \in Int,
           \A x \in S : f[x] = IF x \in B THEN m ELSE 0
    PROVE  SumFunctionOnSet(f, S) = m * Cardinality(B)
<1> DEFINE Sum(R) == SumFunctionOnSet(f, R)
           G == {R \in SUBSET B : Sum(R) = m * Cardinality(R)}
<1>1. ASSUME NEW R \in SUBSET B, \A x \in R : R \ {x} \in G
      PROVE  Sum(R) = m * Cardinality(R)
  <2>1. CASE R = {}
    <3>1. Cardinality(R) = 0
      BY <2>1, FS_EmptySet
    <3>2. Sum(R) = 0
      BY <2>1, SumEmpty
    <3> HIDE DEF Sum
    <3> QED
      BY <3>1, <3>2
  <2>2. CASE R # {}
    <3>1. PICK x \in R : TRUE
      BY <2>2
    <3>2. IsFiniteSet(R) /\ IsFiniteSet(R \ {x}) /\ Cardinality(R) \in Nat
      BY FS_Subset, FS_CardinalityType
    <3>3. Sum(R) = f[x] + Sum(R \ {x})
      BY <3>2, SumRemove
    <3>4. Sum(R \ {x}) = m * Cardinality(R \ {x})
      BY <1>1
    <3>5. Cardinality(R \ {x}) = Cardinality(R) - 1
      BY <3>1, <3>2, FS_RemoveElement
    <3>6. f[x] = m
      OBVIOUS
    <3>7. \A c \in Int : m + m * (c - 1) = m * c
      OBVIOUS
    <3> HIDE DEF Sum
    <3>8. Sum(R) = m + m * (Cardinality(R) - 1)
      BY <3>3, <3>4, <3>5, <3>6
    <3> QED
      BY <3>2, <3>7, <3>8
  <2> QED
    BY <2>1, <2>2
<1>2. \A R \in SUBSET B : (\A x \in R : R \ {x} \in G) => R \in G
  BY <1>1
<1>3. B \in G
  <2>1. IsFiniteSet(B)
    BY FS_Subset
  <2> HIDE DEF G
  <2> QED
    BY <1>2, <2>1, SubsetsAll
<1>4. Sum(S) = Sum(B)
  BY SumPart
<1> QED
  BY <1>3, <1>4

\* The sum over a sequence, without one of its elements: those behind it
\* move up by one.
LEMMA SumWithout ==
    ASSUME NEW n \in Nat, NEW k \in 1..n, NEW f, \A j \in 1..n : f[j] \in Int,
           NEW g,
           \A j \in 1..(n - 1) : g[j] = IF j < k THEN f[j] ELSE f[j + 1]
    PROVE  SumFunctionOnSet(g, 1..(n - 1)) = SumFunctionOnSet(f, 1..n) - f[k]
<1> DEFINE D == 1..(n - 1)
           less(i) == [j \in D |-> IF j < i THEN f[j] ELSE f[j + 1]]
           Sum(h, T) == SumFunctionOnSet(h, T)
           Good(i) == Sum(less(i), D) = Sum(f, 1..n) - f[i]
           G == {d \in Nat : d < n => Good(n - d)}
<1>1. IsFiniteSet(D) /\ IsFiniteSet(1..n) /\ D = 1..n \ {n} /\ n \in 1..n
  <2>1. n - 1 \in Int
    OBVIOUS
  <2>2. IsFiniteSet(D) /\ IsFiniteSet(1..n)
    BY <2>1, FS_Interval
  <2> QED
    BY <2>2
<1>2. \A i \in 1..n, j \in D :
         /\ less(i)[j] \in Int
         /\ less(i)[j] = IF j < i THEN f[j] ELSE f[j + 1]
  <2>1. \A j \in D : j \in 1..n /\ j + 1 \in 1..n
    OBVIOUS
  <2> QED
    BY <2>1
<1>3. Good(n)
  <2>1. \A j \in D : less(n)[j] = f[j]
    BY <1>1, <1>2
  <2> HIDE DEF less
  <2>2. Sum(less(n), D) = Sum(f, D)
    BY <1>1, <2>1, SumSame
  <2>3. Sum(f, 1..n) = f[n] + Sum(f, D)
    BY <1>1, SumRemove
  <2>4. Sum(f, D) \in Int
    <3>1. \A j \in D : f[j] \in Int
      BY <1>1
    <3> QED
      BY <1>1, <3>1, SumType
  <2>5. f[n] \in Int
    BY <1>1
  <2> HIDE DEF Sum
  <2> QED
    BY <2>2, <2>3, <2>4, <2>5
<1>4. ASSUME NEW i \in 2..n, Good(i)
      PROVE  Good(i - 1)
  <2>1. i \in 1..n /\ i - 1 \in 1..n /\ i - 1 \in D
    OBVIOUS
  <2>2. \A j \in D \ {i - 1} : less(i)[j] = less(i - 1)[j]
    BY <1>2, <2>1
  <2>3. less(i)[i - 1] = f[i - 1] /\ less(i - 1)[i - 1] = f[i]
    BY <1>2, <2>1
  <2>4. \A j \in D : less(i)[j] \in Int /\ less(i - 1)[j] \in Int
    BY <1>2, <2>1
  <2>5. Sum(less(i - 1), D)
          = Sum(less(i), D) - less(i)[i - 1] + less(i - 1)[i - 1]
    <3> DEFINE old == less(i)
               new == less(i - 1)
               p == i - 1
    <3>1. p \in D /\ IsFiniteSet(D)
      BY <1>1, <2>1
    <3>2. \A x \in D : old[x] \in Int /\ new[x] \in Int
      BY <2>4
    <3>3. \A x \in D \ {p} : old[x] = new[x]
      BY <2>2
    <3> HIDE DEF old, new, p, D
    <3>4. SumFunctionOnSet(new, D) = SumFunctionOnSet(old, D) - old[p] + new[p]
      BY <3>1, <3>2, <3>3, SumChange
    <3> QED
      BY <3>4 DEF old, new, p
  <2> HIDE DEF less
  <2>6. Sum(less(i), D) = Sum(f, 1..n) - f[i]
    BY <1>4
  <2>7. Sum(f, 1..n) \in Int /\ f[i] \in Int /\ f[i - 1] \in Int
    BY <1>1, <2>1, SumType
  <2> HIDE DEF Sum
  <2> QED
    BY <2>3, <2>5, <2>6, <2>7
<1>5. 0 \in G
  BY <1>3
<1>6. \A d \in G : d + 1 \in G
  <2>1. SUFFICES ASSUME NEW d \in Nat, d < n => Good(n - d), d + 1 < n
                 PROVE  Good(n - (d + 1))
    OBVIOUS
  <2>2. n - d \in 2..n /\ n - (d + 1) = (n - d) - 1
    BY <2>1
  <2> HIDE DEF Good
  <2> QED
    BY <1>4, <2>1, <2>2
<1>7. n - k \in G
  <2> HIDE DEF G
  <2>1. G \in SUBSET Nat
    BY DEF G
  <2> QED
    BY <1>5, <1>6, <2>1, NumbersAll
<1>8. Good(k)
  <2>1. n - (n - k) = k /\ n - k < n
    OBVIOUS
  <2> HIDE DEF Good
  <2> QED
    BY <1>7, <2>1
<1>9. Sum(g, D) = Sum(less(k), D)
  <2>1. \A j \in D : g[j] = less(k)[j]
    BY <1>2
  <2> HIDE DEF less
  <2> QED
    BY <1>1, <2>1, SumSame
<1> QED
  BY <1>8, <1>9

\* The sum over a sequence whose last element grows by v, and which gets a
\* new last element, 0.
LEMMA SumLast ==
    ASSUME NEW n \in Nat \ {0}, NEW v \in Int, NEW f, NEW g,
           \A j \in 1..n : f[j] \in Int, g[n] = f[n] + v, g[n + 1] = 0,
           \A j \in 1..(n - 1) : g[j] = f[j]
    PROVE  SumFunctionOnSet(g, 1..(n + 1)) = SumFunctionOnSet(f, 1..n) + v
<1>1. /\ IsFiniteSet(1..n) /\ IsFiniteSet(1..(n + 1))
      /\ 1..n \in SUBSET (1..(n + 1)) /\ n \in 1..n
      /\ 1..(n + 1) = 1..n \cup {n + 1} /\ 1..n = 1..(n - 1) \cup {n}
  <2>1. n + 1 \in Int /\ n \in Int /\ 1 \in Int
    OBVIOUS
  <2>2. IsFiniteSet(1..n) /\ IsFiniteSet(1..(n + 1))
    BY <2>1, FS_Interval
  <2> QED
    BY <2>2
<1>2. \A j \in 1..n : g[j] \in Int
  BY <1>1
<1>3. SumFunctionOnSet(g, 1..(n + 1)) = SumFunctionOnSet(g, 1..n)
  <2> DEFINE D == 1..(n + 1)
             C == 1..n
  <2>1. \A x \in D : g[x] \in Int
    BY <1>1, <1>2
  <2>2. \A x \in D \ C : g[x] = 0
    BY <1>1
  <2>3. IsFiniteSet(D)
    BY <1>1
  <2>4. C \in SUBSET D
    BY <1>1
  <2>5. SumFunctionOnSet(g, D) = SumFunctionOnSet(g, C)
    <3> HIDE DEF D, C
    <3> QED
      BY <2>1, <2>2, <2>3, <2>4, SumPart, Zenon
  <2> QED
    BY <2>5
<1>4. SumFunctionOnSet(g, 1..n) = SumFunctionOnSet(f, 1..n) - f[n] + g[n]
  <2> DEFINE D == 1..n
  <2>1. \A x \in D : f[x] \in Int /\ g[x] \in Int
    BY <1>2
  <2>2. \A x \in D \ {n} : f[x] = g[x]
    BY <1>1
  <2>3. IsFiniteSet(D) /\ n \in D
    BY <1>1
  <2>4. SumFunctionOnSet(g, D) = SumFunctionOnSet(f, D) - f[n] + g[n]
    <3> DEFINE old == f
               new == g
               p == n
    <3>1. \A x \in D : old[x] \in Int /\ new[x] \in Int
      BY <2>1
    <3>2. \A x \in D \ {p} : old[x] = new[x]
      BY <2>2
    <3>3. p \in D /\ IsFiniteSet(D)
      BY <2>3
    <3> HIDE DEF D, old, new, p
    <3>4. SumFunctionOnSet(new, D) = SumFunctionOnSet(old, D) - old[p] + new[p]
      BY <3>1, <3>2, <3>3, SumChange
    <3> QED
      BY <3>4 DEF old, new, p
  <2> QED
    BY <2>4
<1>5. SumFunctionOnSet(f, 1..n) \in Int /\ f[n] \in Int
  BY <1>1, SumType
<1> QED
  BY <1>3, <1>4, <1>5

\* The sum over a sequence two neighbours of which are joined.
LEMMA SumJoin ==
    ASSUME NEW n \in Nat, NEW k \in 1..(n - 1), NEW f,
           \A j \in 1..n : f[j] \in Int, NEW g,
           \A j \in 1..(n - 1) :
              g[j] = IF j = k THEN f[k] + f[k + 1]
                     ELSE IF j < k THEN f[j] ELSE f[j + 1]
    PROVE  SumFunctionOnSet(g, 1..(n - 1)) = SumFunctionOnSet(f, 1..n)
<1> DEFINE D == 1..n
           h == [j \in D |-> IF j = k THEN f[k] + f[k + 1] ELSE f[j]]
           p == k + 1
<1>1. /\ IsFiniteSet(D) /\ k \in D /\ p \in D /\ p # k
      /\ \A j \in D : h[j] \in Int
      /\ \A j \in D \ {k} : f[j] = h[j]
      /\ h[k] = f[k] + f[p] /\ h[p] = f[p]
  <2>1. k \in D /\ p \in D /\ p # k /\ n \in Int /\ 1 \in Int
    OBVIOUS
  <2>2. IsFiniteSet(D)
    BY <2>1, FS_Interval
  <2> QED
    BY <2>1, <2>2
<1>2. SumFunctionOnSet(h, D) = SumFunctionOnSet(f, D) - f[k] + h[k]
  <2> DEFINE old == f
             new == h
             q == k
  <2>1. \A x \in D : old[x] \in Int /\ new[x] \in Int
    BY <1>1
  <2>2. \A x \in D \ {q} : old[x] = new[x]
    BY <1>1
  <2>3. q \in D /\ IsFiniteSet(D)
    BY <1>1
  <2> HIDE DEF D, old, new, q
  <2>4. SumFunctionOnSet(new, D) = SumFunctionOnSet(old, D) - old[q] + new[q]
    BY <2>1, <2>2, <2>3, SumChange
  <2> QED
    BY <2>4 DEF old, new, q
<1>3. SumFunctionOnSet(g, 1..(n - 1)) = SumFunctionOnSet(h, 1..n) - h[p]
  <2>1. \A j \in 1..(n - 1) : g[j] = IF j < p THEN h[j] ELSE h[j + 1]
    <3>1. ASSUME NEW j \in 1..(n - 1)
          PROVE  g[j] = IF j < p THEN h[j] ELSE h[j + 1]
      <4>1. j \in D /\ j + 1 \in D
        OBVIOUS
      <4>2. CASE j < k
        BY <4>1, <4>2
      <4>3. CASE j = k
        BY <4>1, <4>3
      <4>4. CASE j > k
        BY <4>1, <4>4
      <4> QED
        BY <4>2, <4>3, <4>4
    <3> QED
      BY <3>1
  <2>2. p \in 1..n /\ \A j \in 1..n : h[j] \in Int
    BY <1>1
  <2> HIDE DEF h, p
  <2> QED
    BY <2>1, <2>2, SumWithout
<1>4. SumFunctionOnSet(f, D) \in Int /\ f[k] \in Int /\ f[p] \in Int
  BY <1>1, SumType
<1> QED
  <2> HIDE DEF h, p
  <2> QED
    BY <1>1, <1>2, <1>3, <1>4
=============================================================================
