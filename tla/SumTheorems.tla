----------------------------- MODULE SumTheorems -----------------------------
(***************************************************************************)
(* Facts about SumFunction, the sum the other modules are stated with: a   *)
(* fold that takes the elements in an order nothing is known of.  What it  *)
(* is for a finite set is proved without an induction theorem that takes a *)
(* predicate: among the sets that violate a claim there is a smallest one. *)
(***************************************************************************)
EXTENDS Functions, FiniteSets, FiniteSetTheorems, WellFoundedInduction, TLAPS

LessThan == {p \in Nat \X Nat : p[1] < p[2]}

\* A set of natural numbers that is not empty has a least element: induction,
\* stated for a set instead of a predicate.
LEMMA LeastNatural ==
  ASSUME NEW T \in SUBSET Nat, T # {}
  PROVE  \E n \in T : \A m \in T : n <= m
<1>1. IsWellFoundedOn(LessThan, Nat)
  BY NatLessThanWellFounded DEF OpToRel, LessThan
<1>2. PICK n \in T : \A m \in T : ~ (<<m, n>> \in LessThan)
  BY <1>1, WFMin
<1>3. ASSUME NEW m \in T
      PROVE  n <= m
  <2>1. m \in Nat /\ n \in Nat /\ ~ (<<m, n>> \in LessThan)
    BY <1>2
  <2>2. m < n => <<m, n>> \in LessThan
    BY <2>1 DEF LessThan
  <2>3. QED
    BY <2>1, <2>2
<1>4. QED
  BY <1>3

\* A collection of finite sets has one of least cardinality.
LEMMA SmallestSet ==
  ASSUME NEW C, C # {}, \A T \in C : IsFiniteSet(T)
  PROVE  \E T \in C : \A U \in C : Cardinality(T) <= Cardinality(U)
<1> DEFINE N == {Cardinality(T) : T \in C}
<1>1. N \in SUBSET Nat /\ N # {}
  BY FS_CardinalityType
<1>2. PICK n \in N : \A m \in N : n <= m
  BY <1>1, LeastNatural
<1>3. PICK T \in C : n = Cardinality(T)
  OBVIOUS
<1>4. QED
  BY <1>2, <1>3

\* What a finite set consists of is finite.
LEMMA SubsetsAreFinite ==
  ASSUME NEW S, IsFiniteSet(S)
  PROVE  \A T \in SUBSET S : IsFiniteSet(T) /\ Cardinality(T) \in Nat
BY FS_Subset, FS_CardinalityType

-----------------------------------------------------------------------------
(* The recursive function behind the fold *)

Chosen(T) == CHOOSE x \in T : TRUE

\* The sum over T, given the sums g over smaller sets.
FoldStep(f, g, T) == IF T = {} THEN 0 ELSE f[Chosen(T)] + g[T \ {Chosen(T)}]

FoldedSum(f, S) == CHOOSE g : g = [T \in SUBSET S |-> FoldStep(f, g, T)]

\* SumFunctionOnSet is that function, applied to the whole set.
LEMMA SumIsFolded ==
  ASSUME NEW f, NEW S
  PROVE  SumFunctionOnSet(f, S) = FoldedSum(f, S)[S]
BY DEF SumFunctionOnSet, FoldFunctionOnSet, MapThenFoldSet, FoldedSum, Chosen, FoldStep

\* The element a fold takes next is one of the set, which gets smaller by one.
LEMMA ChosenIsRemoved ==
  ASSUME NEW T, IsFiniteSet(T), T # {}
  PROVE  /\ Chosen(T) \in T
         /\ IsFiniteSet(T \ {Chosen(T)})
         /\ Cardinality(T) \in Nat
         /\ Cardinality(T \ {Chosen(T)}) = Cardinality(T) - 1
<1>1. Chosen(T) \in T
  BY DEF Chosen
<1>2. QED
  BY <1>1, FS_RemoveElement, FS_CardinalityType

\* The subsets of S with at most n elements.
UpTo(S, n) == {T \in SUBSET S : Cardinality(T) <= n}

\* A solution for sets of up to n elements extends to n + 1.
LEMMA FoldGrows ==
  ASSUME NEW S, IsFiniteSet(S), NEW f, \A x \in S : f[x] \in Int, NEW n \in Nat,
         NEW g \in [UpTo(S, n) -> Int],
         \A T \in UpTo(S, n) : g[T] = FoldStep(f, g, T)
  PROVE  \E h \in [UpTo(S, n + 1) -> Int] :
           \A T \in UpTo(S, n + 1) : h[T] = FoldStep(f, h, T)
<1> DEFINE h == [T \in UpTo(S, n + 1) |-> FoldStep(f, g, T)]
<1>1. ASSUME NEW T \in UpTo(S, n + 1), T # {}
      PROVE  Chosen(T) \in S /\ T \ {Chosen(T)} \in UpTo(S, n)
  <2>1. T \in SUBSET S /\ Cardinality(T) <= n + 1
    BY DEF UpTo
  <2>2. QED
    BY <1>1, <2>1, SubsetsAreFinite, ChosenIsRemoved DEF UpTo
<1>2. h \in [UpTo(S, n + 1) -> Int]
  BY <1>1 DEF FoldStep
<1>3. \A T \in UpTo(S, n) : T \in UpTo(S, n + 1) /\ h[T] = g[T]
  BY SubsetsAreFinite DEF UpTo
<1>4. \A T \in UpTo(S, n + 1) : h[T] = FoldStep(f, h, T)
  BY <1>1, <1>3 DEF FoldStep
<1>5. QED
  BY <1>2, <1>4

\* The equation of the fold has a solution, with integers for values.
LEMMA FoldExists ==
  ASSUME NEW S, IsFiniteSet(S), NEW f, \A x \in S : f[x] \in Int
  PROVE  \E g \in [SUBSET S -> Int] : \A T \in SUBSET S : g[T] = FoldStep(f, g, T)
<1> DEFINE Good(n) == \E g \in [UpTo(S, n) -> Int] :
                         \A T \in UpTo(S, n) : g[T] = FoldStep(f, g, T)
           Bad == {n \in Nat : ~ Good(n)}
<1>1. Good(0)
  <2>1. \A T \in UpTo(S, 0) : T = {}
    BY SubsetsAreFinite, FS_EmptySet DEF UpTo
  <2> DEFINE zero == [T \in UpTo(S, 0) |-> 0]
  <2>2. /\ zero \in [UpTo(S, 0) -> Int]
        /\ \A T \in UpTo(S, 0) : zero[T] = FoldStep(f, zero, T)
    BY <2>1 DEF FoldStep
  <2>3. QED
    BY <2>2
<1>2. ASSUME NEW n \in Nat, Good(n)
      PROVE  Good(n + 1)
  BY <1>2, FoldGrows
<1>3. Bad = {}
  <2> SUFFICES ASSUME Bad # {}
               PROVE  FALSE
    OBVIOUS
  <2>1. PICK n \in Bad : \A m \in Bad : n <= m
    BY LeastNatural
  <2>2. n # 0
    BY <1>1
  <2>3. n - 1 \in Nat /\ Good(n - 1)
    BY <2>1, <2>2
  <2>4. Good((n - 1) + 1)
    BY ONLY <2>3, <1>2
  <2>5. QED
    BY <2>4
<1>4. Good(Cardinality(S))
  BY <1>3, FS_CardinalityType
<1>5. UpTo(S, Cardinality(S)) = SUBSET S
  BY FS_Subset DEF UpTo
<1>6. QED
  BY <1>4, <1>5

\* The equation has one solution, and it looks at f only inside of S.
LEMMA FoldIsUnique ==
  ASSUME NEW S, IsFiniteSet(S), NEW f, NEW e, \A x \in S : f[x] = e[x],
         NEW g, \A T \in SUBSET S : g[T] = FoldStep(f, g, T),
         NEW h, \A T \in SUBSET S : h[T] = FoldStep(e, h, T)
  PROVE  g[S] = h[S]
<1> DEFINE C == {T \in SUBSET S : g[T] # h[T]}
<1> SUFFICES ASSUME C # {}
             PROVE  FALSE
  OBVIOUS
<1>1. PICK T \in C : \A U \in C : Cardinality(T) <= Cardinality(U)
  BY SubsetsAreFinite, SmallestSet
<1>2. T # {}
  BY DEF FoldStep
<1>3. /\ Chosen(T) \in S /\ T \ {Chosen(T)} \in SUBSET S
      /\ Cardinality(T) \in Nat
      /\ Cardinality(T \ {Chosen(T)}) = Cardinality(T) - 1
  BY SubsetsAreFinite, <1>2, ChosenIsRemoved
<1>4. T \ {Chosen(T)} \notin C
  BY <1>1, <1>3
<1>5. g[T] = h[T]
  BY <1>3, <1>4 DEF FoldStep
<1>6. QED
  BY <1>5

\* The fold satisfies its equation, and is the sum on every subset.
LEMMA FoldEquation ==
  ASSUME NEW S, IsFiniteSet(S), NEW f, \A x \in S : f[x] \in Int
  PROVE  /\ FoldedSum(f, S) \in [SUBSET S -> Int]
         /\ \A T \in SUBSET S :
              /\ FoldedSum(f, S)[T] = FoldStep(f, FoldedSum(f, S), T)
              /\ SumFunctionOnSet(f, T) = FoldedSum(f, S)[T]
<1>1. ASSUME NEW T \in SUBSET S
      PROVE  /\ FoldedSum(f, T) \in [SUBSET T -> Int]
             /\ \A U \in SUBSET T : FoldedSum(f, T)[U] = FoldStep(f, FoldedSum(f, T), U)
  <2> DEFINE h == FoldedSum(f, T)
  <2>1. IsFiniteSet(T) /\ \A x \in T : f[x] \in Int
    BY SubsetsAreFinite
  <2>2. PICK g \in [SUBSET T -> Int] : \A U \in SUBSET T : g[U] = FoldStep(f, g, U)
    BY <2>1, FoldExists
  <2>3. g = [U \in SUBSET T |-> FoldStep(f, g, U)]
    BY <2>2
  <2>4. h = [U \in SUBSET T |-> FoldStep(f, h, U)]
    BY <2>3 DEF FoldedSum
  <2> HIDE DEF h
  <2>5. ASSUME NEW U \in SUBSET T
        PROVE  h[U] = g[U]
    <3>1. IsFiniteSet(U)
      BY <2>1, SubsetsAreFinite
    <3>2. /\ \A V \in SUBSET U : g[V] = FoldStep(f, g, V)
          /\ \A V \in SUBSET U : h[V] = FoldStep(f, h, V)
      BY <2>2, <2>4
    <3>3. QED
      BY <3>1, <3>2, FoldIsUnique
  <2>6. h = g
    BY <2>2, <2>4, <2>5
  <2>7. QED
    BY <2>2, <2>6 DEF h
<1> DEFINE F(T) == FoldedSum(f, T)
<1> HIDE DEF F
<1>2. ASSUME NEW T \in SUBSET S
      PROVE  F(T)[T] = F(S)[T]
  <2>1. IsFiniteSet(T)
    BY SubsetsAreFinite
  <2>2. /\ \A U \in SUBSET T : F(T)[U] = FoldStep(f, F(T), U)
        /\ \A U \in SUBSET T : F(S)[U] = FoldStep(f, F(S), U)
    BY <1>1 DEF F
  <2>3. QED
    BY <2>1, <2>2, FoldIsUnique
<1>3. QED
  BY <1>1, <1>2, SumIsFolded DEF F

-----------------------------------------------------------------------------
(* What the sum is *)

\* The sum over nothing is zero.
THEOREM SumEmpty == \A f : SumFunctionOnSet(f, {}) = 0
<1> SUFFICES ASSUME NEW f
             PROVE  SumFunctionOnSet(f, {}) = 0
  OBVIOUS
<1>1. QED
  BY FoldEquation, FS_EmptySet DEF FoldStep

\* A sum of integers is an integer.
THEOREM SumType ==
  ASSUME NEW S, IsFiniteSet(S), NEW f, \A x \in S : f[x] \in Int
  PROVE  SumFunctionOnSet(f, S) \in Int
<1>1. S \in SUBSET S /\ FoldedSum(f, S) \in [SUBSET S -> Int]
  BY FoldEquation
<1>2. QED
  BY <1>1, SumIsFolded

\* A sum is what the fold takes first and the sum of the rest.
LEMMA SumChosen ==
  ASSUME NEW S, IsFiniteSet(S), S # {}, NEW f, \A x \in S : f[x] \in Int
  PROVE  SumFunctionOnSet(f, S)
           = f[Chosen(S)] + SumFunctionOnSet(f, S \ {Chosen(S)})
<1> DEFINE F == FoldedSum(f, S)
           R == S \ {Chosen(S)}
<1>1. S \in SUBSET S /\ R \in SUBSET S
  OBVIOUS
<1>2. F[S] = FoldStep(f, F, S)
  BY <1>1, FoldEquation
<1>3. SumFunctionOnSet(f, S) = F[S] /\ SumFunctionOnSet(f, R) = F[R]
  BY <1>1, FoldEquation
<1>4. QED
  BY <1>2, <1>3 DEF FoldStep

\* Any element may be taken out first: the order of the fold does not matter.
THEOREM SumRemove ==
  ASSUME NEW S, IsFiniteSet(S), NEW f, \A x \in S : f[x] \in Int, NEW y \in S
  PROVE  SumFunctionOnSet(f, S) = f[y] + SumFunctionOnSet(f, S \ {y})
<1> DEFINE Sum(T) == SumFunctionOnSet(f, T)
           C == {T \in SUBSET S : \E x \in T : Sum(T) # f[x] + Sum(T \ {x})}
<1> HIDE DEF Sum
<1> SUFFICES ASSUME C # {}
             PROVE  FALSE
  BY DEF Sum
<1>1. PICK T \in C : \A U \in C : Cardinality(T) <= Cardinality(U)
  BY SubsetsAreFinite, SmallestSet
<1>2. PICK x \in T : Sum(T) # f[x] + Sum(T \ {x})
  OBVIOUS
<1> DEFINE c == Chosen(T)
<1>3. IsFiniteSet(T) /\ T # {} /\ Cardinality(T) \in Nat
  BY SubsetsAreFinite, <1>2
<1>4. c \in T /\ Cardinality(T \ {c}) = Cardinality(T) - 1
  BY <1>3, ChosenIsRemoved
<1>5. Cardinality(T \ {x}) = Cardinality(T) - 1
  BY <1>3, <1>2, FS_RemoveElement
<1>6. Sum(T) = f[c] + Sum(T \ {c})
  BY <1>3, SumChosen DEF Sum
<1>7. x # c
  BY <1>2, <1>6
<1> HIDE DEF c
<1>8. T \ {c} \in SUBSET S /\ T \ {c} \notin C
  BY <1>1, <1>3, <1>4
<1>9. T \ {x} \in SUBSET S /\ T \ {x} \notin C
  BY <1>1, <1>3, <1>5
<1>10. Sum(T \ {c}) = f[x] + Sum((T \ {c}) \ {x})
  BY <1>8, <1>7, <1>2
<1>11. Sum(T \ {x}) = f[c] + Sum((T \ {x}) \ {c})
  BY <1>9, <1>7, <1>4
<1>12. (T \ {c}) \ {x} = (T \ {x}) \ {c}
  OBVIOUS
<1>13. f[x] \in Int /\ f[c] \in Int /\ Sum((T \ {c}) \ {x}) \in Int
  <2>1. (T \ {c}) \ {x} \in SUBSET S
    OBVIOUS
  <2>2. Sum((T \ {c}) \ {x}) \in Int
    BY <2>1, SumType, SubsetsAreFinite DEF Sum
  <2>3. QED
    BY <2>2, <1>2, <1>4
<1>14. QED
  BY <1>2, <1>6, <1>10, <1>11, <1>12, <1>13

\* One more element adds its value.
THEOREM SumAdd ==
  ASSUME NEW S, IsFiniteSet(S), NEW f, \A x \in S : f[x] \in Int,
         NEW y, y \notin S, f[y] \in Int
  PROVE  SumFunctionOnSet(f, S \cup {y}) = SumFunctionOnSet(f, S) + f[y]
<1>1. IsFiniteSet(S \cup {y}) /\ (S \cup {y}) \ {y} = S
  BY FS_AddElement
<1>2. SumFunctionOnSet(f, S \cup {y}) = f[y] + SumFunctionOnSet(f, (S \cup {y}) \ {y})
  BY <1>1, SumRemove
<1>3. SumFunctionOnSet(f, S \cup {y}) = f[y] + SumFunctionOnSet(f, S)
  BY <1>1, <1>2, Zenon
<1>4. SumFunctionOnSet(f, S) \in Int
  BY SumType
<1>5. QED
  BY <1>3, <1>4

\* Only the values inside of S count.
THEOREM SumAgree ==
  ASSUME NEW S, IsFiniteSet(S), NEW f, \A x \in S : f[x] \in Int,
         NEW g, \A x \in S : g[x] = f[x]
  PROVE  SumFunctionOnSet(g, S) = SumFunctionOnSet(f, S)
<1>1. \A x \in S : g[x] \in Int
  OBVIOUS
<1>2. /\ \A T \in SUBSET S : FoldedSum(f, S)[T] = FoldStep(f, FoldedSum(f, S), T)
      /\ \A T \in SUBSET S : FoldedSum(g, S)[T] = FoldStep(g, FoldedSum(g, S), T)
  BY <1>1, FoldEquation
<1>3. FoldedSum(f, S)[S] = FoldedSum(g, S)[S]
  BY <1>2, FoldIsUnique
<1>4. QED
  BY <1>3, SumIsFolded

\* Equal values add up to their number times the value.
THEOREM SumConstant ==
  ASSUME NEW S, IsFiniteSet(S), NEW k \in Int, NEW f, \A x \in S : f[x] = k
  PROVE  SumFunctionOnSet(f, S) = Cardinality(S) * k
<1> DEFINE F == FoldedSum(f, S)
           g == [T \in SUBSET S |-> Cardinality(T) * k]
<1>1. \A T \in SUBSET S : F[T] = FoldStep(f, F, T)
  <2>1. \A x \in S : f[x] \in Int
    OBVIOUS
  <2>2. QED
    BY <2>1, FoldEquation
<1>2. ASSUME NEW T \in SUBSET S
      PROVE  g[T] = FoldStep(f, g, T)
  <2>1. CASE T = {}
    BY <2>1, FS_EmptySet DEF FoldStep
  <2>2. CASE T # {}
    <3> DEFINE c == Chosen(T)
    <3>1. /\ c \in T /\ Cardinality(T) \in Nat
          /\ Cardinality(T \ {c}) = Cardinality(T) - 1
      BY <2>2, SubsetsAreFinite, ChosenIsRemoved
    <3>2. FoldStep(f, g, T) = k + Cardinality(T \ {c}) * k
      BY <2>2, <3>1 DEF FoldStep
    <3> HIDE DEF c
    <3>3. (Cardinality(T) - 1) * k = Cardinality(T) * k - k /\ Cardinality(T) * k \in Int
      BY <3>1
    <3>4. QED
      BY <3>1, <3>2, <3>3
  <2>3. QED
    BY <2>1, <2>2
<1>3. F[S] = g[S]
  <2> HIDE DEF F, g
  <2>1. \A x \in S : f[x] = f[x]
    OBVIOUS
  <2>2. QED
    BY <1>1, <1>2, <2>1, FoldIsUnique
<1>4. g[S] = Cardinality(S) * k
  OBVIOUS
<1>5. QED
  BY <1>3, <1>4, SumIsFolded

\* A sum of zeros is zero.
THEOREM SumZero ==
  ASSUME NEW S, IsFiniteSet(S), NEW f, \A x \in S : f[x] = 0
  PROVE  SumFunctionOnSet(f, S) = 0
<1>1. SumFunctionOnSet(f, S) = Cardinality(S) * 0
  BY SumConstant
<1>2. QED
  BY <1>1, FS_CardinalityType

\* A sum whose value at y alone changes changes by as much.
THEOREM SumChange ==
  ASSUME NEW S, IsFiniteSet(S), NEW f, \A x \in S : f[x] \in Int,
         NEW g, \A x \in S : g[x] \in Int,
         NEW y \in S, \A x \in S \ {y} : g[x] = f[x]
  PROVE  SumFunctionOnSet(g, S) = SumFunctionOnSet(f, S) + g[y] - f[y]
<1>1. IsFiniteSet(S \ {y})
  BY FS_RemoveElement
<1>2. SumFunctionOnSet(g, S \ {y}) = SumFunctionOnSet(f, S \ {y})
  BY <1>1, SumAgree
<1>3. /\ SumFunctionOnSet(f, S) = f[y] + SumFunctionOnSet(f, S \ {y})
      /\ SumFunctionOnSet(g, S) = g[y] + SumFunctionOnSet(g, S \ {y})
  BY SumRemove
<1>4. SumFunctionOnSet(f, S \ {y}) \in Int /\ f[y] \in Int /\ g[y] \in Int
  BY <1>1, SumType
<1>5. QED
  BY <1>2, <1>3, <1>4

\* Larger values have a larger sum.
THEOREM SumMonotone ==
  ASSUME NEW S, IsFiniteSet(S), NEW f, \A x \in S : f[x] \in Int,
         NEW g, \A x \in S : g[x] \in Int /\ f[x] <= g[x]
  PROVE  SumFunctionOnSet(f, S) <= SumFunctionOnSet(g, S)
<1> DEFINE Sum(e, T) == SumFunctionOnSet(e, T)
           C == {T \in SUBSET S : ~ (Sum(f, T) <= Sum(g, T))}
<1> HIDE DEF Sum
<1> SUFFICES ASSUME C # {}
             PROVE  FALSE
  BY DEF Sum
<1>1. PICK T \in C : \A U \in C : Cardinality(T) <= Cardinality(U)
  BY SubsetsAreFinite, SmallestSet
<1>2. T # {}
  <2>1. Sum(f, {}) = 0 /\ Sum(g, {}) = 0
    BY SumEmpty DEF Sum
  <2>2. QED
    BY <2>1
<1>3. IsFiniteSet(T) /\ Cardinality(T) \in Nat
  BY SubsetsAreFinite
<1> DEFINE c == Chosen(T)
<1>4. c \in T /\ IsFiniteSet(T \ {c}) /\ Cardinality(T \ {c}) = Cardinality(T) - 1
  BY <1>2, <1>3, ChosenIsRemoved
<1> HIDE DEF c
<1>5. T \ {c} \notin C
  BY <1>1, <1>3, <1>4
<1>6. Sum(f, T \ {c}) <= Sum(g, T \ {c})
  BY <1>5
<1>7. Sum(f, T) = f[c] + Sum(f, T \ {c}) /\ Sum(g, T) = g[c] + Sum(g, T \ {c})
  BY <1>3, <1>4, SumRemove DEF Sum
<1>8. Sum(f, T \ {c}) \in Int /\ Sum(g, T \ {c}) \in Int
  BY <1>4, SumType DEF Sum
<1>9. f[c] \in Int /\ g[c] \in Int /\ f[c] <= g[c]
  BY <1>4
<1>10. Sum(f, T) <= Sum(g, T)
  BY <1>6, <1>7, <1>8, <1>9
<1>11. QED
  BY <1>10

\* The sum of two functions, value by value, is the sum of their sums.
THEOREM SumPlus ==
  ASSUME NEW S, IsFiniteSet(S), NEW f, \A x \in S : f[x] \in Int,
         NEW g, \A x \in S : g[x] \in Int,
         NEW h, \A x \in S : h[x] = f[x] + g[x]
  PROVE  SumFunctionOnSet(h, S) = SumFunctionOnSet(f, S) + SumFunctionOnSet(g, S)
<1> DEFINE Sum(e, T) == SumFunctionOnSet(e, T)
           C == {T \in SUBSET S : Sum(h, T) # Sum(f, T) + Sum(g, T)}
<1> HIDE DEF Sum
<1> SUFFICES ASSUME C # {}
             PROVE  FALSE
  BY DEF Sum
<1>0. \A x \in S : h[x] \in Int
  OBVIOUS
<1>1. PICK T \in C : \A U \in C : Cardinality(T) <= Cardinality(U)
  BY SubsetsAreFinite, SmallestSet
<1>2. T # {}
  <2>1. Sum(f, {}) = 0 /\ Sum(g, {}) = 0 /\ Sum(h, {}) = 0
    BY SumEmpty DEF Sum
  <2>2. QED
    BY <2>1
<1>3. IsFiniteSet(T) /\ Cardinality(T) \in Nat
  BY SubsetsAreFinite
<1> DEFINE c == Chosen(T)
<1>4. c \in T /\ IsFiniteSet(T \ {c}) /\ Cardinality(T \ {c}) = Cardinality(T) - 1
  BY <1>2, <1>3, ChosenIsRemoved
<1> HIDE DEF c
<1>5. T \ {c} \notin C
  BY <1>1, <1>3, <1>4
<1>6. Sum(h, T \ {c}) = Sum(f, T \ {c}) + Sum(g, T \ {c})
  BY <1>5
<1>7. /\ Sum(f, T) = f[c] + Sum(f, T \ {c})
      /\ Sum(g, T) = g[c] + Sum(g, T \ {c})
  BY <1>3, <1>4, SumRemove DEF Sum
<1>8. Sum(h, T) = h[c] + Sum(h, T \ {c})
  BY <1>0, <1>3, <1>4, SumRemove DEF Sum
<1>9. Sum(f, T \ {c}) \in Int /\ Sum(g, T \ {c}) \in Int
  BY <1>4, SumType DEF Sum
<1>10. f[c] \in Int /\ g[c] \in Int /\ h[c] = f[c] + g[c]
  BY <1>4
<1>11. Sum(h, T) = Sum(f, T) + Sum(g, T)
  BY <1>6, <1>7, <1>8, <1>9, <1>10
<1>12. QED
  BY <1>11
=============================================================================
