------------------------------ MODULE Counting ------------------------------
(***************************************************************************)
(* Facts about finite sets of numbers, induction, and sums over finite     *)
(* sets, which several proofs need.  They come from the cardinality        *)
(* theorems of the library: the rank of an element is an injection into    *)
(* 0 .. n - 1, hence a surjection, so that a finite set of numbers has a   *)
(* least element, from which induction over a set follows.                 *)
(***************************************************************************)
EXTENDS Integers, Sequences, FiniteSetsExt, FiniteSetTheorems, FunctionTheorems, TLAPS

\* In a finite set of n integers there is, for each i < n, an element with
\* exactly i smaller ones: what wm_get looks for.
LEMMA RankExists ==
    ASSUME NEW S \in SUBSET Int, IsFiniteSet(S), NEW i \in Nat, i < Cardinality(S)
    PROVE  \E w \in S : Cardinality({v \in S : v < w}) = i
  <1> DEFINE Below(w) == {v \in S : v < w}
             T == 0 .. (Cardinality(S) - 1)
             rank == [w \in S |-> Cardinality(Below(w))]
  <1>1. Cardinality(S) \in Nat
    BY FS_CardinalityType
  <1>2. \A w \in S : IsFiniteSet(Below(w)) /\ Below(w) \subseteq S /\ w \notin Below(w)
    BY FS_Subset
  <1>3. \A w \in S : Cardinality(Below(w)) \in Nat /\ Cardinality(Below(w)) < Cardinality(S)
    <2> SUFFICES ASSUME NEW w \in S
                 PROVE  Cardinality(Below(w)) \in Nat /\ Cardinality(Below(w)) < Cardinality(S)
      OBVIOUS
    <2>1. Cardinality(Below(w)) \in Nat
      BY <1>2, FS_CardinalityType
    <2>2. Cardinality(Below(w)) <= Cardinality(S) /\ Cardinality(Below(w)) # Cardinality(S)
      <3>1. Below(w) \in SUBSET S /\ Below(w) # S
        BY <1>2
      <3>2. QED
        BY <3>1, FS_Subset
    <2>3. QED
      BY <2>1, <2>2, <1>1
  <1>4. rank \in [S -> T]
    BY <1>3, <1>1
  <1>5. \A v, w \in S : v < w => Cardinality(Below(v)) < Cardinality(Below(w))
    <2> SUFFICES ASSUME NEW v \in S, NEW w \in S, v < w
                 PROVE  Cardinality(Below(v)) < Cardinality(Below(w))
      OBVIOUS
    <2>1. Below(v) \in SUBSET Below(w) /\ Below(v) # Below(w)
      <3>1. v \in Int /\ w \in Int
        OBVIOUS
      <3>2. \A x \in S : x \in Int /\ (x < v => x < w)
        BY <3>1
      <3>3. v \in Below(w) /\ v \notin Below(v)
        BY <3>1
      <3>4. QED
        BY <3>2, <3>3
    <2>2. IsFiniteSet(Below(w))
      BY <1>2
    <2>3. Cardinality(Below(v)) <= Cardinality(Below(w))
          /\ Cardinality(Below(v)) # Cardinality(Below(w))
      BY <2>1, <2>2, FS_Subset
    <2>4. QED
      BY <2>3, <1>3
  <1>6. \A v, w \in S : rank[v] = rank[w] => v = w
    <2> SUFFICES ASSUME NEW v \in S, NEW w \in S, v # w
                 PROVE  rank[v] # rank[w]
      OBVIOUS
    <2>1. v < w \/ w < v
      OBVIOUS
    <2>2. rank[v] = Cardinality(Below(v)) /\ rank[w] = Cardinality(Below(w))
      OBVIOUS
    <2>3. QED
      BY <2>1, <2>2, <1>5, <1>3
  <1>7. rank \in Injection(S, T)
    BY <1>4, <1>6, Fun_IsInj
  <1>8. IsFiniteSet(T) /\ Cardinality(T) = Cardinality(S)
    <2>1. Cardinality(S) - 1 \in Int
      BY <1>1
    <2>2. QED
      BY <2>1, <1>1, FS_Interval
  <1>9. rank \in Surjection(S, T)
    BY <1>7, <1>8, FS_Injection
  <1>10. i \in T
    BY <1>1
  <1>11. \E w \in S : rank[w] = i
    <2> HIDE DEF rank, T
    <2>1. \A t \in T : \E w \in S : rank[w] = t
      BY <1>9, Fun_SurjectionProperties
    <2>2. QED
      BY <2>1, <1>10
  <1>12. QED
    BY <1>11

\* A finite set of integers that is not empty has a least element: the slot
\* wm_create takes, and the base of every induction.
LEMMA LeastExists ==
    ASSUME NEW S \in SUBSET Int, IsFiniteSet(S), S # {}
    PROVE  \E w \in S : \A v \in S : w <= v
  <1>1. Cardinality(S) \in Nat /\ Cardinality(S) # 0
    BY FS_CardinalityType, FS_EmptySet
  <1>2. PICK w \in S : Cardinality({v \in S : v < w}) = 0
    BY <1>1, RankExists
  <1>3. {v \in S : v < w} = {}
    BY <1>2, FS_Subset, FS_EmptySet
  <1>4. QED
    BY <1>3

\* A finite set of integers that is not empty has a greatest element.
LEMMA MaxExists ==
    ASSUME NEW S \in SUBSET Int, IsFiniteSet(S), S # {}
    PROVE  Max(S) \in S /\ \A v \in S : Max(S) >= v
  <1>1. Cardinality(S) \in Nat /\ Cardinality(S) # 0
    BY FS_CardinalityType, FS_EmptySet
  <1>2. PICK w \in S : Cardinality({v \in S : v < w}) = Cardinality(S) - 1
    BY <1>1, RankExists
  <1> DEFINE T == S \ {w}
  <1>3. IsFiniteSet(T) /\ Cardinality(T) = Cardinality(S) - 1
    BY FS_RemoveElement
  <1>4. {v \in S : v < w} \in SUBSET T
    OBVIOUS
  <1>5. {v \in S : v < w} = T
    <2> HIDE DEF T
    <2>1. QED
      BY <1>2, <1>3, <1>4, FS_Subset
  <1>6. w \in S /\ \A v \in S : w >= v
    <2>1. \A v \in S : v = w \/ v < w
      BY <1>5
    <2>2. w \in Int /\ \A v \in S : v \in Int
      OBVIOUS
    <2>3. QED
      BY <2>1, <2>2
  <1>7. QED
    BY <1>6 DEF Max

\* Induction over the natural numbers, on a set of them.
LEMMA SetInduction ==
    ASSUME NEW S, 0 \in S, \A n \in Nat : n \in S => n + 1 \in S
    PROVE  Nat \subseteq S
  <1> SUFFICES ASSUME NEW m \in Nat, m \notin S PROVE FALSE
    OBVIOUS
  <1> DEFINE T == {n \in 0 .. m : n \notin S}
  <1>1. T \in SUBSET Int /\ T # {} /\ T \in SUBSET (0 .. m)
    OBVIOUS
  <1>2. IsFiniteSet(T)
    <2>1. IsFiniteSet(0 .. m)
      BY FS_Interval
    <2>2. QED
      BY <1>1, <2>1, FS_Subset
  <1>3. PICK w \in T : \A v \in T : w <= v
    BY <1>1, <1>2, LeastExists
  <1>4. w \in 1 .. m /\ w \notin S
    OBVIOUS
  <1>5. w - 1 \in 0 .. m /\ ~(w <= w - 1)
    BY <1>4
  <1>6. w - 1 \in S
    BY <1>3, <1>5
  <1>7. QED
    BY <1>4, <1>5, <1>6

\* Induction over an interval that starts at 0.
LEMMA IntervalInduction ==
    ASSUME NEW N \in Nat, NEW G, 0 \in G, \A k \in 0 .. N - 1 : k \in G => k + 1 \in G
    PROVE  0 .. N \subseteq G
  <1> DEFINE T == {k \in Nat : k \in 0 .. N => k \in G}
  <1>1. 0 \in T
    OBVIOUS
  <1>2. ASSUME NEW k \in Nat, k \in T PROVE k + 1 \in T
    <2> SUFFICES ASSUME k + 1 \in 0 .. N PROVE k + 1 \in G
      OBVIOUS
    <2>1. k \in 0 .. N - 1 /\ k \in 0 .. N
      OBVIOUS
    <2>2. QED
      BY <1>2, <2>1
  <1>3. Nat \subseteq T
    <2> HIDE DEF T
    <2>1. QED
      BY <1>1, <1>2, SetInduction
  <1>4. QED
    BY <1>3
----------------------------------------------------------------------------
\* The sum of f over the finite set S.
SumOver(f, S) == MapThenSumSet(LAMBDA x : f[x], S)

Pick(s) == CHOOSE x \in s : TRUE
\* The equation of MapThenFoldSet's function.
Sums(f, D, g) == g = [s \in D |-> IF s = {} THEN 0 ELSE f[Pick(s)] + g[s \ {Pick(s)}]]

\* SumOver is a value of the function that MapThenFoldSet chooses.
LEMMA SumDef ==
    ASSUME NEW f, NEW S
    PROVE  SumOver(f, S) = (CHOOSE g : Sums(f, SUBSET S, g))[S]
  BY DEF SumOver, MapThenSumSet, MapThenFoldSet, Sums, Pick

\* Pick returns an element.
LEMMA PickIn == \A s : s # {} => Pick(s) \in s
  BY DEF Pick

\* A subset without one of its elements has one element less.
LEMMA Smaller ==
    ASSUME NEW S, IsFiniteSet(S), NEW s \in SUBSET S, NEW x \in s
    PROVE  /\ s \ {x} \in SUBSET S
           /\ Cardinality(s) \in Nat /\ Cardinality(s) > 0
           /\ Cardinality(s \ {x}) = Cardinality(s) - 1
  <1>1. IsFiniteSet(s)
    BY FS_Subset
  <1>2. Cardinality(s) \in Nat /\ Cardinality(s) # 0
    BY <1>1, FS_CardinalityType, FS_EmptySet
  <1>3. Cardinality(s \ {x}) = Cardinality(s) - 1
    BY <1>1, FS_RemoveElement
  <1>4. QED
    BY <1>2, <1>3

\* A function with that equation exists, by induction on the size of the
\* subsets it is defined on.
LEMMA SumsExist ==
    ASSUME NEW f, NEW S, IsFiniteSet(S)
    PROVE  \E g : Sums(f, SUBSET S, g)
  <1> DEFINE Small(n) == {s \in SUBSET S : Cardinality(s) <= n}
             Done == {n \in Nat : \E g : Sums(f, Small(n), g)}
  <1>1. 0 \in Done
    <2>1. Small(0) = {{}}
      <3>1. \A s \in SUBSET S : IsFiniteSet(s) /\ Cardinality(s) \in Nat
        BY FS_Subset, FS_CardinalityType
      <3>2. \A s \in SUBSET S : Cardinality(s) <= 0 <=> s = {}
        BY <3>1, FS_EmptySet
      <3>3. QED
        BY <3>2
    <2>2. Sums(f, {{}}, [s \in {{}} |-> 0])
      BY DEF Sums
    <2>3. QED
      BY <2>1, <2>2
  <1>2. ASSUME NEW n \in Nat, n \in Done
        PROVE  n + 1 \in Done
    <2>1. PICK g : Sums(f, Small(n), g)
      BY <1>2
    <2> DEFINE h == [s \in Small(n + 1) |-> IF s = {} THEN 0
                                            ELSE f[Pick(s)] + g[s \ {Pick(s)}]]
    <2>2. \A s \in Small(n + 1) : s # {} => s \ {Pick(s)} \in Small(n)
      <3> SUFFICES ASSUME NEW s \in Small(n + 1), s # {} PROVE s \ {Pick(s)} \in Small(n)
        OBVIOUS
      <3>1. Pick(s) \in s
        BY PickIn
      <3>2. /\ s \ {Pick(s)} \in SUBSET S
            /\ Cardinality(s) \in Nat
            /\ Cardinality(s \ {Pick(s)}) = Cardinality(s) - 1
        BY <3>1, Smaller
      <3>3. QED
        BY <3>2
    <2>3. \A s \in Small(n) : s \in Small(n + 1) /\ h[s] = g[s]
      <3> SUFFICES ASSUME NEW s \in Small(n) PROVE s \in Small(n + 1) /\ h[s] = g[s]
        OBVIOUS
      <3>1. s \in Small(n + 1)
        <4>1. Cardinality(s) \in Nat
          BY FS_Subset, FS_CardinalityType
        <4>2. QED
          BY <4>1
      <3>2. h[s] = IF s = {} THEN 0 ELSE f[Pick(s)] + g[s \ {Pick(s)}]
        BY <3>1
      <3>3. g[s] = IF s = {} THEN 0 ELSE f[Pick(s)] + g[s \ {Pick(s)}]
        <4> HIDE DEF Small
        <4>1. QED
          BY <2>1 DEF Sums
      <3>4. QED
        BY <3>1, <3>2, <3>3
    <2>4. Sums(f, Small(n + 1), h)
      <3>1. \A s \in Small(n + 1) : s # {} => h[s \ {Pick(s)}] = g[s \ {Pick(s)}]
        BY <2>2, <2>3
      <3> HIDE DEF Small
      <3>2. QED
        BY <3>1 DEF Sums
    <2> HIDE DEF h, Small
    <2>5. QED
      BY <2>4
  <1>3. Cardinality(S) \in Done
    <2>1. Nat \subseteq Done
      <3> HIDE DEF Done
      <3>1. QED
        BY <1>1, <1>2, SetInduction
    <2>2. QED
      BY <2>1, FS_CardinalityType
  <1>4. Small(Cardinality(S)) = SUBSET S
    BY FS_Subset
  <1>5. QED
    BY <1>3, <1>4

\* f and e have the same values on S.
Alike(f, e, S) == \A x \in S : f[x] = e[x]

\* It depends on nothing but the values of f.
LEMMA SumsAgree ==
    ASSUME NEW T, NEW S \in SUBSET T, IsFiniteSet(S),
           NEW f, NEW e, Alike(f, e, S),
           NEW g, Sums(f, SUBSET S, g), NEW h, Sums(e, SUBSET T, h)
    PROVE  g[S] = h[S]
  <1> DEFINE Done == {n \in Nat : \A s \in SUBSET S : Cardinality(s) = n => g[s] = h[s]}
  <1>1. \A s \in SUBSET S :
           /\ g[s] = IF s = {} THEN 0 ELSE f[Pick(s)] + g[s \ {Pick(s)}]
           /\ h[s] = IF s = {} THEN 0 ELSE e[Pick(s)] + h[s \ {Pick(s)}]
    <2> TAKE s \in SUBSET S
    <2>1. s \in SUBSET T
      OBVIOUS
    <2>2. QED
      BY <2>1 DEF Sums
  <1>2. 0 \in Done
    <2> SUFFICES ASSUME NEW s \in SUBSET S, Cardinality(s) = 0 PROVE g[s] = h[s]
      OBVIOUS
    <2>1. s = {}
      BY FS_Subset, FS_EmptySet
    <2>2. QED
      BY <2>1, <1>1
  <1>3. ASSUME NEW n \in Nat, n \in Done
        PROVE  n + 1 \in Done
    <2> SUFFICES ASSUME NEW s \in SUBSET S, Cardinality(s) = n + 1 PROVE g[s] = h[s]
      OBVIOUS
    <2>1. s # {}
      <3>1. Cardinality({}) = 0 /\ n + 1 # 0
        BY FS_EmptySet
      <3>2. QED
        BY <3>1
    <2>2. Pick(s) \in s
      BY <2>1, PickIn
    <2>3. s \ {Pick(s)} \in SUBSET S /\ Cardinality(s \ {Pick(s)}) = n
      <3>1. /\ s \ {Pick(s)} \in SUBSET S /\ Cardinality(s) \in Nat
            /\ Cardinality(s \ {Pick(s)}) = Cardinality(s) - 1
        BY <2>2, Smaller
      <3>2. QED
        BY <3>1
    <2>4. g[s \ {Pick(s)}] = h[s \ {Pick(s)}]
      BY <1>3, <2>3
    <2>5. QED
      BY <1>1, <2>1, <2>2, <2>4 DEF Alike
  <1>4. Nat \subseteq Done
    <2> HIDE DEF Done
    <2>1. QED
      BY <1>2, <1>3, SetInduction
  <1>5. QED
    BY <1>4, FS_CardinalityType

\* Its values are integers if those of f are.
LEMMA SumsInt ==
    ASSUME NEW S, IsFiniteSet(S), NEW f, \A x \in S : f[x] \in Int,
           NEW g, Sums(f, SUBSET S, g)
    PROVE  \A s \in SUBSET S : g[s] \in Int
  <1> DEFINE Done == {n \in Nat : \A s \in SUBSET S : Cardinality(s) = n => g[s] \in Int}
  <1>1. \A s \in SUBSET S :
           g[s] = IF s = {} THEN 0 ELSE f[Pick(s)] + g[s \ {Pick(s)}]
    BY DEF Sums
  <1>2. 0 \in Done
    <2> SUFFICES ASSUME NEW s \in SUBSET S, Cardinality(s) = 0 PROVE g[s] \in Int
      OBVIOUS
    <2>1. s = {}
      BY FS_Subset, FS_EmptySet
    <2>2. g[s] = 0
      BY <2>1, <1>1
    <2>3. QED
      BY <2>2
  <1>3. ASSUME NEW n \in Nat, n \in Done
        PROVE  n + 1 \in Done
    <2> SUFFICES ASSUME NEW s \in SUBSET S, Cardinality(s) = n + 1 PROVE g[s] \in Int
      OBVIOUS
    <2>1. s # {}
      <3>1. Cardinality({}) = 0 /\ n + 1 # 0
        BY FS_EmptySet
      <3>2. QED
        BY <3>1
    <2>2. Pick(s) \in s
      BY <2>1, PickIn
    <2>3. s \ {Pick(s)} \in SUBSET S /\ Cardinality(s \ {Pick(s)}) = n
      <3>1. /\ s \ {Pick(s)} \in SUBSET S /\ Cardinality(s) \in Nat
            /\ Cardinality(s \ {Pick(s)}) = Cardinality(s) - 1
        BY <2>2, Smaller
      <3>2. QED
        BY <3>1
    <2>4. g[s \ {Pick(s)}] \in Int /\ f[Pick(s)] \in Int
      BY <1>3, <2>2, <2>3
    <2>5. g[s] = f[Pick(s)] + g[s \ {Pick(s)}]
      BY <1>1, <2>1
    <2>6. QED
      BY <2>4, <2>5
  <1>4. Nat \subseteq Done
    <2> HIDE DEF Done
    <2>1. QED
      BY <1>2, <1>3, SetInduction
  <1>5. \A s \in SUBSET S : Cardinality(s) \in Nat
    BY FS_Subset, FS_CardinalityType
  <1>6. QED
    BY <1>4, <1>5

\* The order in which the elements are picked does not matter.
LEMMA SumsAnyOrder ==
    ASSUME NEW S, IsFiniteSet(S), NEW f, \A x \in S : f[x] \in Int,
           NEW g, Sums(f, SUBSET S, g)
    PROVE  \A s \in SUBSET S : \A y \in s : g[s] = f[y] + g[s \ {y}]
  <1> DEFINE Done == {n \in Nat : \A s \in SUBSET S : Cardinality(s) = n =>
                                      \A x \in s : g[s] = f[x] + g[s \ {x}]}
  <1>1. \A s \in SUBSET S :
           g[s] = IF s = {} THEN 0 ELSE f[Pick(s)] + g[s \ {Pick(s)}]
    BY DEF Sums
  <1>2. 0 \in Done
    <2>1. \A s \in SUBSET S : Cardinality(s) = 0 => s = {}
      BY FS_Subset, FS_EmptySet
    <2>2. QED
      BY <2>1
  <1>3. ASSUME NEW n \in Nat, n \in Done
        PROVE  n + 1 \in Done
    <2> SUFFICES ASSUME NEW s \in SUBSET S, Cardinality(s) = n + 1, NEW x \in s
                 PROVE  g[s] = f[x] + g[s \ {x}]
      OBVIOUS
    <2> DEFINE p == Pick(s)
               r == (s \ {x}) \ {p}
    <2>1. p \in s /\ g[s] = f[p] + g[s \ {p}]
      BY <1>1, PickIn
    <2> HIDE DEF p
    <2>2. \A z \in s : s \ {z} \in SUBSET S /\ Cardinality(s \ {z}) = n
      <3> TAKE z \in s
      <3>1. /\ s \ {z} \in SUBSET S /\ Cardinality(s) \in Nat
            /\ Cardinality(s \ {z}) = Cardinality(s) - 1
        BY Smaller
      <3>2. QED
        BY <3>1
    <2>3. CASE x = p
      BY <2>1, <2>3
    <2>4. CASE x # p
      <3>1. r = (s \ {p}) \ {x} /\ x \in s \ {p} /\ p \in s \ {x}
        BY <2>1, <2>4
      <3>2. g[s \ {p}] = f[x] + g[r]
        BY <1>3, <2>1, <2>2, <3>1
      <3>3. g[s \ {x}] = f[p] + g[r]
        BY <1>3, <2>2, <3>1
      <3>4. r \in SUBSET S /\ f[x] \in Int /\ f[p] \in Int
        BY <2>1
      <3> HIDE DEF r
      <3>5. g[r] \in Int
        BY <3>4, SumsInt
      <3>6. QED
        BY <2>1, <3>2, <3>3, <3>4, <3>5
    <2>5. QED
      BY <2>3, <2>4
  <1>4. Nat \subseteq Done
    <2> HIDE DEF Done
    <2>1. QED
      BY <1>2, <1>3, SetInduction
  <1>5. \A s \in SUBSET S : Cardinality(s) \in Nat
    BY FS_Subset, FS_CardinalityType
  <1>6. QED
    BY <1>4, <1>5

\* The sum depends on the values summed only.
LEMMA SumSame ==
    ASSUME NEW S, IsFiniteSet(S), NEW f, NEW e, \A x \in S : f[x] = e[x]
    PROVE  SumOver(f, S) = SumOver(e, S)
  <1> DEFINE g == CHOOSE k : Sums(f, SUBSET S, k)
             h == CHOOSE k : Sums(e, SUBSET S, k)
  <1>1. Sums(f, SUBSET S, g) /\ Sums(e, SUBSET S, h)
    BY SumsExist
  <1>2. SumOver(f, S) = g[S] /\ SumOver(e, S) = h[S]
    BY SumDef
  <1> HIDE DEF g, h
  <1>3. g[S] = h[S]
    <2>1. S \in SUBSET S /\ Alike(f, e, S)
      BY DEF Alike
    <2>2. QED
      BY <1>1, <2>1, SumsAgree
  <1>4. QED
    BY <1>2, <1>3

\* The empty sum.
LEMMA SumEmpty == ASSUME NEW f PROVE SumOver(f, {}) = 0
  <1> DEFINE g == CHOOSE k : Sums(f, SUBSET {}, k)
  <1>1. Sums(f, SUBSET {}, g)
    BY SumsExist, FS_EmptySet
  <1>2. SumOver(f, {}) = g[{}]
    BY SumDef
  <1> HIDE DEF g
  <1>3. QED
    BY <1>1, <1>2 DEF Sums

\* One more element adds its value.
LEMMA SumAdd ==
    ASSUME NEW S, IsFiniteSet(S), NEW y, y \notin S,
           NEW f, \A x \in S \cup {y} : f[x] \in Int
    PROVE  /\ SumOver(f, S) \in Int
           /\ SumOver(f, S \cup {y}) = SumOver(f, S) + f[y]
  <1> DEFINE T == S \cup {y}
             g == CHOOSE k : Sums(f, SUBSET S, k)
             h == CHOOSE k : Sums(f, SUBSET T, k)
  <1>1. IsFiniteSet(T)
    BY FS_AddElement
  <1>2. Sums(f, SUBSET S, g) /\ Sums(f, SUBSET T, h)
    BY <1>1, SumsExist
  <1>3. SumOver(f, S) = g[S] /\ SumOver(f, T) = h[T]
    BY SumDef
  <1> HIDE DEF g, h
  <1>4. g[S] = h[S]
    <2>1. S \in SUBSET T /\ Alike(f, f, S)
      BY DEF Alike
    <2> HIDE DEF T
    <2>2. QED
      BY <1>2, <2>1, SumsAgree
  <1>5. h[T] = f[y] + h[T \ {y}]
    <2>1. T \in SUBSET T /\ y \in T /\ \A x \in T : f[x] \in Int
      OBVIOUS
    <2> HIDE DEF T
    <2>2. QED
      BY <1>1, <1>2, <2>1, SumsAnyOrder
  <1>6. h[T \ {y}] = h[S]
    <2>1. T \ {y} = S
      OBVIOUS
    <2> HIDE DEF T
    <2>2. QED
      BY <2>1, Zenon
  <1>7. h[S] \in Int /\ f[y] \in Int
    <2>1. S \in SUBSET T
      OBVIOUS
    <2>2. \A x \in T : f[x] \in Int
      OBVIOUS
    <2>3. QED
      BY <1>1, <1>2, <2>1, <2>2, SumsInt
  <1> HIDE DEF T
  <1>8. SumOver(f, S) \in Int /\ SumOver(f, T) = SumOver(f, S) + f[y]
    BY <1>3, <1>4, <1>5, <1>6, <1>7
  <1>9. QED
    BY <1>8 DEF T
----------------------------------------------------------------------------
\* Induction over the subsets of a finite set of numbers, by their greatest
\* element: the order in which FoldLeft works through a sequence.
LEMMA SubsetInduction ==
    ASSUME NEW I \in SUBSET Int, IsFiniteSet(I), NEW G, {} \in G,
           \A s \in SUBSET I : s # {} /\ s \ {Max(s)} \in G => s \in G
    PROVE  SUBSET I \subseteq G
  <1> DEFINE Done == {n \in Nat : \A s \in SUBSET I : Cardinality(s) = n => s \in G}
  <1>1. 0 \in Done
    <2>1. \A s \in SUBSET I : Cardinality(s) = 0 => s = {}
      BY FS_Subset, FS_EmptySet
    <2>2. QED
      BY <2>1
  <1>2. ASSUME NEW n \in Nat, n \in Done
        PROVE  n + 1 \in Done
    <2> SUFFICES ASSUME NEW s \in SUBSET I, Cardinality(s) = n + 1 PROVE s \in G
      OBVIOUS
    <2>1. s # {}
      <3>1. Cardinality({}) = 0 /\ n + 1 # 0
        BY FS_EmptySet
      <3>2. QED
        BY <3>1
    <2>2. Max(s) \in s
      <3>1. s \in SUBSET Int /\ IsFiniteSet(s)
        BY FS_Subset
      <3>2. QED
        BY <2>1, <3>1, MaxExists
    <2>3. s \ {Max(s)} \in SUBSET I /\ Cardinality(s \ {Max(s)}) = n
      <3>1. /\ s \ {Max(s)} \in SUBSET I /\ Cardinality(s) \in Nat
            /\ Cardinality(s \ {Max(s)}) = Cardinality(s) - 1
        BY <2>2, Smaller
      <3>2. QED
        BY <3>1
    <2>4. QED
      BY <1>2, <2>1, <2>3
  <1>3. Nat \subseteq Done
    <2> HIDE DEF Done
    <2>1. QED
      BY <1>1, <1>2, SetInduction
  <1>4. \A s \in SUBSET I : Cardinality(s) \in Nat
    BY FS_Subset, FS_CardinalityType
  <1>5. QED
    BY <1>3, <1>4

\* The equation of FoldLeft's function, for a step that is a function F.
FoldsBy(F, base, D, g) ==
    g = [s \in D |-> IF s = {} THEN base ELSE F[<<Max(s), g[s \ {Max(s)}]>>]]

\* A function with that equation exists, by induction on the size of the
\* subsets, and has its values where F has them.
LEMMA FoldExists ==
    ASSUME NEW I \in SUBSET Int, IsFiniteSet(I), NEW V, NEW base \in V,
           NEW F, \A i \in I, v \in V : F[<<i, v>>] \in V
    PROVE  \E g \in [SUBSET I -> V] : FoldsBy(F, base, SUBSET I, g)
  <1> DEFINE Small(n) == {s \in SUBSET I : Cardinality(s) <= n}
             Done == {n \in Nat : \E g \in [Small(n) -> V] : FoldsBy(F, base, Small(n), g)}
  <1>1. \A s \in SUBSET I : IsFiniteSet(s) /\ Cardinality(s) \in Nat
    BY FS_Subset, FS_CardinalityType
  <1>2. \A s \in SUBSET I : s # {} =>
            /\ Max(s) \in I
            /\ s \ {Max(s)} \in SUBSET I
            /\ Cardinality(s \ {Max(s)}) = Cardinality(s) - 1
    <2> SUFFICES ASSUME NEW s \in SUBSET I, s # {}
                 PROVE  /\ Max(s) \in I
                        /\ s \ {Max(s)} \in SUBSET I
                        /\ Cardinality(s \ {Max(s)}) = Cardinality(s) - 1
      OBVIOUS
    <2>1. Max(s) \in s
      <3>1. s \in SUBSET Int /\ IsFiniteSet(s)
        BY <1>1
      <3>2. QED
        BY <3>1, MaxExists
    <2>2. QED
      BY <2>1, Smaller
  <1>3. 0 \in Done
    <2>1. Small(0) = {{}}
      <3>1. \A s \in SUBSET I : Cardinality(s) <= 0 <=> s = {}
        <4> TAKE s \in SUBSET I
        <4>1. IsFiniteSet(s) /\ Cardinality(s) \in Nat
          BY <1>1
        <4>2. Cardinality(s) = 0 <=> s = {}
          BY <4>1, FS_EmptySet
        <4>3. QED
          BY <4>1, <4>2
      <3>2. QED
        BY <3>1
    <2>2. FoldsBy(F, base, {{}}, [s \in {{}} |-> base])
      BY DEF FoldsBy
    <2>3. [s \in {{}} |-> base] \in [{{}} -> V]
      OBVIOUS
    <2>4. QED
      BY <2>1, <2>2, <2>3
  <1>4. ASSUME NEW n \in Nat, n \in Done
        PROVE  n + 1 \in Done
    <2>1. PICK g \in [Small(n) -> V] : FoldsBy(F, base, Small(n), g)
      BY <1>4
    <2> DEFINE h == [s \in Small(n + 1) |->
                        IF s = {} THEN base ELSE F[<<Max(s), g[s \ {Max(s)}]>>]]
    <2>2. \A s \in Small(n + 1) : s # {} => s \ {Max(s)} \in Small(n)
      <3> SUFFICES ASSUME NEW s \in Small(n + 1), s # {} PROVE s \ {Max(s)} \in Small(n)
        OBVIOUS
      <3>1. Cardinality(s) \in Nat /\ Cardinality(s) <= n + 1
        BY <1>1
      <3>2. s \ {Max(s)} \in SUBSET I /\ Cardinality(s \ {Max(s)}) = Cardinality(s) - 1
        BY <1>2
      <3>3. QED
        BY <3>1, <3>2
    <2>3. \A s \in Small(n) : s \in Small(n + 1) /\ h[s] = g[s]
      <3> SUFFICES ASSUME NEW s \in Small(n) PROVE s \in Small(n + 1) /\ h[s] = g[s]
        OBVIOUS
      <3>1. s \in Small(n + 1)
        BY <1>1
      <3>2. h[s] = IF s = {} THEN base ELSE F[<<Max(s), g[s \ {Max(s)}]>>]
        BY <3>1
      <3>3. g[s] = IF s = {} THEN base ELSE F[<<Max(s), g[s \ {Max(s)}]>>]
        <4> HIDE DEF Small
        <4>1. QED
          BY <2>1 DEF FoldsBy
      <3>4. QED
        BY <3>1, <3>2, <3>3
    <2>4. FoldsBy(F, base, Small(n + 1), h)
      <3>1. \A s \in Small(n + 1) : s # {} => h[s \ {Max(s)}] = g[s \ {Max(s)}]
        BY <2>2, <2>3
      <3> HIDE DEF Small
      <3>2. QED
        BY <3>1 DEF FoldsBy
    <2>5. h \in [Small(n + 1) -> V]
      <3>1. \A s \in Small(n + 1) : s # {} => Max(s) \in I /\ g[s \ {Max(s)}] \in V
        BY <1>2, <2>1, <2>2
      <3> HIDE DEF Small
      <3>2. QED
        BY <3>1
    <2> HIDE DEF h, Small
    <2>6. QED
      BY <2>4, <2>5
  <1>5. Cardinality(I) \in Done
    <2>1. Nat \subseteq Done
      <3> HIDE DEF Done
      <3>1. QED
        BY <1>3, <1>4, SetInduction
    <2>2. QED
      BY <2>1, FS_CardinalityType
  <1>6. Small(Cardinality(I)) = SUBSET I
    BY FS_Subset
  <1>7. QED
    BY <1>5, <1>6

\* The equation of a function on 0 .. N that is defined step by step.
Iterates(F, base, N, g) == g = [k \in 0 .. N |-> IF k = 0 THEN base ELSE F[g[k - 1]]]

\* A function with that equation exists.
LEMMA IterationExists ==
    ASSUME NEW N \in Nat, NEW V, NEW base \in V, NEW F, \A v \in V : F[v] \in V
    PROVE  \E g \in [0 .. N -> V] : Iterates(F, base, N, g)
  <1> DEFINE Done == {n \in Nat : \E g \in [0 .. n -> V] : Iterates(F, base, n, g)}
  <1>1. 0 \in Done
    <2> DEFINE g == [k \in 0 .. 0 |-> base]
    <2>1. g \in [0 .. 0 -> V] /\ Iterates(F, base, 0, g)
      BY DEF Iterates
    <2> HIDE DEF g
    <2>2. QED
      BY <2>1
  <1>2. ASSUME NEW n \in Nat, n \in Done
        PROVE  n + 1 \in Done
    <2>1. PICK g \in [0 .. n -> V] : Iterates(F, base, n, g)
      BY <1>2
    <2> DEFINE h == [k \in 0 .. n + 1 |-> IF k = 0 THEN base ELSE F[g[k - 1]]]
    <2>2. \A k \in 0 .. n : k \in 0 .. n + 1 /\ h[k] = g[k]
      <3> TAKE k \in 0 .. n
      <3>1. k \in 0 .. n + 1 /\ h[k] = IF k = 0 THEN base ELSE F[g[k - 1]]
        OBVIOUS
      <3>2. g[k] = IF k = 0 THEN base ELSE F[g[k - 1]]
        BY <2>1 DEF Iterates
      <3> HIDE DEF h
      <3>3. QED
        BY <3>1, <3>2
    <2>3. \A k \in 0 .. n + 1 : k # 0 => k - 1 \in 0 .. n
      OBVIOUS
    <2>4. Iterates(F, base, n + 1, h)
      <3>1. \A k \in 0 .. n + 1 : k # 0 => h[k - 1] = g[k - 1]
        BY <2>2, <2>3
      <3>2. QED
        BY <3>1 DEF Iterates
    <2>5. h \in [0 .. n + 1 -> V]
      <3>1. \A k \in 0 .. n + 1 : k # 0 => g[k - 1] \in V
        BY <2>1, <2>3
      <3>2. QED
        BY <3>1
    <2> HIDE DEF h
    <2>6. n + 1 \in Nat
      OBVIOUS
    <2>7. QED
      BY <2>4, <2>5, <2>6
  <1>3. Nat \subseteq Done
    <2> HIDE DEF Done
    <2>1. QED
      BY <1>1, <1>2, SetInduction
  <1>4. QED
    BY <1>3
----------------------------------------------------------------------------
\* The indices of a sequence are a finite set of numbers.
LEMMA Indices ==
    ASSUME NEW S, NEW parts \in Seq(S)
    PROVE  /\ DOMAIN parts = 1 .. Len(parts) /\ Len(parts) \in Nat
           /\ DOMAIN parts \in SUBSET Int /\ IsFiniteSet(DOMAIN parts)
           /\ \A s \in SUBSET DOMAIN parts : s # {} => Max(s) \in s
           /\ \A i \in DOMAIN parts : parts[i] \in S
<1>1. /\ DOMAIN parts = 1 .. Len(parts) /\ Len(parts) \in Nat
      /\ DOMAIN parts \in SUBSET Int
      /\ \A i \in DOMAIN parts : parts[i] \in S
  OBVIOUS
<1>2. IsFiniteSet(DOMAIN parts)
  BY <1>1, FS_Interval
<1>3. ASSUME NEW s \in SUBSET DOMAIN parts, s # {} PROVE Max(s) \in s
  <2>1. s \in SUBSET Int /\ IsFiniteSet(s)
    BY <1>1, <1>2, FS_Subset
  <2> QED
    BY <1>3, <2>1, MaxExists
<1> QED
  BY <1>1, <1>2, <1>3
=============================================================================
