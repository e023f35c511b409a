--------------------------- MODULE WindowsProofs ---------------------------
(***************************************************************************)
(* Proofs about Windows, for every finite set of metrics with any values   *)
(* and event times, in any order of arrival.  The first half is about      *)
(* totals and extrema of finite sets, by induction over their subsets.     *)
(***************************************************************************)
EXTENDS Windows, FiniteSetTheorems, WellFoundedInduction, TLAPS

-----------------------------------------------------------------------------
(* Induction over the subsets of a finite set, and over the naturals: a    *)
(* set of counterexamples that is not empty has a least member.            *)

LEMMA MinimalSubset ==
  ASSUME NEW S, IsFiniteSet(S), NEW Bad \in SUBSET (SUBSET S), Bad # {}
  PROVE  \E T \in Bad : \A U \in Bad : U \subseteq T => U = T
<1>1. IsWellFoundedOn(StrictSubsetOrdering(S), FiniteSubsetsOf(S))
  BY FS_StrictSubsetOrderingWellFounded
<1>2. FiniteSubsetsOf(S) = SUBSET S
  BY FS_FiniteSubsetsOfFinite
<1>3. IsWellFoundedOn(StrictSubsetOrdering(S), SUBSET S)
  BY <1>1, <1>2
<1>4. PICK T \in Bad : \A U \in Bad : <<U, T>> \notin StrictSubsetOrdering(S)
  BY <1>3, WFMin
<1>5. ASSUME NEW U \in Bad, U \subseteq T, U # T PROVE FALSE
  BY <1>4, <1>5 DEF StrictSubsetOrdering
<1> QED BY <1>4, <1>5

Smaller == {p \in Nat \X Nat : p[1] < p[2]}

LEMMA LeastNatural ==
  ASSUME NEW S \in SUBSET Nat, S # {}
  PROVE  \E x \in S : \A y \in S : x <= y
<1>1. IsWellFoundedOn(OpToRel(<, Nat), Nat)
  BY NatLessThanWellFounded
<1>2. OpToRel(<, Nat) = Smaller
  BY DEF OpToRel, Smaller
<1>3. IsWellFoundedOn(Smaller, Nat)
  BY <1>1, <1>2
<1>4. PICK x \in S : \A y \in S : <<y, x>> \notin Smaller
  BY <1>3, WFMin
<1>5. ASSUME NEW y \in S PROVE x <= y
  <2>1. x \in Nat /\ y \in Nat /\ <<y, x>> \notin Smaller
    BY <1>4
  <2>2. <<y, x>> \in Nat \X Nat /\ <<y, x>>[1] = y /\ <<y, x>>[2] = x
    BY <2>1
  <2> QED BY <2>1, <2>2 DEF Smaller
<1> QED BY <1>4, <1>5

-----------------------------------------------------------------------------
(* Totals.                                                                 *)

Pick(S) == CHOOSE x \in S : TRUE

Step(h, f, T) == IF T = {} THEN 0 ELSE f[Pick(T)] + h[T \ {Pick(T)}]

(* h sums f up over the subsets of S.                                      *)
IsSum(h, f, S) == \A T \in SUBSET S : h[T] = Step(h, f, T)

IntegerOn(f, S) == \A x \in S : f[x] \in Int

LEMMA Picked ==
  ASSUME NEW T, T # {}
  PROVE  Pick(T) \in T
BY DEF Pick

(* A function that sums up subsets of any size exists: it is built by      *)
(* size.                                                                   *)
LEMMA SumExists ==
  ASSUME NEW S, IsFiniteSet(S), NEW f, IntegerOn(f, S)
  PROVE  \E h \in [SUBSET S -> Int] : IsSum(h, f, S)
<1> DEFINE UpTo(n, h) == \A T \in SUBSET S : Cardinality(T) < n => h[T] = Step(h, f, T)
<1> DEFINE Missing == {n \in Nat : ~ \E h \in [SUBSET S -> Int] : UpTo(n, h)}
<1>0. \A T \in SUBSET S : IsFiniteSet(T) /\ Cardinality(T) \in Nat
  BY FS_Subset, FS_CardinalityType
<1>1. ASSUME Missing # {} PROVE FALSE
  <2>1. PICK n \in Missing : \A k \in Missing : n <= k
    <3>1. Missing \in SUBSET Nat
      OBVIOUS
    <3> HIDE DEF Missing
    <3> QED BY <1>1, <3>1, LeastNatural
  <2>2. n # 0
    <3>1. SUFFICES ASSUME n = 0 PROVE FALSE
      OBVIOUS
    <3>2. [T \in SUBSET S |-> 0] \in [SUBSET S -> Int] /\ UpTo(0, [T \in SUBSET S |-> 0])
      BY <1>0
    <3> QED BY <2>1, <3>1, <3>2
  <2>3. n - 1 \in Nat /\ n - 1 \notin Missing
    <3>1. n \in Nat
      BY <2>1
    <3> HIDE DEF Missing
    <3> QED BY <2>1, <2>2, <3>1
  <2>4. PICK h \in [SUBSET S -> Int] : UpTo(n - 1, h)
    BY <2>3
  <2> DEFINE g == [T \in SUBSET S |-> Step(h, f, T)]
  <2>5. g \in [SUBSET S -> Int]
    <3> SUFFICES ASSUME NEW T \in SUBSET S PROVE Step(h, f, T) \in Int
      OBVIOUS
    <3> CASE T = {}
      BY DEF Step
    <3> CASE T # {}
      <4>1. Pick(T) \in S /\ T \ {Pick(T)} \in SUBSET S
        BY Picked
      <4> QED BY <4>1 DEF Step, IntegerOn
    <3> QED OBVIOUS
  <2>6. UpTo(n, g)
    <3> SUFFICES ASSUME NEW T \in SUBSET S, Cardinality(T) < n
                 PROVE  g[T] = Step(g, f, T)
      OBVIOUS
    <3> CASE T = {}
      BY DEF Step
    <3> CASE T # {}
      <4> DEFINE U == T \ {Pick(T)}
      <4>1. Pick(T) \in T /\ U \in SUBSET S
        BY Picked
      <4>2. Cardinality(U) = Cardinality(T) - 1
        BY <1>0, <4>1, FS_RemoveElement
      <4>3. Cardinality(U) < n - 1
        BY <1>0, <4>2, <2>1
      <4>4. h[U] = Step(h, f, U)
        BY <2>4, <4>1, <4>3
      <4>5. g[U] = h[U]
        BY <4>1, <4>4
      <4> QED BY <4>5 DEF Step
    <3> QED OBVIOUS
  <2> QED BY <2>1, <2>5, <2>6
<1> DEFINE N == Cardinality(S) + 1
<1>2. N \in Nat
  BY <1>0
<1>3. PICK h \in [SUBSET S -> Int] : UpTo(N, h)
  BY <1>1, <1>2
<1>4. \A T \in SUBSET S : Cardinality(T) < N
  BY <1>0, FS_Subset
<1> QED BY <1>3, <1>4 DEF IsSum

(* Two such functions agree where both are defined.                        *)
LEMMA SumUnique ==
  ASSUME NEW S, IsFiniteSet(S), NEW f, NEW e, \A x \in S : f[x] = e[x],
         NEW h, NEW g, IsSum(h, f, S), IsSum(g, e, S)
  PROVE  \A T \in SUBSET S : h[T] = g[T]
<1> DEFINE Bad == {T \in SUBSET S : h[T] # g[T]}
<1>1. ASSUME Bad # {} PROVE FALSE
  <2>1. PICK T \in Bad : \A U \in Bad : U \subseteq T => U = T
    <3>1. Bad \in SUBSET (SUBSET S)
      OBVIOUS
    <3> HIDE DEF Bad
    <3> QED BY <1>1, <3>1, MinimalSubset
  <2>2. T # {}
    BY <2>1 DEF IsSum, Step
  <2>3. Pick(T) \in T
    BY <2>2, Picked
  <2>4. T \ {Pick(T)} \in SUBSET S /\ T \ {Pick(T)} \notin Bad
    BY <2>1, <2>3
  <2>5. h[T \ {Pick(T)}] = g[T \ {Pick(T)}]
    BY <2>4
  <2>6. h[T] = Step(h, f, T) /\ g[T] = Step(g, e, T)
    BY DEF IsSum
  <2>7. f[Pick(T)] = e[Pick(T)]
    BY <2>3
  <2> QED BY <2>1, <2>2, <2>5, <2>6, <2>7 DEF Step
<1> QED BY <1>1
(* Iter is the function behind the fold.                                   *)
Iter(f, S) == CHOOSE h : h = [T \in SUBSET S |-> Step(h, f, T)]

LEMMA IterSums ==
  ASSUME NEW S, IsFiniteSet(S), NEW f, IntegerOn(f, S)
  PROVE  /\ Iter(f, S) \in [SUBSET S -> Int] /\ IsSum(Iter(f, S), f, S)
         /\ Total(f, S) = Iter(f, S)[S]
<1>1. PICK h \in [SUBSET S -> Int] : IsSum(h, f, S)
  BY SumExists
<1>2. h = [T \in SUBSET S |-> Step(h, f, T)]
  BY <1>1 DEF IsSum
<1>3. Iter(f, S) = [T \in SUBSET S |-> Step(Iter(f, S), f, T)]
  BY <1>2 DEF Iter
<1>4. IsSum(Iter(f, S), f, S)
  BY <1>3 DEF IsSum
<1>5. \A T \in SUBSET S : Iter(f, S)[T] = h[T]
  BY <1>1, <1>4, SumUnique
<1>6. Iter(f, S) = [T \in SUBSET S |-> Iter(f, S)[T]]
  BY <1>3, <1>4 DEF IsSum
<1>7. Iter(f, S) \in [SUBSET S -> Int]
  BY <1>1, <1>5, <1>6
<1>8. Total(f, S) = Iter(f, S)[S]
  BY DEF Total, MapThenSumSet, MapThenFoldSet, Iter, Step, Pick
<1> QED BY <1>4, <1>7, <1>8

(* The total of a part is what the function of the whole says of it.       *)
LEMMA TotalOfPart ==
  ASSUME NEW S, IsFiniteSet(S), NEW f, IntegerOn(f, S), NEW T \in SUBSET S
  PROVE  Total(f, T) = Iter(f, S)[T] /\ Total(f, T) \in Int
<1>1. IsFiniteSet(T) /\ IntegerOn(f, T)
  BY FS_Subset DEF IntegerOn
<1>2. IsSum(Iter(f, S), f, S) /\ Iter(f, S) \in [SUBSET S -> Int]
  BY IterSums
<1>3. IsSum(Iter(f, T), f, T) /\ Total(f, T) = Iter(f, T)[T]
  BY <1>1, IterSums
<1>4. IsSum(Iter(f, S), f, T)
  BY <1>2 DEF IsSum
<1>5. Iter(f, S)[T] = Iter(f, T)[T]
  BY <1>1, <1>3, <1>4, SumUnique
<1> QED BY <1>2, <1>3, <1>5

(* Any element may be taken out first.                                     *)
LEMMA TotalWithout ==
  ASSUME NEW S, IsFiniteSet(S), NEW f, IntegerOn(f, S)
  PROVE  \A T \in SUBSET S : \A x \in T : Total(f, T) = f[x] + Total(f, T \ {x})
<1> DEFINE h == Iter(f, S)
<1> DEFINE Bad == {T \in SUBSET S : \E x \in T : h[T] # f[x] + h[T \ {x}]}
<1>0. IsSum(h, f, S) /\ h \in [SUBSET S -> Int]
  BY IterSums
<1>1. ASSUME Bad # {} PROVE FALSE
  <2>1. PICK T \in Bad : \A U \in Bad : U \subseteq T => U = T
    <3>1. Bad \in SUBSET (SUBSET S)
      OBVIOUS
    <3> HIDE DEF Bad
    <3> QED BY <1>1, <3>1, MinimalSubset
  <2>2. PICK x \in T : h[T] # f[x] + h[T \ {x}]
    BY <2>1
  <2> DEFINE c == Pick(T)
  <2>3. T \in SUBSET S /\ c \in T
    BY <2>1, <2>2, Picked
  <2>4. h[T] = f[c] + h[T \ {c}]
    BY <1>0, <2>2, <2>3 DEF IsSum, Step
  <2>5. c # x
    BY <2>2, <2>4
  <2>6. T \ {c} \in SUBSET S /\ T \ {c} \notin Bad /\ T \ {x} \in SUBSET S /\ T \ {x} \notin Bad
    <3>1. T \ {c} # T /\ T \ {x} # T /\ T \ {c} \subseteq T /\ T \ {x} \subseteq T
      BY <2>2, <2>3
    <3>2. T \ {c} \in SUBSET S /\ T \ {x} \in SUBSET S
      BY <2>3
    <3> HIDE DEF Bad, c
    <3> QED BY <2>1, <3>1, <3>2
  <2> DEFINE V == T \ {c, x}
  <2>7. (T \ {c}) \ {x} = V /\ (T \ {x}) \ {c} = V /\ V \in SUBSET S
    BY <2>3
  <2>8. h[T \ {c}] = f[x] + h[V]
    BY <2>2, <2>5, <2>6, <2>7
  <2>9. h[T \ {x}] = f[c] + h[V]
    BY <2>3, <2>5, <2>6, <2>7
  <2>10. f[x] \in Int /\ f[c] \in Int /\ h[V] \in Int
    BY <1>0, <2>2, <2>3, <2>7 DEF IntegerOn
  <2> DEFINE left == h[T \ {c}]
  <2> DEFINE right == h[T \ {x}]
  <2>11. f[c] + left = f[x] + right
    <3>1. left = f[x] + h[V] /\ right = f[c] + h[V]
      BY <2>8, <2>9
    <3> HIDE DEF h, c, V, left, right
    <3> QED BY <2>10, <3>1
  <2> QED BY <2>2, <2>4, <2>11
<1>2. SUFFICES ASSUME NEW T \in SUBSET S, NEW x \in T
               PROVE  Total(f, T) = f[x] + Total(f, T \ {x})
  OBVIOUS
<1>3. h[T] = f[x] + h[T \ {x}]
  BY <1>1
<1>4. Total(f, T) = h[T] /\ Total(f, T \ {x}) = h[T \ {x}]
  <2>1. T \ {x} \in SUBSET S
    OBVIOUS
  <2> QED BY <2>1, TotalOfPart
<1> QED BY <1>3, <1>4

LEMMA TotalEmpty ==
  ASSUME NEW f
  PROVE  Total(f, {}) = 0
<1>1. IsFiniteSet({}) /\ IntegerOn(f, {})
  BY FS_EmptySet DEF IntegerOn
<1>2. Total(f, {}) = Iter(f, {})[{}] /\ IsSum(Iter(f, {}), f, {})
  BY <1>1, IterSums
<1> QED BY <1>2 DEF IsSum, Step

(* A new element adds its value.                                           *)
LEMMA TotalAdd ==
  ASSUME NEW S, IsFiniteSet(S), NEW f, IntegerOn(f, S), NEW x, x \notin S, f[x] \in Int
  PROVE  Total(f, S \cup {x}) = Total(f, S) + f[x] /\ Total(f, S) \in Int
<1>1. IsFiniteSet(S \cup {x}) /\ IntegerOn(f, S \cup {x})
  BY FS_AddElement DEF IntegerOn
<1>2. Total(f, S \cup {x}) = f[x] + Total(f, (S \cup {x}) \ {x})
  BY <1>1, TotalWithout
<1>3. (S \cup {x}) \ {x} = S
  OBVIOUS
<1>4. Total(f, S) \in Int
  BY TotalOfPart
<1>5. Total(f, S \cup {x}) = f[x] + Total(f, S)
  BY <1>2, <1>3, Zenon
<1> DEFINE whole == Total(f, S \cup {x})
<1> DEFINE part == Total(f, S)
<1>6. whole = f[x] + part /\ part \in Int
  BY <1>4, <1>5
<1> HIDE DEF whole, part
<1>7. whole = part + f[x]
  BY <1>6
<1> QED BY <1>4, <1>7 DEF whole, part

LEMMA TotalOfOne ==
  ASSUME NEW f, NEW x, f[x] \in Int
  PROVE  Total(f, {x}) = f[x]
<1>1. IsFiniteSet({}) /\ IntegerOn(f, {}) /\ x \notin {} /\ {} \cup {x} = {x}
  BY FS_EmptySet DEF IntegerOn
<1>2. Total(f, {} \cup {x}) = Total(f, {}) + f[x]
  BY <1>1, TotalAdd
<1>3. Total(f, {}) = 0
  BY TotalEmpty
<1>4. Total(f, {x}) = 0 + f[x]
  BY <1>1, <1>2, <1>3, Zenon
<1> QED BY <1>4

(* The total depends on the values on the set alone.                       *)
LEMMA TotalSame ==
  ASSUME NEW S, IsFiniteSet(S), NEW f, NEW e, IntegerOn(f, S), \A x \in S : f[x] = e[x]
  PROVE  Total(f, S) = Total(e, S)
<1>1. IntegerOn(e, S)
  BY DEF IntegerOn
<1>2. IsSum(Iter(f, S), f, S) /\ Total(f, S) = Iter(f, S)[S]
  BY IterSums
<1>3. IsSum(Iter(e, S), e, S) /\ Total(e, S) = Iter(e, S)[S]
  BY <1>1, IterSums
<1>4. \A T \in SUBSET S : Iter(f, S)[T] = Iter(e, S)[T]
  BY <1>2, <1>3, SumUnique
<1> QED BY <1>2, <1>3, <1>4

(* The totals of two parts add up to that of the whole.                    *)
LEMMA TotalSplit ==
  ASSUME NEW S, IsFiniteSet(S), NEW f, IntegerOn(f, S)
  PROVE  \A T \in SUBSET S : Total(f, S) = Total(f, T) + Total(f, S \ T)
<1> DEFINE Bad == {T \in SUBSET S : Total(f, S) # Total(f, T) + Total(f, S \ T)}
<1>0. \A T \in SUBSET S : Total(f, T) \in Int
  BY TotalOfPart
<1>1. ASSUME Bad # {} PROVE FALSE
  <2>1. PICK T \in Bad : \A U \in Bad : U \subseteq T => U = T
    <3>1. Bad \in SUBSET (SUBSET S)
      OBVIOUS
    <3> HIDE DEF Bad
    <3> QED BY <1>1, <3>1, MinimalSubset
  <2>2. T # {}
    <3>1. SUFFICES ASSUME T = {} PROVE FALSE
      OBVIOUS
    <3>2. S \ T = S /\ Total(f, T) = 0
      BY <3>1, TotalEmpty
    <3>3. Total(f, S) \in Int
      BY <1>0
    <3>4. Total(f, S) # Total(f, T) + Total(f, S)
      BY <2>1, <3>2
    <3> QED BY <3>2, <3>3, <3>4
  <2>3. PICK x \in T : TRUE
    BY <2>2
  <2>4. T \ {x} \in SUBSET S /\ T \ {x} \notin Bad
    <3>1. T \ {x} \in SUBSET S /\ T \ {x} # T
      BY <2>1, <2>3
    <3> HIDE DEF Bad
    <3> QED BY <2>1, <3>1
  <2>5. Total(f, S) = Total(f, T \ {x}) + Total(f, S \ (T \ {x}))
    BY <2>4
  <2> DEFINE V == S \ (T \ {x})
  <2>6. x \in V /\ V \in SUBSET S /\ V \ {x} = S \ T /\ x \in S
    BY <2>1, <2>3
  <2>7. Total(f, V) = f[x] + Total(f, S \ T)
    BY <2>6, TotalWithout
  <2>8. Total(f, T) = f[x] + Total(f, T \ {x})
    BY <2>1, <2>3, TotalWithout
  <2>9. f[x] \in Int /\ Total(f, S \ T) \in Int /\ Total(f, T \ {x}) \in Int
    <3>1. S \ T \in SUBSET S /\ T \ {x} \in SUBSET S
      BY <2>4
    <3> QED BY <1>0, <2>6, <3>1 DEF IntegerOn
  <2> HIDE DEF V
  <2> QED BY <2>1, <2>5, <2>7, <2>8, <2>9 DEF V
<1> QED BY <1>1

-----------------------------------------------------------------------------
(* Extrema.                                                                *)

(* A finite set that is not empty has an element of least value.           *)
LEMMA HasLowest ==
  ASSUME NEW S, IsFiniteSet(S), NEW f, IntegerOn(f, S), S # {}
  PROVE  \E x \in S : \A y \in S : f[x] <= f[y]
<1> DEFINE Bad == {T \in SUBSET S : T # {} /\ ~ \E x \in T : \A y \in T : f[x] <= f[y]}
<1>1. ASSUME Bad # {} PROVE FALSE
  <2>1. PICK T \in Bad : \A U \in Bad : U \subseteq T => U = T
    <3>1. Bad \in SUBSET (SUBSET S)
      OBVIOUS
    <3> HIDE DEF Bad
    <3> QED BY <1>1, <3>1, MinimalSubset
  <2>2. PICK z \in T : TRUE
    BY <2>1
  <2>3. T \ {z} # {}
    <3>1. SUFFICES ASSUME T \ {z} = {} PROVE FALSE
      OBVIOUS
    <3>2. T = {z} /\ f[z] \in Int
      BY <2>1, <2>2, <3>1 DEF IntegerOn
    <3>3. \A y \in T : f[z] <= f[y]
      BY <3>2
    <3>4. \A y \in T : f[y] <= f[z]
      BY <3>2
    <3> QED BY <2>1, <2>2, <3>3, <3>4
  <2>4. T \ {z} \in SUBSET S /\ T \ {z} \notin Bad
    <3>1. T \ {z} \in SUBSET S /\ T \ {z} # T /\ T \ {z} \subseteq T
      BY <2>1, <2>2
    <3> HIDE DEF Bad
    <3> QED BY <2>1, <3>1
  <2>5. PICK x \in T \ {z} : \A y \in T \ {z} : f[x] <= f[y]
    BY <2>3, <2>4
  <2>6. \A y \in T : f[y] \in Int
    BY <2>1 DEF IntegerOn
  <2>7. CASE f[x] <= f[z]
    <3>1. \A y \in T : f[x] <= f[y]
      BY <2>5, <2>7
    <3> QED BY <2>1, <2>5, <3>1
  <2>8. CASE f[z] <= f[x]
    <3>1. \A y \in T : f[z] <= f[y]
      BY <2>2, <2>5, <2>6, <2>8
    <3> QED BY <2>1, <2>2, <3>1
  <2> QED BY <2>2, <2>5, <2>6, <2>7, <2>8
<1> QED BY <1>1

(* The element whose value is least gives the extremum.                    *)
LEMMA LowestIs ==
  ASSUME NEW f, NEW V, NEW x \in V, \A y \in V : f[y] \in Int /\ f[x] <= f[y]
  PROVE  Extremum(Min, f, V) = f[x]
<1> DEFINE E == {f[m] : m \in V}
<1>1. E \subseteq Int /\ f[x] \in E /\ \A e \in E : f[x] <= e
  OBVIOUS
<1>2. ASSUME NEW e \in E, \A d \in E : e <= d PROVE e = f[x]
  <2>1. e \in Int /\ f[x] \in Int /\ e <= f[x]
    BY <1>1, <1>2
  <2>2. f[x] <= e
    BY <1>1
  <2> QED BY <2>1, <2>2
<1>3. Min(E) = f[x]
  BY <1>1, <1>2 DEF Min
<1>4. V # {}
  OBVIOUS
<1> QED BY <1>3, <1>4 DEF Extremum

(* The least value of two sets together.                                   *)
LEMMA LowestUnion ==
  ASSUME NEW S, IsFiniteSet(S), NEW T, IsFiniteSet(T), NEW f, IntegerOn(f, S), IntegerOn(f, T)
  PROVE  Extremum(Min, f, S \cup T) = Least(Extremum(Min, f, S), Extremum(Min, f, T))
<1>1. None \notin Int
  BY WindowsAssumption
<1>2. ASSUME NEW V, NEW x \in V, \A y \in V : f[y] \in Int /\ f[x] <= f[y]
      PROVE  Extremum(Min, f, V) = f[x]
  BY <1>2, LowestIs
<1>3. CASE S = {}
  <2>1. S \cup T = T /\ Extremum(Min, f, S) = None
    BY <1>3 DEF Extremum
  <2> QED BY <2>1 DEF Least
<1>4. CASE T = {} /\ S # {}
  <2>1. S \cup T = S /\ Extremum(Min, f, T) = None
    BY <1>4 DEF Extremum
  <2>2. PICK x \in S : \A y \in S : f[x] <= f[y]
    BY <1>4, HasLowest
  <2>3. Extremum(Min, f, S) = f[x] /\ f[x] # None
    BY <1>1, <1>2, <2>2 DEF IntegerOn
  <2> QED BY <2>1, <2>3 DEF Least
<1>5. CASE S # {} /\ T # {}
  <2>1. PICK x \in S : \A y \in S : f[x] <= f[y]
    BY <1>5, HasLowest
  <2>2. PICK z \in T : \A y \in T : f[z] <= f[y]
    BY <1>5, HasLowest
  <2>3. f[x] \in Int /\ f[z] \in Int /\ \A y \in S \cup T : f[y] \in Int
    BY DEF IntegerOn
  <2>4. Extremum(Min, f, S) = f[x] /\ Extremum(Min, f, T) = f[z]
    BY <1>2, <2>1, <2>2, <2>3
  <2>5. CASE f[z] < f[x]
    <3>1. \A y \in S \cup T : f[z] <= f[y]
      BY <2>1, <2>2, <2>3, <2>5
    <3>2. Extremum(Min, f, S \cup T) = f[z]
      BY <1>2, <2>3, <3>1
    <3> QED BY <1>1, <2>3, <2>4, <2>5, <3>2 DEF Least
  <2>6. CASE ~(f[z] < f[x])
    <3>1. \A y \in S \cup T : f[x] <= f[y]
      BY <2>1, <2>2, <2>3, <2>6
    <3>2. Extremum(Min, f, S \cup T) = f[x]
      BY <1>2, <2>3, <3>1
    <3> QED BY <1>1, <2>3, <2>4, <2>6, <3>2 DEF Least
  <2> QED BY <2>5, <2>6
<1> QED BY <1>3, <1>4, <1>5

(* A finite set that is not empty has an element of greatest value.        *)
LEMMA HasHighest ==
  ASSUME NEW S, IsFiniteSet(S), NEW f, IntegerOn(f, S), S # {}
  PROVE  \E x \in S : \A y \in S : f[y] <= f[x]
<1> DEFINE Bad == {T \in SUBSET S : T # {} /\ ~ \E x \in T : \A y \in T : f[y] <= f[x]}
<1>1. ASSUME Bad # {} PROVE FALSE
  <2>1. PICK T \in Bad : \A U \in Bad : U \subseteq T => U = T
    <3>1. Bad \in SUBSET (SUBSET S)
      OBVIOUS
    <3> HIDE DEF Bad
    <3> QED BY <1>1, <3>1, MinimalSubset
  <2>2. PICK z \in T : TRUE
    BY <2>1
  <2>3. T \ {z} # {}
    <3>1. SUFFICES ASSUME T \ {z} = {} PROVE FALSE
      OBVIOUS
    <3>2. T = {z} /\ f[z] \in Int
      BY <2>1, <2>2, <3>1 DEF IntegerOn
    <3>3. \A y \in T : f[z] <= f[y]
      BY <3>2
    <3>4. \A y \in T : f[y] <= f[z]
      BY <3>2
    <3> QED BY <2>1, <2>2, <3>3, <3>4
  <2>4. T \ {z} \in SUBSET S /\ T \ {z} \notin Bad
    <3>1. T \ {z} \in SUBSET S /\ T \ {z} # T /\ T \ {z} \subseteq T
      BY <2>1, <2>2
    <3> HIDE DEF Bad
    <3> QED BY <2>1, <3>1
  <2>5. PICK x \in T \ {z} : \A y \in T \ {z} : f[y] <= f[x]
    BY <2>3, <2>4
  <2>6. \A y \in T : f[y] \in Int
    BY <2>1 DEF IntegerOn
  <2>7. CASE f[z] <= f[x]
    <3>1. \A y \in T : f[y] <= f[x]
      BY <2>5, <2>7
    <3> QED BY <2>1, <2>5, <3>1
  <2>8. CASE f[x] <= f[z]
    <3>1. \A y \in T : f[y] <= f[z]
      BY <2>2, <2>5, <2>6, <2>8
    <3> QED BY <2>1, <2>2, <3>1
  <2> QED BY <2>2, <2>5, <2>6, <2>7, <2>8
<1> QED BY <1>1

(* The element whose value is greatest gives the extremum.                 *)
LEMMA HighestIs ==
  ASSUME NEW f, NEW V, NEW x \in V, \A y \in V : f[y] \in Int /\ f[y] <= f[x]
  PROVE  Extremum(Max, f, V) = f[x]
<1> DEFINE E == {f[m] : m \in V}
<1>1. E \subseteq Int /\ f[x] \in E /\ \A e \in E : e <= f[x]
  OBVIOUS
<1>2. ASSUME NEW e \in E, \A d \in E : e >= d PROVE e = f[x]
  <2>1. e \in Int /\ f[x] \in Int /\ e >= f[x]
    BY <1>1, <1>2
  <2>2. e <= f[x]
    BY <1>1
  <2> QED BY <2>1, <2>2
<1>3. Max(E) = f[x]
  BY <1>1, <1>2 DEF Max
<1>4. V # {}
  OBVIOUS
<1> QED BY <1>3, <1>4 DEF Extremum

(* The greatest value of two sets together.                                *)
LEMMA HighestUnion ==
  ASSUME NEW S, IsFiniteSet(S), NEW T, IsFiniteSet(T), NEW f, IntegerOn(f, S), IntegerOn(f, T)
  PROVE  Extremum(Max, f, S \cup T) = Greatest(Extremum(Max, f, S), Extremum(Max, f, T))
<1>1. None \notin Int
  BY WindowsAssumption
<1>2. ASSUME NEW V, NEW x \in V, \A y \in V : f[y] \in Int /\ f[y] <= f[x]
      PROVE  Extremum(Max, f, V) = f[x]
  BY <1>2, HighestIs
<1>3. CASE S = {}
  <2>1. S \cup T = T /\ Extremum(Max, f, S) = None
    BY <1>3 DEF Extremum
  <2> QED BY <2>1 DEF Greatest
<1>4. CASE T = {} /\ S # {}
  <2>1. S \cup T = S /\ Extremum(Max, f, T) = None
    BY <1>4 DEF Extremum
  <2>2. PICK x \in S : \A y \in S : f[y] <= f[x]
    BY <1>4, HasHighest
  <2>3. Extremum(Max, f, S) = f[x] /\ f[x] # None
    BY <1>1, <1>2, <2>2 DEF IntegerOn
  <2> QED BY <2>1, <2>3 DEF Greatest
<1>5. CASE S # {} /\ T # {}
  <2>1. PICK x \in S : \A y \in S : f[y] <= f[x]
    BY <1>5, HasHighest
  <2>2. PICK z \in T : \A y \in T : f[y] <= f[z]
    BY <1>5, HasHighest
  <2>3. f[x] \in Int /\ f[z] \in Int /\ \A y \in S \cup T : f[y] \in Int
    BY DEF IntegerOn
  <2>4. Extremum(Max, f, S) = f[x] /\ Extremum(Max, f, T) = f[z]
    BY <1>2, <2>1, <2>2, <2>3
  <2>5. CASE f[x] < f[z]
    <3>1. \A y \in S \cup T : f[y] <= f[z]
      BY <2>1, <2>2, <2>3, <2>5
    <3>2. Extremum(Max, f, S \cup T) = f[z]
      BY <1>2, <2>3, <3>1
    <3> QED BY <1>1, <2>3, <2>4, <2>5, <3>2 DEF Greatest
  <2>6. CASE ~(f[x] < f[z])
    <3>1. \A y \in S \cup T : f[y] <= f[x]
      BY <2>1, <2>2, <2>3, <2>6
    <3>2. Extremum(Max, f, S \cup T) = f[x]
      BY <1>2, <2>3, <3>1
    <3> QED BY <1>1, <2>3, <2>4, <2>6, <3>2 DEF Greatest
  <2> QED BY <2>5, <2>6
<1> QED BY <1>3, <1>4, <1>5

LEMMA ExtremumTypes ==
  ASSUME NEW S, IsFiniteSet(S), NEW f, IntegerOn(f, S)
  PROVE  /\ Extremum(Min, f, S) \in Int \cup {None}
         /\ Extremum(Max, f, S) \in Int \cup {None}
<1>1. CASE S = {}
  BY <1>1 DEF Extremum
<1>2. CASE S # {}
  <2>1. \A y \in S : f[y] \in Int
    BY DEF IntegerOn
  <2>2. PICK x \in S : \A y \in S : f[x] <= f[y]
    BY <1>2, HasLowest
  <2>3. PICK z \in S : \A y \in S : f[y] <= f[z]
    BY <1>2, HasHighest
  <2>4. Extremum(Min, f, S) = f[x]
    BY <2>1, <2>2, LowestIs
  <2>5. Extremum(Max, f, S) = f[z]
    BY <2>1, <2>3, HighestIs
  <2> QED BY <2>1, <2>4, <2>5
<1> QED BY <1>1, <1>2

LEMMA ExtremumOfOne ==
  ASSUME NEW f, NEW x, f[x] \in Int
  PROVE  Extremum(Min, f, {x}) = f[x] /\ Extremum(Max, f, {x}) = f[x]
<1>1. x \in {x} /\ \A y \in {x} : f[y] \in Int /\ f[x] <= f[y] /\ f[y] <= f[x]
  OBVIOUS
<1>2. \A y \in {x} : f[y] \in Int /\ f[x] <= f[y]
  BY <1>1
<1>3. \A y \in {x} : f[y] \in Int /\ f[y] <= f[x]
  BY <1>1
<1>4. Extremum(Min, f, {x}) = f[x]
  BY <1>1, <1>2, LowestIs
<1>5. Extremum(Max, f, {x}) = f[x]
  BY <1>1, <1>3, HighestIs
<1> QED BY <1>4, <1>5

-----------------------------------------------------------------------------
(* Aggregates.                                                             *)

LEMMA MetricsFinite ==
  ASSUME NEW S \in SUBSET Metrics
  PROVE  /\ IsFiniteSet(S) /\ Cardinality(S) \in Nat
         /\ IntegerOn(Imbalance, S) /\ IntegerOn(SpreadBps, S) /\ IntegerOn(Volume, S)
         /\ IntegerOn(At, S)
<1>1. IsFiniteSet(S) /\ Cardinality(S) \in Nat
  BY WindowsAssumption, FS_Subset, FS_CardinalityType
<1>2. /\ Imbalance \in [Metrics -> Int] /\ SpreadBps \in [Metrics -> Nat]
      /\ Volume \in [Metrics -> Nat] /\ At \in [Metrics -> Nat]
  BY WindowsAssumption
<1> QED BY <1>1, <1>2 DEF IntegerOn

LEMMA ReferenceType ==
  ASSUME NEW S \in SUBSET Metrics
  PROVE  Reference(S) \in Accumulators
<1>1. /\ Total(Imbalance, S) \in Int /\ Total(SpreadBps, S) \in Int
      /\ Total(Volume, S) \in Int
  BY MetricsFinite, TotalOfPart
<1>2. /\ Extremum(Min, Imbalance, S) \in Int \cup {None}
      /\ Extremum(Max, Imbalance, S) \in Int \cup {None}
      /\ Extremum(Min, SpreadBps, S) \in Int \cup {None}
      /\ Extremum(Max, SpreadBps, S) \in Int \cup {None}
  BY MetricsFinite, ExtremumTypes
<1> QED BY <1>1, <1>2, MetricsFinite DEF Reference, Accumulators

(* No metric, no aggregate but the accumulator that Flink starts with.     *)
LEMMA ReferenceEmpty == Reference({}) = CreateAccumulator
BY TotalEmpty, FS_EmptySet DEF Reference, CreateAccumulator, Extremum

(* A further metric is added as Add adds it.                               *)
LEMMA ReferenceAdd ==
  ASSUME NEW S \in SUBSET Metrics, NEW m \in Metrics, m \notin S
  PROVE  Reference(S \cup {m}) = Add(m, Reference(S))
<1>1. IsFiniteSet(S) /\ IsFiniteSet({m}) /\ {m} \in SUBSET Metrics
  BY MetricsFinite, FS_Singleton
<1>2. \A f \in {Imbalance, SpreadBps, Volume} :
        IntegerOn(f, S) /\ IntegerOn(f, {m}) /\ f[m] \in Int
  <2>1. IntegerOn(Imbalance, {m}) /\ IntegerOn(SpreadBps, {m}) /\ IntegerOn(Volume, {m})
    BY <1>1, MetricsFinite
  <2>2. Imbalance[m] \in Int /\ SpreadBps[m] \in Int /\ Volume[m] \in Int
    BY <2>1 DEF IntegerOn
  <2> QED BY <2>1, <2>2, MetricsFinite
<1>3. \A f \in {Imbalance, SpreadBps, Volume} : Total(f, S \cup {m}) = Total(f, S) + f[m]
  BY <1>1, <1>2, TotalAdd
<1>4. \A f \in {Imbalance, SpreadBps} :
        /\ Extremum(Min, f, S \cup {m}) = Least(Extremum(Min, f, S), f[m])
        /\ Extremum(Max, f, S \cup {m}) = Greatest(Extremum(Max, f, S), f[m])
  <2> TAKE f \in {Imbalance, SpreadBps}
  <2>1. IntegerOn(f, S) /\ IntegerOn(f, {m}) /\ f[m] \in Int
    BY <1>2
  <2>2. Extremum(Min, f, {m}) = f[m] /\ Extremum(Max, f, {m}) = f[m]
    BY <2>1, ExtremumOfOne
  <2>3. Extremum(Min, f, S \cup {m}) = Least(Extremum(Min, f, S), Extremum(Min, f, {m}))
    BY <1>1, <2>1, LowestUnion
  <2>4. Extremum(Max, f, S \cup {m}) = Greatest(Extremum(Max, f, S), Extremum(Max, f, {m}))
    BY <1>1, <2>1, HighestUnion
  <2> QED BY <2>2, <2>3, <2>4
<1>5. Cardinality(S \cup {m}) = Cardinality(S) + 1
  BY <1>1, FS_AddElement
<1> QED BY <1>3, <1>4, <1>5 DEF Reference, Add

(* Aggregates of two parts merge to that of the whole.                     *)
LEMMA ReferenceMerge ==
  ASSUME NEW W \in SUBSET Metrics, NEW S \in SUBSET W
  PROVE  Merge(Reference(S), Reference(W \ S)) = Reference(W)
<1>1. /\ S \in SUBSET Metrics /\ W \ S \in SUBSET Metrics /\ S \cup (W \ S) = W
      /\ S \cap (W \ S) = {}
  OBVIOUS
<1>2. IsFiniteSet(S) /\ IsFiniteSet(W \ S) /\ IsFiniteSet(W)
  BY <1>1, MetricsFinite
<1>3. \A f \in {Imbalance, SpreadBps, Volume} :
        IntegerOn(f, S) /\ IntegerOn(f, W \ S) /\ IntegerOn(f, W)
  <2>1. IntegerOn(Imbalance, S) /\ IntegerOn(SpreadBps, S) /\ IntegerOn(Volume, S)
    BY <1>1, MetricsFinite
  <2>2. IntegerOn(Imbalance, W \ S) /\ IntegerOn(SpreadBps, W \ S) /\ IntegerOn(Volume, W \ S)
    BY <1>1, MetricsFinite
  <2>3. IntegerOn(Imbalance, W) /\ IntegerOn(SpreadBps, W) /\ IntegerOn(Volume, W)
    BY MetricsFinite
  <2> QED BY <2>1, <2>2, <2>3
<1>4. \A f \in {Imbalance, SpreadBps, Volume} : Total(f, S) + Total(f, W \ S) = Total(f, W)
  <2> TAKE f \in {Imbalance, SpreadBps, Volume}
  <2>1. IntegerOn(f, W)
    BY <1>3
  <2> QED BY <1>2, <2>1, TotalSplit
<1>5. \A f \in {Imbalance, SpreadBps} :
        /\ Least(Extremum(Min, f, S), Extremum(Min, f, W \ S)) = Extremum(Min, f, W)
        /\ Greatest(Extremum(Max, f, S), Extremum(Max, f, W \ S)) = Extremum(Max, f, W)
  <2> TAKE f \in {Imbalance, SpreadBps}
  <2>1. IntegerOn(f, S) /\ IntegerOn(f, W \ S)
    BY <1>3
  <2> DEFINE R == W \ S
  <2> HIDE DEF R
  <2>2. IsFiniteSet(R) /\ IntegerOn(f, R) /\ S \cup R = W
    BY <1>1, <1>2, <2>1 DEF R
  <2>3. Extremum(Min, f, S \cup R) = Least(Extremum(Min, f, S), Extremum(Min, f, R))
    BY <1>2, <2>1, <2>2, LowestUnion
  <2>4. Extremum(Max, f, S \cup R) = Greatest(Extremum(Max, f, S), Extremum(Max, f, R))
    BY <1>2, <2>1, <2>2, HighestUnion
  <2> QED BY <2>2, <2>3, <2>4 DEF R
<1>6. Cardinality(S) + Cardinality(W \ S) = Cardinality(W)
  <2> DEFINE rest == Cardinality(W \ S)
  <2>1. W \cap S = S
    OBVIOUS
  <2>2. rest = Cardinality(W) - Cardinality(S)
    BY <1>2, <2>1, FS_Difference
  <2>3. Cardinality(W) \in Nat /\ Cardinality(S) \in Nat
    BY <1>1, MetricsFinite
  <2> HIDE DEF rest
  <2>4. Cardinality(S) + rest = Cardinality(W)
    BY <2>2, <2>3
  <2> QED BY <2>4 DEF rest
<1> QED BY <1>4, <1>5, <1>6 DEF Reference, Merge

LEMMA ExtremumStep ==
  ASSUME NEW a \in Int \cup {None}, NEW v \in Int
  PROVE  Least(a, v) \in Int /\ Greatest(a, v) \in Int
BY WindowsAssumption DEF Least, Greatest

LEMMA AddTypes ==
  /\ CreateAccumulator \in Accumulators
  /\ \A m \in Metrics : \A acc \in Accumulators : Add(m, acc) \in Accumulators
<1>1. CreateAccumulator \in Accumulators
  BY DEF CreateAccumulator, Accumulators
<1>2. ASSUME NEW m \in Metrics, NEW acc \in Accumulators PROVE Add(m, acc) \in Accumulators
  <2>1. Imbalance[m] \in Int /\ SpreadBps[m] \in Int /\ Volume[m] \in Int
    BY WindowsAssumption
  <2>2. /\ acc.imb_min \in Int \cup {None} /\ acc.imb_max \in Int \cup {None}
        /\ acc.spread_bps_min \in Int \cup {None} /\ acc.spread_bps_max \in Int \cup {None}
        /\ acc.imb_total \in Int /\ acc.spread_bps_total \in Int
        /\ acc.total_volume_total \in Int /\ acc.sample_count \in Nat
    BY DEF Accumulators
  <2>3. /\ Least(acc.imb_min, Imbalance[m]) \in Int
        /\ Greatest(acc.imb_max, Imbalance[m]) \in Int
        /\ Least(acc.spread_bps_min, SpreadBps[m]) \in Int
        /\ Greatest(acc.spread_bps_max, SpreadBps[m]) \in Int
    BY <2>1, <2>2, ExtremumStep
  <2> QED BY <2>1, <2>2, <2>3 DEF Add, Accumulators
<1> QED BY <1>1, <1>2

-----------------------------------------------------------------------------
(* The order of the windows.                                               *)

Before(S, w) == {v \in S : v < w}

(* The windows before a later window are more.                             *)
LEMMA RankGrows ==
  ASSUME NEW S \in SUBSET Int, IsFiniteSet(S)
  PROVE  /\ \A w \in S : Cardinality(Before(S, w)) + 1 \in 1 .. Cardinality(S)
         /\ \A v, w \in S : v < w => Cardinality(Before(S, v)) < Cardinality(Before(S, w))
<1>1. \A w \in S : /\ Before(S, w) \in SUBSET S /\ w \notin Before(S, w)
                   /\ IsFiniteSet(Before(S, w)) /\ Cardinality(Before(S, w)) \in Nat
  <2> TAKE w \in S
  <2>1. Before(S, w) \in SUBSET S /\ w \notin Before(S, w)
    BY DEF Before
  <2> QED BY <2>1, FS_Subset, FS_CardinalityType
<1>2. ASSUME NEW w \in S PROVE Cardinality(Before(S, w)) + 1 \in 1 .. Cardinality(S)
  <2>1. Cardinality(S) \in Nat
    BY FS_CardinalityType
  <2>2. Cardinality(Before(S, w)) <= Cardinality(S)
    BY <1>1, FS_Subset
  <2>3. Cardinality(Before(S, w)) # Cardinality(S)
    BY <1>1, FS_Subset
  <2> QED BY <1>1, <2>1, <2>2, <2>3
<1>3. ASSUME NEW v \in S, NEW w \in S, v < w
      PROVE  Cardinality(Before(S, v)) < Cardinality(Before(S, w))
  <2> DEFINE B == Before(S, v) \cup {v}
  <2>1. B \in SUBSET Before(S, w)
    <3>1. \A u \in S : u < v => u < w
      BY <1>3
    <3> QED BY <1>3, <3>1 DEF Before
  <2>2. Cardinality(B) = Cardinality(Before(S, v)) + 1
    BY <1>1, FS_AddElement
  <2>3. Cardinality(B) <= Cardinality(Before(S, w))
    BY <1>1, <2>1, FS_Subset
  <2> HIDE DEF B
  <2> QED BY <1>1, <2>2, <2>3
<1> QED BY <1>2, <1>3

(* InOrder is each of the windows, once, and in their order.               *)
LEMMA InOrderSorts ==
  ASSUME NEW S \in SUBSET Int, IsFiniteSet(S)
  PROVE  /\ InOrder(S) \in [1 .. Cardinality(S) -> S]
         /\ \A i, j \in 1 .. Cardinality(S) : i < j => InOrder(S)[i] < InOrder(S)[j]
         /\ \A w \in S : \E i \in 1 .. Cardinality(S) : InOrder(S)[i] = w
<1> DEFINE n == Cardinality(S)
<1> DEFINE rank == [w \in S |-> Cardinality(Before(S, w)) + 1]
<1>1. n \in Nat /\ IsFiniteSet(1 .. n) /\ Cardinality(1 .. n) = n
  <2>1. n \in Nat
    BY FS_CardinalityType
  <2>2. Cardinality(1 .. n) = IF 1 > n THEN 0 ELSE n - 1 + 1
    BY <2>1, FS_Interval
  <2> QED BY <2>1, <2>2, FS_Interval
<1>2. \A w \in S : Cardinality(Before(S, w)) \in Nat /\ rank[w] \in 1 .. n
  <2> TAKE w \in S
  <2>1. Before(S, w) \in SUBSET S
    BY DEF Before
  <2>2. Cardinality(Before(S, w)) \in Nat
    BY <2>1, FS_Subset, FS_CardinalityType
  <2> QED BY <2>2, RankGrows
<1>3. \A v, w \in S : v < w => rank[v] < rank[w]
  BY <1>2, RankGrows
<1>4. rank \in Injection(S, 1 .. n)
  <2>1. \A v, w \in S : rank[v] = rank[w] => v = w
    <3> SUFFICES ASSUME NEW v \in S, NEW w \in S, v # w PROVE rank[v] # rank[w]
      OBVIOUS
    <3>1. v \in Int /\ w \in Int /\ (v < w \/ w < v)
      OBVIOUS
    <3>2. rank[v] \in Int /\ rank[w] \in Int /\ (rank[v] < rank[w] \/ rank[w] < rank[v])
      BY <1>1, <1>2, <1>3, <3>1
    <3> HIDE DEF rank
    <3> QED BY <3>2
  <2>2. rank \in [S -> 1 .. n]
    BY <1>2
  <2> HIDE DEF rank, n
  <2> QED BY <2>1, <2>2 DEF Injection, IsInjective
<1>5. rank \in Surjection(S, 1 .. n)
  <2> HIDE DEF rank
  <2> QED BY <1>1, <1>4, FS_Injection
<1>6. \A i \in 1 .. n : \E w \in S : Cardinality(Before(S, w)) = i - 1
  <2> TAKE i \in 1 .. n
  <2>1. PICK w \in S : rank[w] = i
    BY <1>5 DEF Surjection
  <2> QED BY <1>1, <1>2, <2>1
<1>7. InOrder(S) = [i \in 1 .. n |-> CHOOSE w \in S : Cardinality(Before(S, w)) = i - 1]
  BY DEF InOrder, Before
<1>8. \A i \in 1 .. n : InOrder(S)[i] \in S /\ rank[InOrder(S)[i]] = i
  <2> TAKE i \in 1 .. n
  <2> DEFINE w == CHOOSE v \in S : Cardinality(Before(S, v)) = i - 1
  <2>1. w \in S /\ Cardinality(Before(S, w)) = i - 1
    BY <1>6
  <2>2. InOrder(S)[i] = w
    BY <1>7
  <2> HIDE DEF w
  <2> QED BY <1>1, <2>1, <2>2
<1> HIDE DEF rank
<1>9. ASSUME NEW i \in 1 .. n, NEW j \in 1 .. n, i < j PROVE InOrder(S)[i] < InOrder(S)[j]
  <2>1. InOrder(S)[i] \in Int /\ InOrder(S)[j] \in Int
    BY <1>8
  <2>2. rank[InOrder(S)[i]] = i /\ rank[InOrder(S)[j]] = j /\ i \in Int /\ j \in Int
    BY <1>8
  <2>3. InOrder(S)[j] < InOrder(S)[i] => j < i
    BY <1>3, <1>8, <2>2
  <2>4. InOrder(S)[i] = InOrder(S)[j] => i = j
    BY <2>2
  <2> DEFINE v == InOrder(S)[i]
  <2> DEFINE w == InOrder(S)[j]
  <2>5. v \in Int /\ w \in Int /\ ~(w < v) /\ v # w
    BY <1>9, <2>1, <2>2, <2>3, <2>4
  <2> HIDE DEF v, w
  <2>6. v < w
    BY <2>5
  <2> QED BY <2>6 DEF v, w
<1>10. ASSUME NEW w \in S PROVE \E i \in 1 .. n : InOrder(S)[i] = w
  <2>1. rank[w] \in 1 .. n /\ rank[InOrder(S)[rank[w]]] = rank[w] /\ InOrder(S)[rank[w]] \in S
    BY <1>2, <1>8
  <2>2. InOrder(S)[rank[w]] = w
    BY <1>4, <2>1 DEF Injection, IsInjective
  <2> QED BY <2>1, <2>2
<1> QED BY <1>7, <1>8, <1>9, <1>10

-----------------------------------------------------------------------------
(* Windows of processing time.                                             *)

(* Quotient and remainder.                                                 *)
LEMMA DivMod ==
  ASSUME NEW c \in Int, NEW L \in Int, L > 0
  PROVE  c \div L \in Int /\ c = L * (c \div L) + (c % L) /\ (c % L) \in 0 .. L - 1
OBVIOUS

(* A number has one quotient.                                              *)
LEMMA SameQuotient ==
  ASSUME NEW L \in Nat \ {0}, NEW q \in Int, NEW p \in Int,
         NEW r \in 0 .. L - 1, NEW s \in 0 .. L - 1,
         L * p + s = L * q + r
  PROVE  p = q
<1>1. L * (p - q) = r - s
  OBVIOUS
<1>2. ASSUME p > q PROVE FALSE
  <2>1. L * (p - q) >= L
    BY <1>2
  <2> QED BY <2>1, <1>1
<1>3. ASSUME q > p PROVE FALSE
  <2>1. L * (q - p) >= L
    BY <1>3
  <2> QED BY <2>1, <1>1
<1> QED BY <1>2, <1>3

(* The window of the next moment is that of this one, or starts where it   *)
(* ends.                                                                   *)
LEMMA NextStart ==
  ASSUME NEW c \in Nat, NEW L \in Nat \ {0}
  PROVE  LET start == c - (c % L)
             next == (c + 1) - ((c + 1) % L)
         IN  /\ start \in Nat /\ start <= c /\ c < start + L
             /\ next = IF c + 1 < start + L THEN start ELSE start + L
<1> DEFINE q == c \div L
<1> DEFINE r == c % L
<1> DEFINE p == (c + 1) \div L
<1> DEFINE s == (c + 1) % L
<1>1. q \in Int /\ c = L * q + r /\ r \in 0 .. L - 1
  BY DivMod
<1>2. p \in Int /\ c + 1 = L * p + s /\ s \in 0 .. L - 1
  <2>1. c + 1 \in Int
    OBVIOUS
  <2> QED BY <2>1, DivMod
<1>3. L * q \in Int /\ L * p \in Int
  BY <1>1, <1>2
<1>4. L * q >= 0
  <2>1. SUFFICES ASSUME q < 0 PROVE FALSE
    BY <1>1
  <2>2. L * q <= -L
    BY <1>1, <2>1
  <2> HIDE DEF q, r
  <2> QED BY <1>1, <2>2
<1> HIDE DEF q, r, p, s
<1>5. CASE c + 1 < L * q + L
  <2>1. r + 1 \in 0 .. L - 1 /\ L * p + s = L * q + (r + 1)
    BY <1>1, <1>2, <1>3, <1>5
  <2>2. p = q
    BY <1>1, <1>2, <2>1, SameQuotient
  <2> QED BY <1>1, <1>2, <1>3, <1>4, <1>5, <2>2 DEF r, s
<1>6. CASE ~(c + 1 < L * q + L)
  <2>1. L * (q + 1) = L * q + L /\ r = L - 1
    BY <1>1, <1>3, <1>6
  <2>2. L * p + s = L * (q + 1) + 0
    BY <1>1, <1>2, <1>3, <2>1
  <2>3. p = q + 1
    <3>1. q + 1 \in Int /\ 0 \in 0 .. L - 1
      BY <1>1
    <3> QED BY <1>2, <2>2, <3>1, SameQuotient
  <2>4. L * p = L * q + L
    BY <2>1, <2>3
  <2> QED BY <1>1, <1>2, <1>3, <1>4, <1>6, <2>4 DEF r, s
<1> QED BY <1>5, <1>6

-----------------------------------------------------------------------------
(* What the lemmas say of a state.                                         *)

LEMMA Parameters ==
  /\ At \in [Metrics -> Nat] /\ Size \in Nat \ {0} /\ Length \in Nat \ {0}
  /\ Lateness \in Nat /\ None \notin Int /\ MaxClock \in Nat
BY WindowsAssumption

(* The latest metric.                                                      *)
LEMMA LatestIs ==
  ASSUME TypeOK, arrived # {}
  PROVE  \E m \in arrived : Latest = At[m] /\ \A n \in arrived : At[n] <= At[m]
<1>1. arrived \in SUBSET Metrics
  BY DEF TypeOK
<1>2. IsFiniteSet(arrived) /\ IntegerOn(At, arrived)
  BY <1>1, MetricsFinite
<1>3. PICK m \in arrived : \A n \in arrived : At[n] <= At[m]
  BY <1>2, HasHighest
<1>4. Extremum(Max, At, arrived) = At[m]
  BY <1>2, <1>3, HighestIs DEF IntegerOn
<1>5. Extremum(Max, At, arrived) = Latest
  BY DEF Extremum, Latest
<1> QED BY <1>3, <1>4, <1>5

(* A window's start is the metric's moment at most, and its end after it.  *)
LEMMA StartsAround ==
  ASSUME NEW m \in Metrics, NEW w \in Starts(m)
  PROVE  w \in Int /\ w <= At[m] /\ At[m] <= w + Size - 1 /\ At[m] \in Nat
<1>1. At[m] \in Nat /\ Size \in Nat
  BY Parameters
<1> QED BY <1>1 DEF Starts

(* The windows of one metric are finitely many.                            *)
LEMMA StartsFinite ==
  ASSUME NEW m \in Metrics
  PROVE  IsFiniteSet(Starts(m))
<1> DEFINE first == At[m] - Size + 1
<1> DEFINE last == At[m]
<1>1. first \in Int /\ last \in Int
  BY Parameters
<1>2. IsFiniteSet(first .. last)
  <2> HIDE DEF first, last
  <2> QED BY <1>1, FS_Interval
<1>3. Starts(m) \in SUBSET (first .. last)
  BY DEF Starts
<1> QED BY <1>2, <1>3, FS_Subset

-----------------------------------------------------------------------------
(* The initial state.                                                      *)

LEMMA InitIInv == Init => IInv
<1> SUFFICES ASSUME Init PROVE IInv
  OBVIOUS
<1>1. TypeOK
  BY FS_EmptySet, Parameters DEF Init, TypeOK, SlidingResults
<1>2. SlidingExact
  BY DEF Init, SlidingExact, SlidingResults
<1>3. TumblingExact
  <2>1. TumblingResults = {} /\ DOMAIN tumbling = {} /\ arrived = {}
    BY DEF Init, TumblingResults
  <2>2. Cardinality(arrived) = 0
    BY <2>1, FS_EmptySet
  <2> DEFINE f == [r \in TumblingResults |-> r.acc.sample_count]
  <2> DEFINE g == [w \in DOMAIN tumbling |-> tumbling[w].sample_count]
  <2>3. Total(f, TumblingResults) = 0 /\ Total(g, DOMAIN tumbling) = 0
    BY <2>1, TotalEmpty
  <2> QED BY <2>1, <2>2, <2>3 DEF TumblingExact
<1>4. MergeExact
  BY ReferenceMerge DEF Init, MergeExact
<1>5. OpenAhead
  BY DEF Init, OpenAhead, TumblingResults
<1>6. WatermarkBehind /\ AveragesOrdered
  BY DEF Init, WatermarkBehind, AveragesOrdered
<1> QED BY <1>1, <1>2, <1>3, <1>4, <1>5, <1>6 DEF IInv

-----------------------------------------------------------------------------
(* A metric arrives.                                                       *)

Open(m) == {w \in Starts(m) : ~Fired(w)}

(* The metric is counted in the windows of its own that are still open,    *)
(* and nothing else changes in what is counted.                            *)
LEMMA ArriveCounts ==
  ASSUME TypeOK, NEW m \in Metrics, Arrive(m)
  PROVE  \A w : /\ Counted(w)' = IF w \in Open(m) THEN Counted(w) \cup {m} ELSE Counted(w)
                /\ m \notin Counted(w) /\ Counted(w) \in SUBSET Metrics
<1> SUFFICES ASSUME NEW w
             PROVE  /\ Counted(w)' = IF w \in Open(m) THEN Counted(w) \cup {m} ELSE Counted(w)
                    /\ m \notin Counted(w) /\ Counted(w) \in SUBSET Metrics
  OBVIOUS
<1>1. m \notin arrived /\ arrived' = arrived \cup {m} /\ late \subseteq arrived \X Int
  BY DEF TypeOK, Arrive
<1>2. late' = late \cup {<<m, v>> : v \in {u \in Starts(m) : Fired(u)}}
  BY DEF Arrive
<1>3. \A n \in arrived : <<n, w>> \in late' <=> <<n, w>> \in late
  BY <1>1, <1>2
<1>4. <<m, w>> \in late' <=> w \in Starts(m) /\ Fired(w)
  BY <1>1, <1>2
<1>5. Counted(w)' = {n \in arrived' : w \in Starts(n) /\ <<n, w>> \notin late'}
  BY DEF Counted, Starts
<1>6. m \in Counted(w)' <=> w \in Open(m)
  BY <1>1, <1>4, <1>5 DEF Open
<1>7. \A n : n # m => (n \in Counted(w)' <=> n \in Counted(w))
  BY <1>1, <1>3, <1>5 DEF Counted
<1>8. m \notin Counted(w) /\ Counted(w) \in SUBSET Metrics
  BY <1>1 DEF Counted, TypeOK
<1> QED BY <1>6, <1>7, <1>8

(* The definition of the aggregate is of constants.                        *)
LEMMA ReferenceConstant ==
  ASSUME NEW w
  PROVE  Reference(Counted(w))' = Reference(Counted(w)')
BY DEF Reference, Total, Extremum, MapThenSumSet, MapThenFoldSet, Min, Max

(* A window that is not open yet, and has not fired, has no metric.        *)
LEMMA NotOpenedEmpty ==
  ASSUME TypeOK, SlidingExact, NEW w, ~Fired(w), w \notin DOMAIN sliding
  PROVE  Counted(w) = {}
<1>1. \A r \in SlidingResults : r.window_start # w
  <2> SUFFICES ASSUME NEW r \in SlidingResults, r.window_start = w PROVE FALSE
    OBVIOUS
  <2>1. r.window_end = r.window_start + Size /\ r.window_end <= watermark + 1
    BY DEF SlidingExact
  <2>2. w \in Int /\ watermark \in Int /\ Size \in Nat
    BY Parameters DEF TypeOK, SlidingResults
  <2> QED BY <2>1, <2>2 DEF Fired
<1>2. \A n \in arrived : w \in Starts(n) => <<n, w>> \in late
  BY <1>1 DEF SlidingExact
<1> QED BY <1>2 DEF Counted

LEMMA ArriveTypes ==
  ASSUME IInv, NEW m \in Metrics, Arrive(m)
  PROVE  /\ TypeOK' /\ OpenAhead' /\ WatermarkBehind' /\ AveragesOrdered'
         /\ SlidingResults' = SlidingResults /\ TumblingResults' = TumblingResults
<1>1. SlidingResults' = SlidingResults /\ TumblingResults' = TumblingResults
  BY DEF Arrive, SlidingResults, TumblingResults
<1>2. TypeOK /\ OpenAhead /\ WatermarkBehind /\ AveragesOrdered
  BY DEF IInv
<1>3. /\ DOMAIN sliding' = DOMAIN sliding \cup Open(m)
      /\ \A w \in DOMAIN sliding' : sliding'[w] \in Accumulators
  <2>1. DOMAIN sliding' = DOMAIN sliding \cup Open(m)
    BY DEF Arrive, Accumulated, Open
  <2>2. ASSUME NEW w \in DOMAIN sliding' PROVE sliding'[w] \in Accumulators
    BY <1>2, <2>1, <2>2, AddTypes DEF Arrive, Accumulated, Open, TypeOK
  <2> QED BY <2>1, <2>2
<1>4. /\ DOMAIN tumbling' = DOMAIN tumbling \cup {TumblingStart}
      /\ \A w \in DOMAIN tumbling' : tumbling'[w] \in Accumulators
  <2>1. DOMAIN tumbling' = DOMAIN tumbling \cup {TumblingStart}
    BY DEF Arrive, Accumulated
  <2>2. ASSUME NEW w \in DOMAIN tumbling' PROVE tumbling'[w] \in Accumulators
    BY <1>2, <2>1, <2>2, AddTypes DEF Arrive, Accumulated, TypeOK
  <2> QED BY <2>1, <2>2
<1>5. TumblingStart \in Nat
  <2>1. clock \in Nat
    BY <1>2, Parameters DEF TypeOK
  <2> QED BY <2>1, NextStart, Parameters DEF TumblingStart
<1>6. Open(m) \subseteq Int
  BY DEF Open, Starts
<1>7. late' \subseteq arrived' \X Int
  <2>1. late' = late \cup {<<m, v>> : v \in {u \in Starts(m) : Fired(u)}} /\ arrived' = arrived \cup {m}
    BY DEF Arrive
  <2>2. Starts(m) \subseteq Int /\ late \subseteq arrived \X Int
    BY <1>2 DEF Starts, TypeOK
  <2> QED BY <2>1, <2>2
<1>8. TypeOK'
  <2>1. /\ arrived' \subseteq Metrics /\ compared' \subseteq Metrics
        /\ watermark' \in Int /\ clock' \in 0 .. MaxClock
    BY <1>2 DEF TypeOK, Arrive
  <2>2. DOMAIN sliding' \subseteq Int /\ DOMAIN tumbling' \subseteq Nat
    BY <1>2, <1>3, <1>4, <1>5, <1>6 DEF TypeOK
  <2>3. /\ IsFiniteSet(results') /\ averages' \in Seq(SlidingResults')
        /\ results' \subseteq [window_type : {"5m_sliding", "1m_tumbling"},
                                window_start : Int, window_end : Int, acc : Accumulators]
        /\ avgSpread' \in SlidingResults' \cup {None}
        /\ alerts' \subseteq compared' \X SlidingResults'
    BY <1>1, <1>2 DEF TypeOK, Arrive
  <2> QED BY <1>3, <1>4, <1>7, <2>1, <2>2, <2>3 DEF TypeOK
<1>9. OpenAhead'
  <2>1. clock' = clock /\ watermark' = watermark /\ TumblingStart' = TumblingStart
    BY DEF Arrive, TumblingStart
  <2>2. ASSUME NEW w \in DOMAIN sliding'
        PROVE  ~Fired(w)' /\ \E n \in arrived' : w \in Starts(n)'
    BY <1>2, <1>3, <2>1, <2>2 DEF OpenAhead, Fired, Open, Starts, Arrive
  <2>3. DOMAIN tumbling' \subseteq {TumblingStart'}
    BY <1>2, <1>4, <2>1 DEF OpenAhead
  <2> QED BY <1>1, <1>2, <2>1, <2>2, <2>3 DEF OpenAhead
<1>10. WatermarkBehind' /\ AveragesOrdered'
  BY <1>2 DEF Arrive, WatermarkBehind, AveragesOrdered
<1> QED BY <1>1, <1>8, <1>9, <1>10

(* Every sliding window still has the aggregate of its metrics.            *)
LEMMA ArriveSliding ==
  ASSUME IInv, NEW m \in Metrics, Arrive(m)
  PROVE  SlidingExact'
<1>0. TypeOK /\ SlidingExact /\ OpenAhead
  BY DEF IInv
<1>1. SlidingResults' = SlidingResults /\ watermark' = watermark
  BY DEF Arrive, SlidingResults
<1>2. DOMAIN sliding' = DOMAIN sliding \cup Open(m)
  BY DEF Arrive, Accumulated, Open
<1>3. ASSUME NEW w \in DOMAIN sliding' PROVE sliding'[w] = Reference(Counted(w)')
  <2>1. m \notin Counted(w) /\ Counted(w) \in SUBSET Metrics
    BY <1>0, ArriveCounts
  <2>2. CASE w \in Open(m)
    <3> DEFINE before == IF w \in DOMAIN sliding THEN sliding[w] ELSE CreateAccumulator
    <3>1. sliding'[w] = Add(m, before)
      BY <1>2, <2>2 DEF Arrive, Accumulated, Open
    <3>2. before = Reference(Counted(w))
      <4>1. CASE w \in DOMAIN sliding
        BY <1>0, <4>1 DEF SlidingExact
      <4>2. CASE w \notin DOMAIN sliding
        <5>1. Counted(w) = {}
          BY <1>0, <2>2, <4>2, NotOpenedEmpty DEF Open
        <5> QED BY <4>2, <5>1, ReferenceEmpty
      <4> QED BY <4>1, <4>2
    <3>3. Counted(w)' = Counted(w) \cup {m}
      BY <1>0, <2>2, ArriveCounts
    <3> QED BY <2>1, <3>1, <3>2, <3>3, ReferenceAdd
  <2>3. CASE w \notin Open(m)
    <3>1. sliding'[w] = sliding[w] /\ w \in DOMAIN sliding
      BY <1>2, <1>3, <2>3 DEF Arrive, Accumulated, Open
    <3>2. Counted(w)' = Counted(w)
      BY <1>0, <2>3, ArriveCounts
    <3> QED BY <1>0, <3>1, <3>2 DEF SlidingExact
  <2> QED BY <2>2, <2>3
<1>4. ASSUME NEW r \in SlidingResults
      PROVE  /\ r.acc = Reference(Counted(r.window_start)')
             /\ r.window_end = r.window_start + Size /\ r.window_end <= watermark + 1
  <2>1. /\ r.acc = Reference(Counted(r.window_start))
        /\ r.window_end = r.window_start + Size /\ r.window_end <= watermark + 1
    BY <1>0 DEF SlidingExact
  <2>2. Fired(r.window_start)
    <3>1. r.window_start \in Int /\ watermark \in Int /\ Size \in Nat
      BY <1>0, Parameters DEF TypeOK, SlidingResults
    <3> QED BY <2>1, <3>1 DEF Fired
  <2>3. Counted(r.window_start)' = Counted(r.window_start)
    BY <1>0, <2>2, ArriveCounts DEF Open
  <2> QED BY <2>1, <2>3
<1>5. ASSUME NEW n \in arrived', NEW w \in Starts(n)
      PROVE  <<n, w>> \in late' \/ w \in DOMAIN sliding' \cup {r.window_start : r \in SlidingResults'}
  <2>1. CASE n = m
    <3>1. CASE Fired(w)
      BY <1>5, <2>1, <3>1 DEF Arrive
    <3>2. CASE ~Fired(w)
      BY <1>2, <1>5, <2>1, <3>2 DEF Open
    <3> QED BY <3>1, <3>2
  <2>2. CASE n # m
    <3>1. n \in arrived /\ late \subseteq late'
      BY <2>2 DEF Arrive
    <3> QED BY <1>0, <1>1, <1>2, <3>1 DEF SlidingExact
  <2> QED BY <2>1, <2>2
<1>6. \A r, q \in SlidingResults : r.window_start = q.window_start => r = q
  BY <1>0 DEF SlidingExact
<1>7. \A n : Starts(n)' = Starts(n)
  BY DEF Starts
<1>8. \A r \in SlidingResults' : r.acc = Reference(Counted(r.window_start))'
  BY <1>1, <1>4, ReferenceConstant
<1>9. \A w \in DOMAIN sliding' : sliding'[w] = Reference(Counted(w))'
  BY <1>3, ReferenceConstant
<1> QED BY <1>1, <1>4, <1>5, <1>6, <1>7, <1>8, <1>9 DEF SlidingExact

(* What the results and the open windows count.                            *)
Samples(S) == Total([r \in S |-> r.acc.sample_count], S)
OpenSamples(windows) == Total([w \in DOMAIN windows |-> windows[w].sample_count], DOMAIN windows)

LEMMA CountedSamples ==
  TumblingExact <=>
    /\ \A r, q \in TumblingResults :
         r = q \/ r.window_end <= q.window_start \/ q.window_end <= r.window_start
    /\ \A r \in TumblingResults : \A w \in DOMAIN tumbling : r.window_end <= w
    /\ Samples(TumblingResults) + OpenSamples(tumbling) = Cardinality(arrived)
BY DEF TumblingExact, Samples, OpenSamples

LEMMA NoOpenSamples ==
  ASSUME NEW windows, DOMAIN windows = {}
  PROVE  OpenSamples(windows) = 0
<1> DEFINE f == [w \in DOMAIN windows |-> windows[w].sample_count]
<1>1. Total(f, {}) = 0
  BY TotalEmpty
<1> QED BY <1>1 DEF OpenSamples

LEMMA OneOpenSamples ==
  ASSUME NEW windows, NEW start, DOMAIN windows = {start}, windows[start].sample_count \in Int
  PROVE  OpenSamples(windows) = windows[start].sample_count
<1> DEFINE f == [w \in DOMAIN windows |-> windows[w].sample_count]
<1>1. f[start] = windows[start].sample_count
  OBVIOUS
<1>2. Total(f, {start}) = f[start]
  <2> HIDE DEF f
  <2> QED BY <1>1, TotalOfOne
<1> QED BY <1>1, <1>2 DEF OpenSamples

LEMMA SamplesTypes ==
  ASSUME TypeOK
  PROVE  /\ IsFiniteSet(TumblingResults) /\ Samples(TumblingResults) \in Int
         /\ TumblingStart \in Nat /\ clock \in Nat /\ Cardinality(arrived) \in Nat
         /\ \A w \in DOMAIN tumbling : tumbling[w].sample_count \in Nat
<1>1. IsFiniteSet(TumblingResults)
  <2>1. TumblingResults \in SUBSET results /\ IsFiniteSet(results)
    BY DEF TumblingResults, TypeOK
  <2> QED BY <2>1, FS_Subset
<1>2. Samples(TumblingResults) \in Int
  <2> DEFINE f == [r \in TumblingResults |-> r.acc.sample_count]
  <2>1. IntegerOn(f, TumblingResults)
    BY DEF IntegerOn, TypeOK, TumblingResults, Accumulators
  <2>2. Total(f, TumblingResults) \in Int
    <3> HIDE DEF f
    <3> QED BY <1>1, <2>1, TotalOfPart
  <2> QED BY <2>2 DEF Samples
<1>3. clock \in Nat /\ TumblingStart \in Nat
  <2>1. clock \in Nat
    BY Parameters DEF TypeOK
  <2> QED BY <2>1, NextStart, Parameters DEF TumblingStart
<1>4. Cardinality(arrived) \in Nat
  BY MetricsFinite DEF TypeOK
<1> QED BY <1>1, <1>2, <1>3, <1>4 DEF TypeOK, Accumulators

(* The metric counts in the one tumbling window that is open.              *)
LEMMA ArriveTumbling ==
  ASSUME IInv, NEW m \in Metrics, Arrive(m)
  PROVE  TumblingExact'
<1>0. TypeOK /\ OpenAhead /\ TumblingExact
  BY DEF IInv
<1> DEFINE T == TumblingStart
<1>1. TumblingResults' = TumblingResults
  BY DEF Arrive, TumblingResults
<1>2. DOMAIN tumbling \subseteq {T} /\ DOMAIN tumbling' = {T}
  BY <1>0 DEF OpenAhead, Arrive, Accumulated
<1> DEFINE before == IF T \in DOMAIN tumbling THEN tumbling[T].sample_count ELSE 0
<1>3. OpenSamples(tumbling) = before /\ before \in Nat
  <2>1. CASE T \in DOMAIN tumbling
    <3>1. DOMAIN tumbling = {T} /\ tumbling[T].sample_count \in Nat
      BY <1>0, <1>2, <2>1, SamplesTypes
    <3>2. OpenSamples(tumbling) = tumbling[T].sample_count
      BY <3>1, OneOpenSamples
    <3> QED BY <2>1, <3>1, <3>2
  <2>2. CASE T \notin DOMAIN tumbling
    <3>1. DOMAIN tumbling = {}
      BY <1>2, <2>2
    <3> QED BY <2>2, <3>1, NoOpenSamples
  <2> QED BY <2>1, <2>2
<1>4. tumbling'[T].sample_count = before + 1
  <2> DEFINE acc == IF T \in DOMAIN tumbling THEN tumbling[T] ELSE CreateAccumulator
  <2>1. tumbling'[T] = Add(m, acc)
    BY DEF Arrive, Accumulated
  <2>2. acc.sample_count = before
    BY DEF CreateAccumulator
  <2> QED BY <2>1, <2>2 DEF Add
<1>5. OpenSamples(tumbling') = before + 1
  <2>1. tumbling'[T].sample_count \in Int
    BY <1>3, <1>4
  <2> HIDE DEF before, T
  <2> QED BY <1>2, <1>4, <2>1, OneOpenSamples
<1>6. Cardinality(arrived') = Cardinality(arrived) + 1
  <2>1. IsFiniteSet(arrived) /\ m \notin arrived /\ arrived' = arrived \cup {m}
    BY <1>0, MetricsFinite DEF TypeOK, Arrive
  <2> QED BY <2>1, FS_AddElement
<1>7. Samples(TumblingResults) + OpenSamples(tumbling') = Cardinality(arrived')
  <2>1. Samples(TumblingResults) + before = Cardinality(arrived)
    BY <1>0, <1>3, CountedSamples
  <2>2. Samples(TumblingResults) \in Int /\ Cardinality(arrived) \in Nat
    BY <1>0, SamplesTypes
  <2> HIDE DEF before
  <2> QED BY <1>3, <1>5, <1>6, <2>1, <2>2
<1>8. \A r \in TumblingResults : r.window_end <= T
  BY <1>0 DEF OpenAhead
<1>9. Samples(TumblingResults)' = Samples(TumblingResults) /\ OpenSamples(tumbling)' = OpenSamples(tumbling')
  BY <1>1 DEF Samples, OpenSamples, Total, MapThenSumSet, MapThenFoldSet
<1>10. \A r, q \in TumblingResults :
         r = q \/ r.window_end <= q.window_start \/ q.window_end <= r.window_start
  BY <1>0, CountedSamples
<1> QED BY <1>1, <1>2, <1>7, <1>8, <1>9, <1>10 DEF TumblingExact, Samples, OpenSamples

LEMMA MergeHolds ==
  ASSUME TypeOK
  PROVE  MergeExact
BY ReferenceMerge DEF MergeExact, TypeOK

LEMMA ArriveIInv ==
  ASSUME IInv, NEW m \in Metrics, Arrive(m)
  PROVE  IInv'
<1>1. TypeOK' /\ OpenAhead' /\ WatermarkBehind' /\ AveragesOrdered'
  BY ArriveTypes
<1>2. SlidingExact' /\ TumblingExact'
  BY ArriveSliding, ArriveTumbling
<1>3. MergeExact'
  BY <1>1, MergeHolds, PTL
<1> QED BY <1>1, <1>2, <1>3 DEF IInv

-----------------------------------------------------------------------------
(* The watermark advances.                                                 *)

Due(t) == {w \in DOMAIN sliding : w + Size - 1 <= t}

FiredAt(t) == [i \in 1 .. Cardinality(Due(t)) |->
                 Result("5m_sliding", InOrder(Due(t))[i], Size, sliding[InOrder(Due(t))[i]])]

AdvanceTo(t) ==
  /\ arrived # {} /\ t \in (watermark + 1) .. Horizon
  /\ watermark' = t
  /\ results' = results \cup ToSet(FiredAt(t))
  /\ averages' = averages \o FiredAt(t)
  /\ sliding' = Restrict(sliding, DOMAIN sliding \ Due(t))
  /\ UNCHANGED <<arrived, clock, tumbling, avgSpread, compared, alerts, late>>

LEMMA AdvanceIs == AdvanceWatermark => \E t \in (watermark + 1) .. Horizon : AdvanceTo(t)
BY DEF AdvanceWatermark, AdvanceTo, Due, FiredAt

LEMMA HorizonType ==
  ASSUME TypeOK, arrived # {}
  PROVE  Horizon \in Int /\ \E m \in arrived : Horizon = At[m] - Lateness - 1
<1>1. PICK m \in arrived : Latest = At[m]
  BY LatestIs
<1>2. At[m] \in Nat /\ Lateness \in Nat
  BY Parameters DEF TypeOK
<1> QED BY <1>1, <1>2 DEF Horizon

(* The open sliding windows are finitely many, for they are those of the   *)
(* metrics.                                                                *)
LEMMA SlidingFinite ==
  ASSUME TypeOK, OpenAhead
  PROVE  IsFiniteSet(DOMAIN sliding)
<1> DEFINE bounds == UNION {Starts(m) : m \in arrived}
<1> DEFINE all == [m \in arrived |-> Starts(m)]
<1>1. IsFiniteSet(arrived) /\ arrived \in SUBSET Metrics
  BY MetricsFinite DEF TypeOK
<1>2. IsFiniteSet({Starts(m) : m \in arrived})
  <2>1. all \in Surjection(arrived, {Starts(m) : m \in arrived})
    BY DEF Surjection
  <2> QED BY <1>1, <2>1, FS_Surjection
<1>3. IsFiniteSet(bounds)
  <2>1. \A T \in {Starts(m) : m \in arrived} : IsFiniteSet(T)
    BY <1>1, StartsFinite
  <2> QED BY <1>2, <2>1, FS_UNION
<1>4. DOMAIN sliding \in SUBSET bounds
  BY DEF OpenAhead
<1> HIDE DEF bounds
<1> QED BY <1>3, <1>4, FS_Subset

(* What fires: the due windows, each once, in the order of their ends.     *)
LEMMA WhatFires ==
  ASSUME TypeOK, OpenAhead, NEW t \in Int
  PROVE  LET n == Cardinality(Due(t))
             fired == FiredAt(t)
         IN  /\ n \in Nat /\ fired \in [1 .. n -> ToSet(fired)] /\ DOMAIN fired = 1 .. n
             /\ IsFiniteSet(ToSet(fired))
             /\ \A i \in 1 .. n : \E w \in Due(t) : fired[i] = Result("5m_sliding", w, Size, sliding[w])
             /\ \A i, j \in 1 .. n : i < j => fired[i].window_start < fired[j].window_start
             /\ \A w \in Due(t) : \E i \in 1 .. n : fired[i].window_start = w
<1> DEFINE n == Cardinality(Due(t))
<1> DEFINE fired == FiredAt(t)
<1> DEFINE order == InOrder(Due(t))
<1>1. Due(t) \in SUBSET DOMAIN sliding /\ Due(t) \in SUBSET Int
  BY DEF Due, TypeOK
<1>2. IsFiniteSet(Due(t)) /\ n \in Nat
  BY <1>1, SlidingFinite, FS_Subset, FS_CardinalityType
<1>3. /\ order \in [1 .. n -> Due(t)]
      /\ \A i, j \in 1 .. n : i < j => order[i] < order[j]
      /\ \A w \in Due(t) : \E i \in 1 .. n : order[i] = w
  BY <1>1, <1>2, InOrderSorts
<1>4. fired = [i \in 1 .. n |-> Result("5m_sliding", order[i], Size, sliding[order[i]])]
  BY DEF FiredAt
<1> HIDE DEF n, fired, order
<1>5. \A i \in 1 .. n : /\ fired[i] = Result("5m_sliding", order[i], Size, sliding[order[i]])
                        /\ order[i] \in Due(t) /\ fired[i].window_start = order[i]
  BY <1>3, <1>4 DEF Result
<1>6. DOMAIN fired = 1 .. n
  BY <1>4
<1>7. fired \in Surjection(1 .. n, ToSet(fired))
  BY <1>4, <1>6 DEF Surjection, ToSet
<1>8. IsFiniteSet(ToSet(fired))
  <2>1. IsFiniteSet(1 .. n)
    BY <1>2, FS_Interval
  <2> QED BY <1>7, <2>1, FS_Surjection
<1>9. fired \in [1 .. n -> ToSet(fired)]
  BY <1>7 DEF Surjection
<1>10. \A i, j \in 1 .. n : i < j => fired[i].window_start < fired[j].window_start
  BY <1>3, <1>5
<1>11. \A w \in Due(t) : \E i \in 1 .. n : fired[i].window_start = w
  BY <1>3, <1>5
<1> QED BY <1>2, <1>5, <1>6, <1>8, <1>9, <1>10, <1>11 DEF n, fired

LEMMA FiredResults ==
  ASSUME IInv, NEW t \in Int, watermark < t
  PROVE  \A r \in ToSet(FiredAt(t)) :
           /\ r \in [window_type : {"5m_sliding"}, window_start : Int, window_end : Int,
                     acc : Accumulators]
           /\ r.window_start \in Due(t) /\ r.acc = sliding[r.window_start]
           /\ r.window_end = r.window_start + Size
           /\ r.window_end <= t + 1 /\ watermark + 1 < r.window_end
<1> SUFFICES ASSUME NEW r \in ToSet(FiredAt(t))
             PROVE  /\ r \in [window_type : {"5m_sliding"}, window_start : Int, window_end : Int,
                              acc : Accumulators]
                    /\ r.window_start \in Due(t) /\ r.acc = sliding[r.window_start]
                    /\ r.window_end = r.window_start + Size
                    /\ r.window_end <= t + 1 /\ watermark + 1 < r.window_end
  OBVIOUS
<1>1. TypeOK /\ OpenAhead
  BY DEF IInv
<1>2. PICK w \in Due(t) : r = Result("5m_sliding", w, Size, sliding[w])
  <2>1. PICK i \in DOMAIN FiredAt(t) : r = FiredAt(t)[i]
    BY DEF ToSet
  <2> QED BY <1>1, <2>1, WhatFires
<1>3. /\ w \in DOMAIN sliding /\ w \in Int /\ sliding[w] \in Accumulators
      /\ Size \in Nat /\ watermark \in Int
  BY <1>1, Parameters DEF Due, TypeOK
<1>4. w + Size - 1 <= t /\ ~(w + Size - 1 <= watermark)
  BY <1>1, <1>3 DEF Due, OpenAhead, Fired
<1>5. r = [window_type |-> "5m_sliding", window_start |-> w, window_end |-> w + Size,
           acc |-> sliding[w]]
  BY <1>2 DEF Result
<1> QED BY <1>3, <1>4, <1>5

LEMMA AdvanceSliding ==
  ASSUME IInv, NEW t \in Int, watermark < t, AdvanceTo(t)
  PROVE  SlidingExact' /\ SlidingResults' = SlidingResults \cup ToSet(FiredAt(t))
<1> DEFINE fired == FiredAt(t)
<1> DEFINE new == ToSet(FiredAt(t))
<1>0. TypeOK /\ SlidingExact /\ OpenAhead
  BY DEF IInv
<1>1. /\ arrived' = arrived /\ late' = late /\ watermark' = t
      /\ DOMAIN sliding' = DOMAIN sliding \ Due(t)
      /\ \A w \in DOMAIN sliding' : sliding'[w] = sliding[w]
  BY DEF AdvanceTo, Restrict
<1>2. \A r \in new :
        /\ r \in [window_type : {"5m_sliding"}, window_start : Int, window_end : Int,
                  acc : Accumulators]
        /\ r.window_start \in Due(t) /\ r.acc = sliding[r.window_start]
        /\ r.window_end = r.window_start + Size
        /\ r.window_end <= t + 1 /\ watermark + 1 < r.window_end
  BY FiredResults
<1>3. SlidingResults' = SlidingResults \cup new
  BY <1>2 DEF AdvanceTo, SlidingResults
<1>4. \A w : Counted(w)' = Counted(w) /\ Starts(w)' = Starts(w)
  BY <1>1 DEF Counted, Starts
<1> HIDE DEF new, fired
<1>5. \A w \in DOMAIN sliding' : sliding'[w] = Reference(Counted(w))'
  BY <1>0, <1>1, <1>4, ReferenceConstant DEF SlidingExact
<1>6. ASSUME NEW r \in SlidingResults \cup new
      PROVE  /\ r.acc = Reference(Counted(r.window_start))'
             /\ r.window_end = r.window_start + Size /\ r.window_end <= t + 1
  <2>0. Reference(Counted(r.window_start))' = Reference(Counted(r.window_start))
    BY <1>4, ReferenceConstant
  <2>1. CASE r \in SlidingResults
    <3>1. /\ r.acc = Reference(Counted(r.window_start))
          /\ r.window_end = r.window_start + Size /\ r.window_end <= watermark + 1
      BY <1>0, <2>1 DEF SlidingExact
    <3>2. r.window_end \in Int /\ watermark \in Int
      BY <1>0, <2>1 DEF TypeOK, SlidingResults
    <3> QED BY <2>0, <3>1, <3>2
  <2>2. CASE r \in new
    <3>1. sliding[r.window_start] = Reference(Counted(r.window_start))
      BY <1>0, <1>2, <2>2 DEF SlidingExact, Due
    <3> QED BY <1>2, <2>0, <2>2, <3>1
  <2> QED BY <2>1, <2>2
<1>7. ASSUME NEW r \in SlidingResults \cup new, NEW q \in SlidingResults \cup new,
             r.window_start = q.window_start
      PROVE  r = q
  <2>1. ASSUME NEW a \in SlidingResults, NEW b \in new, a.window_start = b.window_start
        PROVE  FALSE
    <3>1. a.window_end = a.window_start + Size /\ a.window_end <= watermark + 1
      BY <1>0 DEF SlidingExact
    <3>2. b.window_end = b.window_start + Size /\ watermark + 1 < b.window_end
      BY <1>2
    <3>3. a.window_end = b.window_end /\ a.window_end \in Int /\ watermark \in Int
      BY <1>0, <2>1, <3>1, <3>2 DEF TypeOK, SlidingResults
    <3> QED BY <3>1, <3>2, <3>3
  <2>2. CASE r \in SlidingResults /\ q \in SlidingResults
    BY <1>0, <1>7, <2>2 DEF SlidingExact
  <2>3. CASE r \in new /\ q \in new
    BY <1>2, <1>7, <2>3
  <2> QED BY <1>7, <2>1, <2>2, <2>3
<1>8. ASSUME NEW m \in arrived', NEW w \in Starts(m)
      PROVE  <<m, w>> \in late' \/ w \in DOMAIN sliding' \cup {r.window_start : r \in SlidingResults'}
  <2>1. \/ <<m, w>> \in late \/ w \in DOMAIN sliding
        \/ \E r \in SlidingResults : r.window_start = w
    BY <1>0, <1>1 DEF SlidingExact
  <2>2. CASE w \in Due(t)
    <3>1. PICK i \in 1 .. Cardinality(Due(t)) : FiredAt(t)[i].window_start = w
      BY <1>0, <2>2, WhatFires
    <3>2. FiredAt(t)[i] \in new
      BY <1>0, WhatFires DEF new
    <3> QED BY <1>3, <3>1, <3>2
  <2>3. CASE w \notin Due(t)
    BY <1>1, <1>3, <2>1, <2>3
  <2> QED BY <2>2, <2>3
<1>9. \A m \in arrived' : \A w \in Starts(m)' :
        <<m, w>> \in late' \/ w \in DOMAIN sliding' \cup {r.window_start : r \in SlidingResults'}
  BY <1>4, <1>8
<1>10. \A r \in SlidingResults' :
         /\ r.acc = Reference(Counted(r.window_start))'
         /\ r.window_end = r.window_start + Size /\ r.window_end <= watermark' + 1
  BY <1>1, <1>3, <1>6
<1>11. \A r, q \in SlidingResults' : r.window_start = q.window_start => r = q
  BY <1>3, <1>7
<1>12. SlidingExact'
  BY <1>5, <1>9, <1>10, <1>11 DEF SlidingExact
<1> QED BY <1>3, <1>12 DEF new

(* Where the actions leave the tumbling windows alone, they stay exact.    *)
LEMMA TumblingStays ==
  ASSUME TumblingExact, TumblingResults' = TumblingResults, tumbling' = tumbling,
         arrived' = arrived
  PROVE  TumblingExact'
<1>1. /\ \A r, q \in TumblingResults :
           r = q \/ r.window_end <= q.window_start \/ q.window_end <= r.window_start
      /\ \A r \in TumblingResults : \A w \in DOMAIN tumbling : r.window_end <= w
      /\ Samples(TumblingResults) + OpenSamples(tumbling) = Cardinality(arrived)
  BY CountedSamples
<1>2. Samples(TumblingResults)' = Samples(TumblingResults) /\ OpenSamples(tumbling)' = OpenSamples(tumbling)
  BY DEF Samples, OpenSamples, Total, MapThenSumSet, MapThenFoldSet
<1> QED BY <1>1, <1>2 DEF TumblingExact, Samples, OpenSamples

LEMMA AdvanceIInv ==
  ASSUME IInv, NEW t \in (watermark + 1) .. Horizon, AdvanceTo(t)
  PROVE  IInv'
<1> DEFINE fired == FiredAt(t)
<1> DEFINE new == ToSet(FiredAt(t))
<1> DEFINE n == Cardinality(Due(t))
<1>0. /\ TypeOK /\ SlidingExact /\ OpenAhead /\ WatermarkBehind /\ AveragesOrdered
      /\ TumblingExact
  BY DEF IInv
<1>1. t \in Int /\ watermark \in Int /\ watermark < t /\ t <= Horizon
  <2>1. watermark \in Int /\ Horizon \in Int
    BY <1>0, HorizonType DEF TypeOK, AdvanceTo
  <2> QED BY <2>1
<1>2. /\ arrived' = arrived /\ late' = late /\ watermark' = t /\ clock' = clock
      /\ tumbling' = tumbling /\ avgSpread' = avgSpread /\ compared' = compared
      /\ alerts' = alerts /\ results' = results \cup new /\ averages' = averages \o fired
  BY DEF AdvanceTo
<1>3. /\ DOMAIN sliding' = DOMAIN sliding \ Due(t)
      /\ \A w \in DOMAIN sliding' : sliding'[w] = sliding[w]
  BY DEF AdvanceTo, Restrict
<1>4. SlidingExact' /\ SlidingResults' = SlidingResults \cup new
  BY <1>1, AdvanceSliding
<1>5. \A r \in new :
        /\ r \in [window_type : {"5m_sliding"}, window_start : Int, window_end : Int,
                  acc : Accumulators]
        /\ r.window_end = r.window_start + Size
        /\ watermark + 1 < r.window_end
  BY <1>1, FiredResults
<1>6. TumblingResults' = TumblingResults
  BY <1>2, <1>5 DEF TumblingResults
<1>7. /\ n \in Nat /\ DOMAIN fired = 1 .. n /\ IsFiniteSet(new) /\ fired \in [1 .. n -> new]
      /\ \A i, j \in 1 .. n : i < j => fired[i].window_start < fired[j].window_start
  BY <1>0, <1>1, WhatFires
<1> HIDE DEF n, new, fired
<1>8. fired \in Seq(SlidingResults') /\ averages \in Seq(SlidingResults') /\ Len(fired) = n
  <2>1. fired \in Seq(new) /\ Len(fired) = n
    BY <1>7
  <2>2. averages \in Seq(SlidingResults)
    BY <1>0 DEF TypeOK
  <2>3. averages \in Seq(SlidingResults')
    BY <1>4, <2>2
  <2>4. fired \in Seq(SlidingResults')
    BY <1>4, <2>1
  <2> QED BY <2>1, <2>3, <2>4
<1>9. TypeOK'
  <2>1. DOMAIN sliding' \subseteq Int /\ \A w \in DOMAIN sliding' : sliding'[w] \in Accumulators
    BY <1>0, <1>3 DEF TypeOK
  <2>2. IsFiniteSet(results')
    BY <1>0, <1>2, <1>7, FS_Union DEF TypeOK
  <2>3. results' \subseteq [window_type : {"5m_sliding", "1m_tumbling"},
                            window_start : Int, window_end : Int, acc : Accumulators]
    <3>1. new \subseteq [window_type : {"5m_sliding", "1m_tumbling"},
                         window_start : Int, window_end : Int, acc : Accumulators]
      BY <1>5
    <3> QED BY <1>0, <1>2, <3>1 DEF TypeOK
  <2>4. averages' \in Seq(SlidingResults')
    BY <1>2, <1>8
  <2>5. avgSpread' \in SlidingResults' \cup {None} /\ alerts' \subseteq compared' \X SlidingResults'
    BY <1>0, <1>2, <1>4 DEF TypeOK
  <2> QED BY <1>0, <1>1, <1>2, <2>1, <2>2, <2>3, <2>4, <2>5 DEF TypeOK
<1>10. TumblingExact'
  BY <1>0, <1>2, <1>6, TumblingStays
<1>11. OpenAhead'
  <2>1. ASSUME NEW w \in DOMAIN sliding'
        PROVE  ~Fired(w)' /\ \E m \in arrived' : w \in Starts(m)'
    <3>1. w \in Int /\ Size \in Nat /\ w \notin Due(t) /\ w \in DOMAIN sliding
      BY <1>0, <1>3, Parameters DEF TypeOK
    <3>2. ~(w + Size - 1 <= t)
      BY <3>1 DEF Due
    <3> QED BY <1>0, <1>2, <3>1, <3>2 DEF OpenAhead, Fired, Starts
  <2>2. TumblingStart' = TumblingStart
    BY <1>2 DEF TumblingStart
  <2> QED BY <1>0, <1>2, <1>6, <2>1, <2>2 DEF OpenAhead
<1>12. WatermarkBehind'
  <2>1. PICK m \in arrived : Horizon = At[m] - Lateness - 1
    BY <1>0, HorizonType DEF AdvanceTo
  <2> QED BY <1>1, <1>2, <2>1 DEF WatermarkBehind
<1>13. \A i \in DOMAIN averages : averages[i].window_end <= watermark + 1
  <2>1. \A i \in DOMAIN averages : averages[i] \in SlidingResults
    BY <1>0 DEF TypeOK
  <2> QED BY <1>0, <2>1 DEF SlidingExact
<1>14. \A i \in 1 .. n : /\ fired[i] \in new /\ watermark + 1 < fired[i].window_end
                        /\ fired[i].window_start \in Int
                        /\ fired[i].window_end = fired[i].window_start + Size
  BY <1>5, <1>7
<1>15. \A i \in DOMAIN averages : averages[i].window_end \in Int
  BY <1>0 DEF TypeOK, SlidingResults
<1> DEFINE k == Len(averages)
<1>16. /\ k \in Nat /\ DOMAIN averages = 1 .. k /\ DOMAIN averages' = 1 .. k + n
       /\ \A i \in 1 .. k : averages'[i] = averages[i]
       /\ \A i \in 1 .. n : averages'[k + i] = fired[i]
       /\ \A i \in 1 .. k + n : i \in 1 .. k \/ (i - k \in 1 .. n /\ averages'[i] = fired[i - k])
  <2>1. k \in Nat /\ DOMAIN averages = 1 .. k
    BY <1>8
  <2>2. DOMAIN averages' = 1 .. k + n
    <3>1. \A S : \A b, c \in Seq(S) : DOMAIN (b \o c) = 1 .. Len(b) + Len(c)
      OBVIOUS
    <3> QED BY <1>2, <1>8, <3>1
  <2>3. \A i \in 1 .. k : averages'[i] = averages[i]
    BY <1>2, <1>7, <1>8
  <2>4. \A i \in 1 .. n : averages'[k + i] = fired[i]
    BY <1>2, <1>7, <1>8
  <2>5. ASSUME NEW i \in 1 .. k + n, i \notin 1 .. k PROVE i - k \in 1 .. n /\ averages'[i] = fired[i - k]
    <3>1. i - k \in 1 .. n /\ i = k + (i - k)
      BY <1>7, <2>1, <2>5
    <3> QED BY <2>4, <3>1
  <2> QED BY <2>1, <2>2, <2>3, <2>4, <2>5
<1> HIDE DEF k
<1>17. AveragesOrdered'
  <2>1. ASSUME NEW i \in 1 .. k + n, NEW j \in 1 .. k + n, i < j
        PROVE  averages'[i].window_end < averages'[j].window_end
    <3>1. CASE j \in 1 .. k
      <4>1. i \in 1 .. k
        BY <1>16, <2>1, <3>1
      <4> QED BY <1>0, <1>16, <2>1, <3>1, <4>1 DEF AveragesOrdered
    <3>2. CASE i \in 1 .. k /\ j \notin 1 .. k
      <4>1. averages'[i] = averages[i] /\ averages[i].window_end <= watermark + 1 /\ averages[i].window_end \in Int
        BY <1>13, <1>15, <1>16, <3>2
      <4>2. j - k \in 1 .. n /\ averages'[j] = fired[j - k]
        BY <1>16, <3>2
      <4>3. watermark + 1 < fired[j - k].window_end /\ fired[j - k].window_end \in Int
        BY <1>14, <4>2, Parameters
      <4> QED BY <1>1, <4>1, <4>2, <4>3
    <3>3. CASE i \notin 1 .. k /\ j \notin 1 .. k
      <4>1. /\ i - k \in 1 .. n /\ averages'[i] = fired[i - k]
            /\ j - k \in 1 .. n /\ averages'[j] = fired[j - k]
        BY <1>16, <3>3
      <4>2. i - k < j - k
        BY <1>7, <1>16, <2>1
      <4>3. fired[i - k].window_start < fired[j - k].window_start
        BY <1>7, <4>1, <4>2
      <4> QED BY <1>14, <4>1, <4>3, Parameters
    <3> QED BY <3>1, <3>2, <3>3
  <2>2. ASSUME avgSpread # None, NEW j \in 1 .. k + n
        PROVE  avgSpread.window_end < averages'[j].window_end
    <3>1. CASE j \in 1 .. k
      BY <1>0, <1>16, <2>2, <3>1 DEF AveragesOrdered
    <3>2. CASE j \notin 1 .. k
      <4>1. avgSpread.window_end <= watermark + 1 /\ avgSpread.window_end \in Int
        BY <1>0, <2>2 DEF TypeOK, SlidingExact, SlidingResults
      <4>2. j - k \in 1 .. n /\ averages'[j] = fired[j - k]
        BY <1>16, <3>2
      <4>3. watermark + 1 < fired[j - k].window_end /\ fired[j - k].window_end \in Int
        BY <1>14, <4>2, Parameters
      <4> QED BY <1>1, <4>1, <4>2, <4>3
    <3> QED BY <3>1, <3>2
  <2> QED BY <1>2, <1>16, <2>1, <2>2 DEF AveragesOrdered
<1>18. MergeExact'
  BY <1>9, MergeHolds, PTL
<1> QED BY <1>4, <1>9, <1>10, <1>11, <1>12, <1>17, <1>18 DEF IInv

-----------------------------------------------------------------------------
(* Processing time passes.                                                 *)

TumblingDue == {w \in DOMAIN tumbling : w + Length <= clock + 1}
Ended == {Result("1m_tumbling", w, Length, tumbling[w]) : w \in TumblingDue}

LEMMA TickIs ==
  Tick => /\ clock < MaxClock /\ clock' = clock + 1
          /\ results' = results \cup Ended
          /\ DOMAIN tumbling' = DOMAIN tumbling \ TumblingDue
          /\ \A w \in DOMAIN tumbling' : tumbling'[w] = tumbling[w]
          /\ UNCHANGED <<arrived, watermark, sliding, averages, avgSpread, compared, alerts, late>>
<1> SUFFICES ASSUME Tick
             PROVE  /\ clock < MaxClock /\ clock' = clock + 1
                    /\ results' = results \cup Ended
                    /\ DOMAIN tumbling' = DOMAIN tumbling \ TumblingDue
                    /\ \A w \in DOMAIN tumbling' : tumbling'[w] = tumbling[w]
                    /\ UNCHANGED <<arrived, watermark, sliding, averages, avgSpread, compared,
                                   alerts, late>>
  OBVIOUS
<1>1. clock' = clock + 1
  BY DEF Tick
<1>2. {w \in DOMAIN tumbling : w + Length <= clock'} = TumblingDue
  BY <1>1 DEF TumblingDue
<1>3. results' = results \cup Ended /\ tumbling' = Restrict(tumbling, DOMAIN tumbling \ TumblingDue)
  BY <1>2 DEF Tick, Ended
<1> QED BY <1>1, <1>3 DEF Tick, Restrict

(* Where nothing is due the windows stay; else the one open window ends,   *)
(* and the next one starts where it ends.                                  *)
LEMMA TickEnds ==
  ASSUME IInv, Tick
  PROVE  LET T == TumblingStart
             r == Result("1m_tumbling", T, Length, tumbling[T])
         IN  /\ T \in Nat /\ TumblingStart' \in Nat /\ T <= TumblingStart'
             /\ \/ TumblingDue = {} /\ Ended = {} /\ DOMAIN tumbling' \subseteq {TumblingStart'}
                \/ /\ TumblingDue = {T} /\ Ended = {r} /\ DOMAIN tumbling = {T}
                   /\ DOMAIN tumbling' = {} /\ TumblingStart' = T + Length
<1> DEFINE T == TumblingStart
<1>1. TypeOK /\ OpenAhead
  BY DEF IInv
<1>2. clock \in Nat /\ clock' = clock + 1 /\ Length \in Nat \ {0}
  BY <1>1, TickIs, SamplesTypes, Parameters
<1>3. /\ T \in Nat /\ T <= clock /\ clock < T + Length
      /\ TumblingStart' = IF clock + 1 < T + Length THEN T ELSE T + Length
  <2>1. TumblingStart' = (clock + 1) - ((clock + 1) % Length)
    BY <1>2 DEF TumblingStart
  <2> QED BY <1>2, <2>1, NextStart DEF TumblingStart
<1>4. DOMAIN tumbling \subseteq {T}
  BY <1>1 DEF OpenAhead
<1> HIDE DEF T
<1>5. CASE T \in DOMAIN tumbling /\ T + Length <= clock + 1
  <2>1. DOMAIN tumbling = {T} /\ TumblingDue = {T}
    BY <1>4, <1>5 DEF TumblingDue
  <2>2. Ended = {Result("1m_tumbling", T, Length, tumbling[T])}
    BY <2>1 DEF Ended
  <2>3. DOMAIN tumbling' = {}
    BY <2>1, TickIs
  <2>4. TumblingStart' = T + Length
    BY <1>2, <1>3, <1>5
  <2> QED BY <1>2, <1>3, <2>1, <2>2, <2>3, <2>4 DEF T
<1>6. CASE ~(T \in DOMAIN tumbling /\ T + Length <= clock + 1)
  <2>1. TumblingDue = {}
    BY <1>4, <1>6 DEF TumblingDue
  <2>2. Ended = {}
    BY <2>1 DEF Ended
  <2>3. DOMAIN tumbling' = DOMAIN tumbling
    BY <2>1, TickIs
  <2>4. DOMAIN tumbling \subseteq {TumblingStart'}
    BY <1>2, <1>3, <1>4, <1>6
  <2>5. TumblingStart' \in Nat /\ T <= TumblingStart'
    BY <1>2, <1>3
  <2> QED BY <1>3, <2>1, <2>2, <2>3, <2>4, <2>5 DEF T
<1> QED BY <1>5, <1>6

LEMMA TickResults ==
  ASSUME IInv, Tick
  PROVE  /\ SlidingResults' = SlidingResults
         /\ TumblingResults' = TumblingResults \cup Ended
<1>1. results' = results \cup Ended
  BY TickIs
<1>2. \A r \in Ended : r.window_type = "1m_tumbling"
  BY DEF Ended, Result
<1> QED BY <1>1, <1>2 DEF SlidingResults, TumblingResults

LEMMA TickTumbling ==
  ASSUME IInv, Tick
  PROVE  TumblingExact' /\ \A r \in TumblingResults' :
                              r.window_end = r.window_start + Length /\ r.window_end <= TumblingStart'
<1> DEFINE T == TumblingStart
<1> DEFINE r0 == Result("1m_tumbling", T, Length, tumbling[T])
<1>0. TypeOK /\ OpenAhead /\ TumblingExact
  BY DEF IInv
<1>1. /\ \A r, q \in TumblingResults :
           r = q \/ r.window_end <= q.window_start \/ q.window_end <= r.window_start
      /\ \A r \in TumblingResults : \A w \in DOMAIN tumbling : r.window_end <= w
      /\ Samples(TumblingResults) + OpenSamples(tumbling) = Cardinality(arrived)
  BY <1>0, CountedSamples
<1>2. \A r \in TumblingResults : /\ r.window_end = r.window_start + Length /\ r.window_end <= T
                                 /\ r.window_end \in Int /\ r.window_start \in Int
  BY <1>0 DEF OpenAhead, TypeOK, TumblingResults
<1>3. arrived' = arrived /\ TumblingResults' = TumblingResults \cup Ended
  BY TickIs, TickResults
<1>4. T \in Nat /\ TumblingStart' \in Nat /\ T <= TumblingStart' /\ Length \in Nat \ {0}
  BY TickEnds, Parameters
<1>5. CASE TumblingDue = {} /\ Ended = {}
  <2>1. /\ TumblingResults' = TumblingResults /\ DOMAIN tumbling' = DOMAIN tumbling
        /\ \A w \in DOMAIN tumbling : tumbling'[w] = tumbling[w]
    BY <1>3, <1>5, TickIs
  <2>2. OpenSamples(tumbling') = OpenSamples(tumbling)
    <3>1. [w \in DOMAIN tumbling' |-> tumbling'[w].sample_count]
            = [w \in DOMAIN tumbling |-> tumbling[w].sample_count]
      BY <2>1
    <3> QED BY <2>1, <3>1 DEF OpenSamples
  <2>3. Samples(TumblingResults)' = Samples(TumblingResults) /\ OpenSamples(tumbling)' = OpenSamples(tumbling')
    BY <2>1 DEF Samples, OpenSamples, Total, MapThenSumSet, MapThenFoldSet
  <2>4. TumblingExact'
    BY <1>1, <1>3, <2>1, <2>2, <2>3 DEF TumblingExact, Samples, OpenSamples
  <2>5. \A r \in TumblingResults' :
          r.window_end = r.window_start + Length /\ r.window_end <= TumblingStart'
    BY <1>2, <1>4, <2>1
  <2> QED BY <2>4, <2>5
<1>6. CASE /\ TumblingDue = {T} /\ Ended = {r0} /\ DOMAIN tumbling = {T}
           /\ DOMAIN tumbling' = {} /\ TumblingStart' = T + Length
  <2>1. TumblingResults' = TumblingResults \cup {r0}
    BY <1>3, <1>6
  <2>2. r0.window_start = T /\ r0.window_end = T + Length /\ r0.acc = tumbling[T]
    BY DEF Result
  <2> HIDE DEF r0
  <2>3. \A r \in TumblingResults : r.window_end <= r0.window_start /\ r # r0
    BY <1>2, <1>4, <2>2
  <2>4. tumbling[T].sample_count \in Nat
    BY <1>0, <1>6, SamplesTypes
  <2> DEFINE f == [r \in TumblingResults \cup {r0} |-> r.acc.sample_count]
  <2> DEFINE g == [r \in TumblingResults |-> r.acc.sample_count]
  <2>5. Samples(TumblingResults \cup {r0}) = Samples(TumblingResults) + tumbling[T].sample_count
    <3>1. /\ IsFiniteSet(TumblingResults) /\ f[r0] = tumbling[T].sample_count
          /\ \A r \in TumblingResults : f[r] = g[r] /\ g[r] \in Int
      BY <1>0, <2>2, SamplesTypes DEF TypeOK, TumblingResults, Accumulators
    <3>2. Samples(TumblingResults \cup {r0}) = Total(f, TumblingResults \cup {r0})
          /\ Samples(TumblingResults) = Total(g, TumblingResults)
      BY DEF Samples
    <3> HIDE DEF f, g
    <3>3. IntegerOn(f, TumblingResults) /\ r0 \notin TumblingResults
      BY <2>3, <3>1 DEF IntegerOn
    <3>4. Total(f, TumblingResults \cup {r0}) = Total(f, TumblingResults) + f[r0]
      BY <2>4, <3>1, <3>3, TotalAdd
    <3>5. Total(f, TumblingResults) = Total(g, TumblingResults)
      BY <3>1, <3>3, TotalSame
    <3> QED BY <3>1, <3>2, <3>4, <3>5
  <2>6. OpenSamples(tumbling) = tumbling[T].sample_count
    <3>1. tumbling[T].sample_count \in Int
      BY <2>4
    <3> HIDE DEF T
    <3> QED BY <1>6, <3>1, OneOpenSamples
  <2>7. OpenSamples(tumbling') = 0
    BY <1>6, NoOpenSamples
  <2>8. Samples(TumblingResults)' = Samples(TumblingResults \cup {r0}) /\ OpenSamples(tumbling)' = 0
    <3>1. OpenSamples(tumbling)' = OpenSamples(tumbling')
      BY DEF OpenSamples, Total, MapThenSumSet, MapThenFoldSet
    <3>2. Samples(TumblingResults)' = Samples(TumblingResults \cup {r0})
      BY <2>1 DEF Samples, Total, MapThenSumSet, MapThenFoldSet
    <3> QED BY <2>7, <3>1, <3>2
  <2>9. Samples(TumblingResults \cup {r0}) + 0 = Cardinality(arrived)
    <3>1. /\ Samples(TumblingResults) \in Int
          /\ Samples(TumblingResults) + tumbling[T].sample_count = Cardinality(arrived)
      BY <1>0, <1>1, <2>6, SamplesTypes
    <3> DEFINE a == Samples(TumblingResults \cup {r0})
    <3> DEFINE b == Samples(TumblingResults)
    <3> DEFINE c == tumbling[T].sample_count
    <3>2. a = b + c /\ b \in Int /\ c \in Nat /\ b + c = Cardinality(arrived)
      BY <2>4, <2>5, <3>1
    <3> HIDE DEF a, b, c
    <3>3. a + 0 = Cardinality(arrived)
      BY <3>2
    <3> QED BY <3>3 DEF a
  <2>10. \A r, q \in TumblingResults' :
           r = q \/ r.window_end <= q.window_start \/ q.window_end <= r.window_start
    BY <1>1, <2>1, <2>3
  <2>11. \A r \in TumblingResults' :
           r.window_end = r.window_start + Length /\ r.window_end <= TumblingStart'
    BY <1>2, <1>4, <1>6, <2>1, <2>2
  <2>12. TumblingExact'
    BY <1>3, <1>6, <2>8, <2>9, <2>10 DEF TumblingExact, Samples, OpenSamples
  <2> QED BY <2>11, <2>12
<1> QED BY <1>5, <1>6, TickEnds

LEMMA TickIInv ==
  ASSUME IInv, Tick
  PROVE  IInv'
<1>0. /\ TypeOK /\ SlidingExact /\ OpenAhead /\ WatermarkBehind /\ AveragesOrdered
  BY DEF IInv
<1>1. /\ arrived' = arrived /\ watermark' = watermark /\ sliding' = sliding
      /\ averages' = averages /\ avgSpread' = avgSpread /\ compared' = compared
      /\ alerts' = alerts /\ late' = late
      /\ clock < MaxClock /\ clock' = clock + 1 /\ results' = results \cup Ended
  BY TickIs
<1>2. SlidingResults' = SlidingResults
  BY TickResults
<1>3. /\ TumblingExact'
      /\ \A r \in TumblingResults' :
           r.window_end = r.window_start + Length /\ r.window_end <= TumblingStart'
  BY TickTumbling
<1>4. DOMAIN tumbling' \subseteq DOMAIN tumbling /\ \A w \in DOMAIN tumbling' : tumbling'[w] = tumbling[w]
  BY TickIs
<1>5. Ended \subseteq [window_type : {"5m_sliding", "1m_tumbling"},
                      window_start : Int, window_end : Int, acc : Accumulators]
      /\ IsFiniteSet(Ended)
  <2> DEFINE T == TumblingStart
  <2> DEFINE r0 == Result("1m_tumbling", T, Length, tumbling[T])
  <2>1. CASE Ended = {}
    BY <2>1, FS_EmptySet
  <2>2. CASE Ended = {r0} /\ DOMAIN tumbling = {T}
    <3>1. T \in Nat /\ Length \in Nat /\ tumbling[T] \in Accumulators
      BY <1>0, <2>2, SamplesTypes, Parameters DEF TypeOK
    <3>2. r0 = [window_type |-> "1m_tumbling", window_start |-> T, window_end |-> T + Length,
                acc |-> tumbling[T]]
      BY DEF Result
    <3> HIDE DEF r0, T
    <3>3. r0 \in [window_type : {"5m_sliding", "1m_tumbling"},
                  window_start : Int, window_end : Int, acc : Accumulators]
      BY <3>1, <3>2
    <3> QED BY <2>2, <3>3, FS_Singleton
  <2> QED BY <2>1, <2>2, TickEnds
<1>6. TypeOK'
  <2>1. IsFiniteSet(results')
    BY <1>0, <1>1, <1>5, FS_Union DEF TypeOK
  <2>2. clock' \in 0 .. MaxClock
    BY <1>0, <1>1, Parameters DEF TypeOK
  <2>3. DOMAIN tumbling' \subseteq Nat /\ \A w \in DOMAIN tumbling' : tumbling'[w] \in Accumulators
    BY <1>0, <1>4 DEF TypeOK
  <2>4. results' \subseteq [window_type : {"5m_sliding", "1m_tumbling"},
                            window_start : Int, window_end : Int, acc : Accumulators]
    BY <1>0, <1>1, <1>5 DEF TypeOK
  <2> QED BY <1>0, <1>1, <1>2, <2>1, <2>2, <2>3, <2>4 DEF TypeOK
<1>7. SlidingExact'
  <2>1. \A w : Counted(w)' = Counted(w) /\ Starts(w)' = Starts(w)
    BY <1>1 DEF Counted, Starts
  <2>2. \A w : Reference(Counted(w))' = Reference(Counted(w))
    BY <2>1, ReferenceConstant
  <2>3. \A w \in DOMAIN sliding' : sliding'[w] = Reference(Counted(w))'
    BY <1>0, <1>1, <2>2 DEF SlidingExact
  <2>4. \A r \in SlidingResults' :
          /\ r.acc = Reference(Counted(r.window_start))'
          /\ r.window_end = r.window_start + Size /\ r.window_end <= watermark' + 1
    BY <1>0, <1>1, <1>2, <2>2 DEF SlidingExact
  <2>5. /\ \A r, q \in SlidingResults' : r.window_start = q.window_start => r = q
        /\ \A m \in arrived' : \A w \in Starts(m)' :
             <<m, w>> \in late' \/ w \in DOMAIN sliding' \cup {r.window_start : r \in SlidingResults'}
    BY <1>0, <1>1, <1>2, <2>1 DEF SlidingExact
  <2> QED BY <2>3, <2>4, <2>5 DEF SlidingExact
<1>8. OpenAhead'
  <2>1. \A w \in DOMAIN sliding' : ~Fired(w)' /\ \E m \in arrived' : w \in Starts(m)'
    BY <1>0, <1>1 DEF OpenAhead, Fired, Starts
  <2>2. DOMAIN tumbling' \subseteq {TumblingStart'}
    BY TickEnds
  <2> QED BY <1>3, <2>1, <2>2 DEF OpenAhead
<1>9. WatermarkBehind' /\ AveragesOrdered'
  BY <1>0, <1>1 DEF WatermarkBehind, AveragesOrdered
<1>10. MergeExact'
  BY <1>6, MergeHolds, PTL
<1> QED BY <1>3, <1>6, <1>7, <1>8, <1>9, <1>10 DEF IInv

-----------------------------------------------------------------------------
(* The join.                                                               *)

(* A step of the join leaves the windows and their results alone.          *)
LEMMA JoinKeeps ==
  ASSUME IInv,
         UNCHANGED <<arrived, watermark, clock, sliding, tumbling, results, late>>
  PROVE  /\ SlidingExact' /\ TumblingExact' /\ OpenAhead' /\ WatermarkBehind'
         /\ SlidingResults' = SlidingResults
<1>0. TypeOK /\ SlidingExact /\ OpenAhead /\ WatermarkBehind /\ TumblingExact
  BY DEF IInv
<1>1. SlidingResults' = SlidingResults /\ TumblingResults' = TumblingResults
  BY DEF SlidingResults, TumblingResults
<1>2. SlidingExact'
  <2>1. \A w : Counted(w)' = Counted(w) /\ Starts(w)' = Starts(w)
    BY DEF Counted, Starts
  <2>2. \A w : Reference(Counted(w))' = Reference(Counted(w))
    BY <2>1, ReferenceConstant
  <2>3. \A w \in DOMAIN sliding' : sliding'[w] = Reference(Counted(w))'
    BY <1>0, <2>2 DEF SlidingExact
  <2>4. \A r \in SlidingResults' :
          /\ r.acc = Reference(Counted(r.window_start))'
          /\ r.window_end = r.window_start + Size /\ r.window_end <= watermark' + 1
    BY <1>0, <1>1, <2>2 DEF SlidingExact
  <2>5. /\ \A r, q \in SlidingResults' : r.window_start = q.window_start => r = q
        /\ \A m \in arrived' : \A w \in Starts(m)' :
             <<m, w>> \in late' \/ w \in DOMAIN sliding' \cup {r.window_start : r \in SlidingResults'}
    BY <1>0, <1>1, <2>1 DEF SlidingExact
  <2> QED BY <2>3, <2>4, <2>5 DEF SlidingExact
<1>3. TumblingExact'
  BY <1>0, <1>1, TumblingStays
<1>4. OpenAhead'
  <2>1. TumblingStart' = TumblingStart
    BY DEF TumblingStart
  <2>2. \A w \in DOMAIN sliding' : ~Fired(w)' /\ \E m \in arrived' : w \in Starts(m)'
    BY <1>0 DEF OpenAhead, Fired, Starts
  <2> QED BY <1>0, <1>1, <2>1, <2>2 DEF OpenAhead
<1>5. WatermarkBehind'
  BY <1>0 DEF WatermarkBehind
<1> QED BY <1>1, <1>2, <1>3, <1>4, <1>5

LEMMA UpdateIInv ==
  ASSUME IInv, UpdateAverage
  PROVE  IInv' /\ (avgSpread # None => avgSpread'.window_end > avgSpread.window_end)
<1>0. TypeOK /\ AveragesOrdered
  BY DEF IInv
<1>1. /\ averages # <<>> /\ avgSpread' = Head(averages) /\ averages' = Tail(averages)
      /\ UNCHANGED <<arrived, watermark, clock, sliding, tumbling, results, compared, alerts, late>>
  BY DEF UpdateAverage
<1>2. /\ SlidingExact' /\ TumblingExact' /\ OpenAhead' /\ WatermarkBehind'
      /\ SlidingResults' = SlidingResults
  BY <1>1, JoinKeeps
<1>3. /\ averages \in Seq(SlidingResults) /\ Len(averages) \in Nat /\ Len(averages) > 0
      /\ DOMAIN averages = 1 .. Len(averages)
  BY <1>0, <1>1 DEF TypeOK
<1>4. /\ averages' \in Seq(SlidingResults) /\ DOMAIN averages' = 1 .. Len(averages) - 1
      /\ avgSpread' = averages[1] /\ avgSpread' \in SlidingResults
      /\ \A i \in 1 .. Len(averages) - 1 : averages'[i] = averages[i + 1]
  BY <1>1, <1>3
<1>5. TypeOK'
  BY <1>0, <1>1, <1>2, <1>4 DEF TypeOK
<1>6. \A i \in DOMAIN averages' : /\ averages'[i] = averages[i + 1] /\ i + 1 \in DOMAIN averages
                                  /\ 1 \in DOMAIN averages /\ 1 < i + 1
  BY <1>3, <1>4
<1>7. AveragesOrdered'
  <2>1. ASSUME NEW i \in DOMAIN averages', NEW j \in DOMAIN averages', i < j
        PROVE  averages'[i].window_end < averages'[j].window_end
    <3>1. i + 1 < j + 1
      BY <1>4, <2>1
    <3> QED BY <1>0, <1>6, <3>1 DEF AveragesOrdered
  <2>2. ASSUME NEW i \in DOMAIN averages'
        PROVE  avgSpread'.window_end < averages'[i].window_end
    BY <1>0, <1>4, <1>6 DEF AveragesOrdered
  <2> QED BY <2>1, <2>2 DEF AveragesOrdered
<1>8. MergeExact'
  BY <1>5, MergeHolds, PTL
<1>9. avgSpread # None => avgSpread'.window_end > avgSpread.window_end
  <2>1. 1 \in DOMAIN averages
    BY <1>3
  <2>2. avgSpread # None => avgSpread.window_end < averages[1].window_end
    BY <1>0, <2>1 DEF AveragesOrdered
  <2>3. avgSpread # None => avgSpread.window_end \in Int
    BY <1>0 DEF TypeOK, SlidingResults
  <2>4. averages[1].window_end \in Int
    BY <1>0, <1>4 DEF TypeOK, SlidingResults
  <2> QED BY <1>4, <2>2, <2>3, <2>4
<1> QED BY <1>2, <1>5, <1>7, <1>8, <1>9 DEF IInv

LEMMA CompareIInv ==
  ASSUME IInv, NEW m \in Metrics, Compare(m)
  PROVE  IInv'
<1>0. TypeOK /\ AveragesOrdered
  BY DEF IInv
<1>1. /\ compared' = compared \cup {m}
      /\ alerts' = IF Widened(m, avgSpread) THEN alerts \cup {<<m, avgSpread>>} ELSE alerts
      /\ UNCHANGED <<arrived, watermark, clock, sliding, tumbling, results, averages, avgSpread,
                     late>>
  BY DEF Compare
<1>2. /\ SlidingExact' /\ TumblingExact' /\ OpenAhead' /\ WatermarkBehind'
      /\ SlidingResults' = SlidingResults
  BY <1>1, JoinKeeps
<1>3. alerts' \subseteq compared' \X SlidingResults
  BY <1>0, <1>1 DEF TypeOK, Widened
<1>4. TypeOK'
  BY <1>0, <1>1, <1>2, <1>3 DEF TypeOK
<1>5. AveragesOrdered'
  BY <1>0, <1>1 DEF AveragesOrdered
<1>6. MergeExact'
  BY <1>4, MergeHolds, PTL
<1> QED BY <1>2, <1>4, <1>5, <1>6 DEF IInv

-----------------------------------------------------------------------------
(* The theorems.                                                           *)

LEMMA StepIInv ==
  ASSUME IInv, [Next]_vars
  PROVE  IInv'
<1>1. ASSUME NEW m \in Metrics, Arrive(m) PROVE IInv'
  BY <1>1, ArriveIInv
<1>2. ASSUME NEW m \in Metrics, Compare(m) PROVE IInv'
  BY <1>2, CompareIInv
<1>3. CASE AdvanceWatermark
  BY <1>3, AdvanceIs, AdvanceIInv
<1>4. CASE Tick
  BY <1>4, TickIInv
<1>5. CASE UpdateAverage
  BY <1>5, UpdateIInv
<1>6. CASE UNCHANGED vars
  <2>1. UNCHANGED <<arrived, watermark, clock, sliding, tumbling, results, late>>
    BY <1>6 DEF vars
  <2>2. /\ SlidingExact' /\ TumblingExact' /\ OpenAhead' /\ WatermarkBehind'
        /\ SlidingResults' = SlidingResults
    BY <2>1, JoinKeeps
  <2>3. TypeOK' /\ AveragesOrdered'
    BY <1>6, <2>2 DEF IInv, TypeOK, AveragesOrdered, vars
  <2>4. MergeExact'
    BY <2>3, MergeHolds, PTL
  <2> QED BY <2>2, <2>3, <2>4 DEF IInv
<1> QED BY <1>1, <1>2, <1>3, <1>4, <1>5, <1>6 DEF Next

(* In every state of every run: a window that is open or has fired has the *)
(* aggregate of exactly its metrics, fires once, and merging the           *)
(* aggregates of parts gives that of the whole; the tumbling windows are   *)
(* disjoint and their counts add up to the metrics that have arrived       *)
(* (WindowAggFunction's add and merge, over Flink's windows).              *)
THEOREM WindowsExact == Spec => []IInv
<1>1. Init => IInv
  BY InitIInv
<1>2. IInv /\ [Next]_vars => IInv'
  BY StepIInv
<1> QED BY <1>1, <1>2, PTL DEF Spec

(* A metric no further behind the earlier ones than the slack misses none  *)
(* of its windows (for_bounded_out_of_orderness).                          *)
THEOREM OnTime == Spec => OnTimeCounted
<1> DEFINE A == \A m \in arrived' \ arrived :
                  (\A n \in arrived : At[n] - Lateness <= At[m]) =>
                     \A w \in Starts(m) : <<m, w>> \notin late'
<1>1. IInv /\ [Next]_vars => [A]_vars
  <2> SUFFICES ASSUME IInv, Next,
                      NEW m \in arrived' \ arrived,
                      \A n \in arrived : At[n] - Lateness <= At[m],
                      NEW w \in Starts(m)
               PROVE  <<m, w>> \notin late'
    BY DEF vars
  <2>1. ASSUME NEW k \in Metrics, Arrive(k) PROVE <<m, w>> \notin late'
    <3>1. k = m /\ m \in Metrics
      BY <2>1 DEF Arrive
    <3>2. w \in Int /\ At[m] <= w + Size - 1 /\ At[m] \in Nat
      BY <3>1, StartsAround
    <3>3. TypeOK /\ WatermarkBehind
      BY DEF IInv
    <3>4. ~Fired(w)
      <4>1. CASE watermark = -1
        BY <3>2, <4>1, Parameters DEF Fired
      <4>2. CASE \E n \in arrived : watermark <= At[n] - Lateness - 1
        <5>1. PICK n \in arrived : watermark <= At[n] - Lateness - 1
          BY <4>2
        <5>2. At[n] \in Nat /\ Lateness \in Nat /\ watermark \in Int /\ At[n] - Lateness <= At[m]
          BY <3>3, Parameters DEF TypeOK
        <5>3. watermark < At[m]
          BY <3>2, <5>1, <5>2
        <5> QED BY <3>2, <5>2, <5>3, Parameters DEF Fired
      <4> QED BY <3>3, <4>1, <4>2 DEF WatermarkBehind
    <3>5. <<m, w>> \notin late
      BY <3>3 DEF TypeOK
    <3> QED BY <2>1, <3>1, <3>4, <3>5 DEF Arrive
  <2>2. ASSUME NEW k \in Metrics, Compare(k) PROVE FALSE
    BY <2>2 DEF Compare
  <2>3. ASSUME AdvanceWatermark \/ Tick \/ UpdateAverage PROVE FALSE
    BY <2>3 DEF AdvanceWatermark, Tick, UpdateAverage
  <2> QED BY <2>1, <2>2, <2>3 DEF Next
<1> QED BY <1>1, WindowsExact, PTL DEF Spec, OnTimeCounted

(* The average the join compares with is of later and later windows        *)
(* (SpreadWideningJoinFunction.process_element2).                          *)
THEOREM AveragesAdvance == Spec => AverageAdvances
<1>1. IInv /\ [Next]_vars =>
        [avgSpread' # avgSpread /\ avgSpread # None =>
           avgSpread'.window_end > avgSpread.window_end]_vars
  <2> SUFFICES ASSUME IInv, Next, avgSpread' # avgSpread, avgSpread # None
               PROVE  avgSpread'.window_end > avgSpread.window_end
    BY DEF vars
  <2>1. CASE UpdateAverage
    BY <2>1, UpdateIInv
  <2>2. ASSUME NEW m \in Metrics, Arrive(m) \/ Compare(m) PROVE FALSE
    BY <2>2 DEF Arrive, Compare
  <2>3. ASSUME AdvanceWatermark \/ Tick PROVE FALSE
    BY <2>3 DEF AdvanceWatermark, Tick
  <2> QED BY <2>1, <2>2, <2>3 DEF Next
<1> QED BY <1>1, WindowsExact, PTL DEF Spec, AverageAdvances
=============================================================================
