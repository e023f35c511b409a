------------------------- MODULE DownsamplerProofs -------------------------
(***************************************************************************)
(* Proofs about Downsampler and OrderBook, for every set of symbols and of *)
(* messages, any depth, any length of the buckets and any number of ticks: *)
(* the statistics of a bucket, its bounds, and what the two ways of        *)
(* reading a book have in common.  The first part is about the folds of    *)
(* the models, by induction over the naturals.                             *)
(***************************************************************************)
EXTENDS Downsampler, FiniteSetTheorems, WellFoundedInduction, TLAPS

-----------------------------------------------------------------------------
(* Induction.                                                              *)

Smaller == {p \in Nat \X Nat : p[1] < p[2]}

(* A non-empty set of naturals has a least element.                        *)
LEMMA LeastNatural ==
  ASSUME NEW S \in SUBSET Nat, S # {}
  PROVE  \E x \in S : \A y \in S : x <= y
<1>1. IsWellFoundedOn(OpToRel(<, Nat), Nat)
  BY NatLessThanWellFounded, Zenon
<1>2. OpToRel(<, Nat) = Smaller
  BY DEF OpToRel, Smaller
<1>3. IsWellFoundedOn(Smaller, Nat)
  BY <1>1, <1>2, Zenon
<1>4. PICK x \in S : \A y \in S : <<y, x>> \notin Smaller
  BY <1>3, WFMin
<1>5. ASSUME NEW y \in S PROVE x <= y
  <2>1. x \in Nat /\ y \in Nat /\ <<y, x>> \notin Smaller
    BY <1>4
  <2>2. <<y, x>> \in Nat \X Nat /\ <<y, x>>[1] = y /\ <<y, x>>[2] = x
    BY <2>1
  <2> QED BY <2>1, <2>2 DEF Smaller
<1> QED BY <1>4, <1>5

(* A set with zero and the successors of its members up to n has all       *)
(* numbers up to n.                                                        *)
LEMMA Induct ==
  ASSUME NEW n \in Nat, NEW T, 0 \in T, \A k \in 1 .. n : k - 1 \in T => k \in T
  PROVE  \A k \in 0 .. n : k \in T
<1> DEFINE Bad == {k \in 0 .. n : k \notin T}
<1>1. ASSUME Bad # {} PROVE FALSE
  <2>1. PICK k \in Bad : \A j \in Bad : k <= j
    <3>1. Bad \in SUBSET Nat
      OBVIOUS
    <3> HIDE DEF Bad
    <3> QED BY <1>1, <3>1, LeastNatural
  <2>2. k \in 0 .. n /\ k \notin T /\ k # 0
    BY <2>1
  <2>3. k - 1 \in 0 .. n /\ k - 1 \notin Bad
    <3>1. k - 1 \in 0 .. n /\ ~(k <= k - 1)
      BY <2>2
    <3> HIDE DEF Bad
    <3> QED BY <2>1, <3>1
  <2>4. k - 1 \in T /\ k \in 1 .. n
    BY <2>2, <2>3
  <2> QED BY <2>2, <2>4
<1> QED BY <1>1

(* A set of naturals with a bound has a greatest element, and Max is it.   *)
LEMMA MaxIs ==
  ASSUME NEW n \in Nat, NEW T \in SUBSET (1 .. n), T # {}
  PROVE  Max(T) \in T /\ \A y \in T : y <= Max(T)
<1> DEFINE Bounds == {u \in Nat : \A y \in T : y <= u}
<1>1. PICK u \in Bounds : \A b \in Bounds : u <= b
  <2>1. Bounds \in SUBSET Nat /\ n \in Bounds
    OBVIOUS
  <2> HIDE DEF Bounds
  <2> QED BY <2>1, LeastNatural
<1>2. u \in Nat /\ \A y \in T : y <= u
  BY <1>1
<1>3. u \in T
  <2>1. SUFFICES ASSUME u \notin T PROVE FALSE
    OBVIOUS
  <2>2. PICK y \in T : TRUE
    OBVIOUS
  <2>3. y \in 1 .. n /\ y < u
    BY <1>2, <2>1, <2>2
  <2>4. u - 1 \in Nat /\ \A z \in T : z <= u - 1
    BY <1>2, <2>1, <2>3
  <2>5. u - 1 \in Bounds
    BY <2>4
  <2> HIDE DEF Bounds
  <2> QED BY <1>1, <1>2, <2>5
<1> QED BY <1>2, <1>3 DEF Max

LEMMA MaxOfInterval ==
  ASSUME NEW n \in Nat, NEW k \in 1 .. n
  PROVE  1 .. k # {} /\ Max(1 .. k) = k /\ (1 .. k) \ {k} = 1 .. k - 1
<1>1. 1 .. k \in SUBSET (1 .. n) /\ k \in 1 .. k
  OBVIOUS
<1>2. Max(1 .. k) \in 1 .. k /\ \A y \in 1 .. k : y <= Max(1 .. k)
  BY <1>1, MaxIs
<1>3. k <= Max(1 .. k)
  BY <1>1, <1>2
<1> QED BY <1>1, <1>2, <1>3

LEMMA CountUpTo ==
  ASSUME NEW n \in Nat
  PROVE  IsFiniteSet(1 .. n) /\ Cardinality(1 .. n) = n
<1>1. Cardinality(1 .. n) = IF 1 > n THEN 0 ELSE n - 1 + 1
  BY FS_Interval
<1> QED BY <1>1, FS_Interval

-----------------------------------------------------------------------------
(* Folds of sequences of integers.                                         *)

Binary == [Int \X Int -> Int]
Plus == [p \in Int \X Int |-> p[1] + p[2]]

LEMMA Operations ==
  Plus \in Binary /\ \A a, b \in Int : Plus[<<a, b>>] = a + b
<1>1. ASSUME NEW p \in Int \X Int PROVE p[1] + p[2] \in Int
  <2>1. p[1] \in Int /\ p[2] \in Int
    OBVIOUS
  <2> QED BY <2>1
<1>2. Plus \in Binary
  BY <1>1 DEF Plus, Binary
<1>3. ASSUME NEW a \in Int, NEW b \in Int PROVE Plus[<<a, b>>] = a + b
  <2>1. <<a, b>> \in Int \X Int /\ <<a, b>>[1] = a /\ <<a, b>>[2] = b
    OBVIOUS
  <2> QED BY <2>1 DEF Plus
<1> QED BY <1>2, <1>3

FoldStep(op, base, s, h, T) ==
  IF T = {} THEN base ELSE op[<<h[T \ {Max(T)}], s[Max(T)]>>]

(* A function that folds the parts of a sequence exists: it is built by    *)
(* their last places.                                                      *)
LEMMA FoldExists ==
  ASSUME NEW op \in Binary, NEW base \in Int, NEW s \in Seq(Int)
  PROVE  \E h \in [SUBSET (1 .. Len(s)) -> Int] :
           \A T \in SUBSET (1 .. Len(s)) : h[T] = FoldStep(op, base, s, h, T)
<1> DEFINE n == Len(s)
<1> DEFINE UpTo(k, h) == \A T \in SUBSET (1 .. k) : h[T] = FoldStep(op, base, s, h, T)
<1> DEFINE Reached == {k \in 0 .. n : \E h \in [SUBSET (1 .. n) -> Int] : UpTo(k, h)}
<1>0. n \in Nat /\ \A i \in 1 .. n : s[i] \in Int
  OBVIOUS
<1>1. 0 \in Reached
  <2> DEFINE h == [T \in SUBSET (1 .. n) |-> base]
  <2>1. h \in [SUBSET (1 .. n) -> Int]
    OBVIOUS
  <2>2. ASSUME NEW T \in SUBSET (1 .. 0) PROVE h[T] = FoldStep(op, base, s, h, T)
    <3>1. T = {}
      OBVIOUS
    <3> QED BY <3>1 DEF FoldStep
  <2>3. UpTo(0, h)
    BY <2>2
  <2> HIDE DEF h, UpTo
  <2> QED BY <1>0, <2>1, <2>3
<1>2. ASSUME NEW k \in 1 .. n, k - 1 \in Reached PROVE k \in Reached
  <2>1. PICK h \in [SUBSET (1 .. n) -> Int] : UpTo(k - 1, h)
    BY <1>2
  <2> DEFINE g == [T \in SUBSET (1 .. n) |-> FoldStep(op, base, s, h, T)]
  <2>2. g \in [SUBSET (1 .. n) -> Int]
    <3> SUFFICES ASSUME NEW T \in SUBSET (1 .. n) PROVE FoldStep(op, base, s, h, T) \in Int
      OBVIOUS
    <3>1. CASE T = {}
      BY <3>1 DEF FoldStep
    <3>2. CASE T # {}
      <4>1. Max(T) \in 1 .. n /\ T \ {Max(T)} \in SUBSET (1 .. n)
        BY <1>0, <3>2, MaxIs
      <4>2. <<h[T \ {Max(T)}], s[Max(T)]>> \in Int \X Int
        BY <1>0, <4>1
      <4> QED BY <3>2, <4>2 DEF FoldStep, Binary
    <3> QED BY <3>1, <3>2
  <2>3. ASSUME NEW T \in SUBSET (1 .. k) PROVE g[T] = FoldStep(op, base, s, g, T)
    <3>0. T \in SUBSET (1 .. n)
      BY <1>0
    <3>1. g[T] = FoldStep(op, base, s, h, T)
      BY <3>0
    <3>2. CASE T = {}
      BY <3>1, <3>2 DEF FoldStep
    <3>3. CASE T # {}
      <4> DEFINE U == T \ {Max(T)}
      <4>1. U \in SUBSET (1 .. k - 1)
        <5>1. Max(T) \in T /\ \A y \in T : y <= Max(T)
          BY <1>0, <3>0, <3>3, MaxIs
        <5>2. ASSUME NEW y \in U PROVE y \in 1 .. k - 1
          <6>1. y \in 1 .. k /\ Max(T) \in 1 .. k /\ y <= Max(T) /\ y # Max(T)
            BY <5>1
          <6> QED BY <6>1
        <5> QED BY <5>2
      <4>2. U \in SUBSET (1 .. n)
        BY <1>0, <4>1
      <4>3. h[U] = FoldStep(op, base, s, h, U)
        BY <2>1, <4>1
      <4>4. g[U] = h[U]
        BY <4>2, <4>3
      <4> QED BY <3>1, <3>3, <4>4 DEF FoldStep
    <3> QED BY <3>2, <3>3
  <2>4. UpTo(k, g)
    BY <2>3
  <2> HIDE DEF g, UpTo
  <2> QED BY <1>0, <2>2, <2>4
<1>3. n \in Reached
  <2> HIDE DEF Reached, n
  <2>1. \A k \in 0 .. n : k \in Reached
    BY <1>0, <1>1, <1>2, Induct
  <2> QED BY <1>0, <2>1
<1> QED BY <1>3

(* The values that a fold takes from place to place.                       *)
Run(op, base, s, r) ==
  /\ r \in [0 .. Len(s) -> Int] /\ r[0] = base
  /\ \A k \in 1 .. Len(s) : r[k] = op[<<r[k - 1], s[k]>>]

LEMMA SumRuns ==
  ASSUME NEW s \in Seq(Int)
  PROVE  \E r : Run(Plus, 0, s, r) /\ SumUp(s) = r[Len(s)]
<1> DEFINE n == Len(s)
<1> DEFINE Body(h) == [T \in SUBSET (1 .. n) |->
                         IF T = {} THEN 0 ELSE h[T \ {Max(T)}] + s[Max(T)]]
<1> DEFINE iter == CHOOSE h : h = Body(h)
<1>0. n \in Nat /\ DOMAIN s = 1 .. n /\ 0 \in Int /\ \A i \in 1 .. n : s[i] \in Int
  OBVIOUS
<1>1. SumUp(s) = iter[1 .. n]
  BY <1>0 DEF SumUp, FoldLeft, MapThenFoldSet
<1>2. \E h : h = Body(h)
  <2>1. PICK h \in [SUBSET (1 .. n) -> Int] :
               \A T \in SUBSET (1 .. n) : h[T] = FoldStep(Plus, 0, s, h, T)
    BY <1>0, Operations, FoldExists
  <2>2. ASSUME NEW T \in SUBSET (1 .. n) PROVE h[T] = Body(h)[T]
    <3>1. CASE T = {}
      BY <2>1, <3>1 DEF FoldStep
    <3>2. CASE T # {}
      <4>1. Max(T) \in 1 .. n /\ T \ {Max(T)} \in SUBSET (1 .. n)
        BY <1>0, <3>2, MaxIs
      <4>2. h[T \ {Max(T)}] \in Int /\ s[Max(T)] \in Int
        BY <1>0, <2>1, <4>1
      <4>3. h[T] = Plus[<<h[T \ {Max(T)}], s[Max(T)]>>]
        BY <2>1, <3>2 DEF FoldStep
      <4>4. h[T] = h[T \ {Max(T)}] + s[Max(T)]
        BY <4>2, <4>3, Operations
      <4> QED BY <3>2, <4>4
    <3> QED BY <3>1, <3>2
  <2>3. h = Body(h)
    BY <2>1, <2>2
  <2> QED BY <2>3
<1>3. iter = Body(iter)
  BY <1>2
<1> HIDE DEF iter
<1> DEFINE r == [k \in 0 .. n |-> iter[1 .. k]]
<1>4. r[0] = 0
  <2>1. 1 .. 0 = {} /\ 0 \in 0 .. n /\ {} \in SUBSET (1 .. n)
    BY <1>0
  <2> QED BY <1>3, <2>1
<1>5. \A k \in 1 .. n : r[k] = r[k - 1] + s[k]
  <2> TAKE k \in 1 .. n
  <2> DEFINE T == 1 .. k
  <2>1. T # {} /\ Max(T) = k /\ T \ {Max(T)} = 1 .. k - 1 /\ T \in SUBSET (1 .. n)
    BY <1>0, MaxOfInterval
  <2>2. iter[T] = iter[1 .. k - 1] + s[k]
    <3> HIDE DEF T
    <3> QED BY <1>3, <2>1
  <2>3. k - 1 \in 0 .. n /\ k \in 0 .. n
    BY <1>0
  <2> QED BY <2>1, <2>2, <2>3
<1>6. \A k \in 0 .. n : r[k] \in Int
  <2> DEFINE T == {k \in 0 .. n : r[k] \in Int}
  <2>1. 0 \in T
    BY <1>0, <1>4
  <2>2. ASSUME NEW k \in 1 .. n, k - 1 \in T PROVE k \in T
    <3>0. k \in 0 .. n /\ k - 1 \in 0 .. n /\ s[k] \in Int /\ r[k - 1] \in Int
      BY <1>0, <2>2
    <3>1. r[k] = r[k - 1] + s[k] /\ r[k - 1] \in Int /\ s[k] \in Int /\ k \in 0 .. n
      BY <1>5, <3>0
    <3> HIDE DEF r
    <3> QED BY <3>1 DEF Lesser, Larger
  <2>3. \A k \in 0 .. n : k \in T
    <3> HIDE DEF T, n
    <3> QED BY <1>0, <2>1, <2>2, Induct
  <2> QED BY <2>3
<1>7. r \in [0 .. n -> Int]
  BY <1>6
<1>8. \A k \in 1 .. n : r[k] = Plus[<<r[k - 1], s[k]>>]
  <2> TAKE k \in 1 .. n
  <2>1. k - 1 \in 0 .. n /\ s[k] \in Int
    BY <1>0
  <2>2. r[k - 1] \in Int
    BY <1>6, <2>1
  <2>3. r[k] = r[k - 1] + s[k]
    BY <1>5
  <2> HIDE DEF r
  <2> QED BY <2>1, <2>2, <2>3, Operations
<1>9. Run(Plus, 0, s, r) /\ SumUp(s) = r[n]
  <2>1. r[n] = iter[1 .. n]
    BY <1>0
  <2> HIDE DEF r
  <2> QED BY <1>1, <1>4, <1>7, <1>8, <2>1 DEF Run
<1> QED BY <1>9

LEMMA SameRun ==
  ASSUME NEW op, NEW base, NEW s \in Seq(Int), NEW t \in Seq(Int), NEW q, NEW r,
         Run(op, base, s, q), Run(op, base, t, r), Len(s) <= Len(t),
         \A i \in 1 .. Len(s) : s[i] = t[i]
  PROVE  \A k \in 0 .. Len(s) : q[k] = r[k]
<1> DEFINE n == Len(s)
<1> DEFINE T == {k \in 0 .. n : q[k] = r[k]}
<1>0. n \in Nat /\ Len(t) \in Nat /\ n <= Len(t)
  OBVIOUS
<1>1. 0 \in T
  BY <1>0 DEF Run
<1>2. ASSUME NEW k \in 1 .. n, k - 1 \in T PROVE k \in T
  <2>1. k \in 0 .. n /\ k \in 1 .. Len(t) /\ q[k - 1] = r[k - 1] /\ s[k] = t[k]
    BY <1>0, <1>2
  <2>2. q[k] = op[<<q[k - 1], s[k]>>] /\ r[k] = op[<<r[k - 1], t[k]>>]
    BY <2>1 DEF Run
  <2> QED BY <2>1, <2>2
<1>3. \A k \in 0 .. n : k \in T
  <2> HIDE DEF T, n
  <2> QED BY <1>0, <1>1, <1>2, Induct
<1> QED BY <1>3

LEMMA SameSequence ==
  ASSUME NEW S, NEW s \in Seq(S), NEW t \in Seq(S), Len(s) = Len(t),
         \A i \in 1 .. Len(s) : s[i] = t[i]
  PROVE  s = t
<1>1. s \in [1 .. Len(s) -> S] /\ t \in [1 .. Len(s) -> S]
  OBVIOUS
<1> QED BY <1>1

LEMMA Appending ==
  ASSUME NEW s \in Seq(Int), NEW v \in Int
  PROVE  /\ Append(s, v) \in Seq(Int) /\ Len(Append(s, v)) = Len(s) + 1 /\ Len(s) \in Nat
         /\ \A i \in 1 .. Len(s) : Append(s, v)[i] = s[i]
         /\ Append(s, v)[Len(s) + 1] = v
OBVIOUS

LEMMA RunAppend ==
  ASSUME NEW op, NEW base, NEW s \in Seq(Int), NEW v \in Int, NEW q, NEW r,
         Run(op, base, s, q), Run(op, base, Append(s, v), r)
  PROVE  r[Len(s) + 1] = op[<<q[Len(s)], v>>] /\ q[Len(s)] \in Int
<1> DEFINE t == Append(s, v)
<1>1. t \in Seq(Int) /\ Len(t) = Len(s) + 1 /\ Len(s) \in Nat
      /\ (\A i \in 1 .. Len(s) : s[i] = t[i]) /\ t[Len(s) + 1] = v
  BY Appending
<1>2. q[Len(s)] = r[Len(s)]
  <2> HIDE DEF t
  <2>1. Run(op, base, t, r)
    BY DEF t
  <2>2. Len(s) <= Len(t) /\ Len(s) \in 0 .. Len(s)
    BY <1>1
  <2> QED BY <1>1, <2>1, <2>2, SameRun
<1>3. r[Len(s) + 1] = op[<<r[Len(s) + 1 - 1], t[Len(s) + 1]>>]
  <2>1. Len(s) + 1 \in 1 .. Len(t)
    BY <1>1
  <2>2. \A k \in 1 .. Len(t) : r[k] = op[<<r[k - 1], t[k]>>]
    BY DEF Run
  <2> HIDE DEF t
  <2> QED BY <2>1, <2>2
<1>4. Len(s) + 1 - 1 = Len(s) /\ Len(s) \in 0 .. Len(s)
  BY <1>1
<1>5. q[Len(s)] \in Int
  BY <1>4 DEF Run
<1> QED BY <1>1, <1>2, <1>3, <1>4, <1>5

(* One more value.                                                         *)
LEMMA SumAppend ==
  ASSUME NEW s \in Seq(Int), NEW v \in Int
  PROVE  SumUp(s) \in Int /\ SumUp(Append(s, v)) = SumUp(s) + v
<1>1. Append(s, v) \in Seq(Int) /\ Len(Append(s, v)) = Len(s) + 1
  BY Appending
<1>2. PICK q : Run(Plus, 0, s, q) /\ SumUp(s) = q[Len(s)]
  BY SumRuns
<1>3. PICK r : Run(Plus, 0, Append(s, v), r) /\ SumUp(Append(s, v)) = r[Len(s) + 1]
  BY <1>1, SumRuns
<1>4. r[Len(s) + 1] = Plus[<<q[Len(s)], v>>] /\ q[Len(s)] \in Int
  BY <1>2, <1>3, RunAppend
<1> QED BY <1>2, <1>3, <1>4, Operations

(* The least and the greatest value with one more.                         *)
LEMMA LeastAppend ==
  ASSUME NEW s \in Seq(Int), NEW m \in Extrema, NEW v \in Int, Least(m, s)
  PROVE  Lesser(m, v) \in Int /\ Least(Lesser(m, v), Append(s, v))
<1> DEFINE n == Len(s)
<1> DEFINE t == Append(s, v)
<1> DEFINE w == Lesser(m, v)
<1>1. /\ n \in Nat /\ DOMAIN s = 1 .. n /\ DOMAIN t = 1 .. n + 1 /\ t # <<>>
      /\ \A i \in 1 .. n : s[i] \in Int /\ t[i] = s[i]
      /\ t[n + 1] = v
  OBVIOUS
<1>2. CASE s = <<>>
  <2>1. w = v /\ n = 0
    BY <1>2 DEF Least, Lesser
  <2>2. v \in Int
    OBVIOUS
  <2>3. w \in Int /\ Least(w, t)
    <3>1. 1 \in DOMAIN t /\ t[1] = w /\ w \in Int /\ t # <<>> /\ \A j \in DOMAIN t : j = 1
      BY <1>1, <2>1, <2>2
    <3> HIDE DEF t, w
    <3> QED BY <3>1 DEF Least
  <2> QED BY <2>3
<1>3. CASE s # <<>>
  <2>1. PICK i \in 1 .. n : m = s[i]
    BY <1>1, <1>3 DEF Least
  <2>2. m \in Int /\ \A j \in 1 .. n : m <= s[j]
    BY <1>1, <1>3, <2>1 DEF Least
  <2>3. w \in Int /\ w <= m /\ w <= v /\ (w = m \/ w = v)
    BY <2>2, DownsamplerAssumption DEF Lesser
  <2> HIDE DEF t, w
  <2>4. ASSUME NEW j \in 1 .. n + 1 PROVE w <= t[j]
    <3>1. CASE j = n + 1
      BY <1>1, <2>3, <3>1
    <3>2. CASE j # n + 1
      <4>1. j \in 1 .. n
        BY <1>1, <3>2
      <4>2. m <= s[j] /\ t[j] = s[j] /\ s[j] \in Int
        BY <1>1, <2>2, <4>1
      <4> QED BY <2>2, <2>3, <4>2
    <3> QED BY <3>1, <3>2
  <2>5. \E j \in 1 .. n + 1 : w = t[j]
    <3>1. i \in 1 .. n + 1 /\ n + 1 \in 1 .. n + 1 /\ t[i] = m /\ t[n + 1] = v
      BY <1>1, <2>1
    <3> QED BY <2>3, <3>1
  <2>6. w \in Int /\ Least(w, t)
    BY <1>1, <2>3, <2>4, <2>5 DEF Least
  <2> QED BY <2>6 DEF t, w
<1> QED BY <1>2, <1>3

LEMMA GreatestAppend ==
  ASSUME NEW s \in Seq(Int), NEW m \in Extrema, NEW v \in Int, Greatest(m, s)
  PROVE  Larger(m, v) \in Int /\ Greatest(Larger(m, v), Append(s, v))
<1> DEFINE n == Len(s)
<1> DEFINE t == Append(s, v)
<1> DEFINE w == Larger(m, v)
<1>1. /\ n \in Nat /\ DOMAIN s = 1 .. n /\ DOMAIN t = 1 .. n + 1 /\ t # <<>>
      /\ \A i \in 1 .. n : s[i] \in Int /\ t[i] = s[i]
      /\ t[n + 1] = v
  OBVIOUS
<1>2. CASE s = <<>>
  <2>1. w = v /\ n = 0
    BY <1>2 DEF Greatest, Larger
  <2>2. v \in Int
    OBVIOUS
  <2>3. w \in Int /\ Greatest(w, t)
    <3>1. 1 \in DOMAIN t /\ t[1] = w /\ w \in Int /\ t # <<>> /\ \A j \in DOMAIN t : j = 1
      BY <1>1, <2>1, <2>2
    <3> HIDE DEF t, w
    <3> QED BY <3>1 DEF Greatest
  <2> QED BY <2>3
<1>3. CASE s # <<>>
  <2>1. PICK i \in 1 .. n : m = s[i]
    BY <1>1, <1>3 DEF Greatest
  <2>2. m \in Int /\ \A j \in 1 .. n : m >= s[j]
    BY <1>1, <1>3, <2>1 DEF Greatest
  <2>3. w \in Int /\ w >= m /\ w >= v /\ (w = m \/ w = v)
    BY <2>2, DownsamplerAssumption DEF Larger
  <2> HIDE DEF t, w
  <2>4. ASSUME NEW j \in 1 .. n + 1 PROVE w >= t[j]
    <3>1. CASE j = n + 1
      BY <1>1, <2>3, <3>1
    <3>2. CASE j # n + 1
      <4>1. j \in 1 .. n
        BY <1>1, <3>2
      <4>2. m >= s[j] /\ t[j] = s[j] /\ s[j] \in Int
        BY <1>1, <2>2, <4>1
      <4> QED BY <2>2, <2>3, <4>2
    <3> QED BY <3>1, <3>2
  <2>5. \E j \in 1 .. n + 1 : w = t[j]
    <3>1. i \in 1 .. n + 1 /\ n + 1 \in 1 .. n + 1 /\ t[i] = m /\ t[n + 1] = v
      BY <1>1, <2>1
    <3> QED BY <2>3, <3>1
  <2>6. w \in Int /\ Greatest(w, t)
    BY <1>1, <2>3, <2>4, <2>5 DEF Greatest
  <2> QED BY <2>6 DEF t, w
<1> QED BY <1>2, <1>3

LEMMA OfNothing == SumUp(<<>>) = 0 /\ Least(Infinite, <<>>) /\ Greatest(Infinite, <<>>)
<1>1. <<>> \in Seq(Int) /\ Len(<<>>) = 0
  OBVIOUS
<1>2. SumUp(<<>>) = 0
  BY <1>1, SumRuns DEF Run
<1> QED BY <1>2 DEF Least, Greatest

-----------------------------------------------------------------------------
(* Sums.                                                                   *)

(* The sums of the parts of a sequence.                                    *)
LEMMA PartialSums ==
  ASSUME NEW s \in Seq(Int)
  PROVE  \E r \in [0 .. Len(s) -> Int] :
           /\ r[0] = 0 /\ SumUp(s) = r[Len(s)]
           /\ \A k \in 1 .. Len(s) : r[k] = r[k - 1] + s[k]
<1>1. PICK r : Run(Plus, 0, s, r) /\ SumUp(s) = r[Len(s)]
  BY SumRuns
<1>2. r \in [0 .. Len(s) -> Int] /\ r[0] = 0
  BY <1>1 DEF Run
<1>3. ASSUME NEW k \in 1 .. Len(s) PROVE r[k] = r[k - 1] + s[k]
  <2>1. Len(s) \in Nat /\ s[k] \in Int
    OBVIOUS
  <2>2. k - 1 \in 0 .. Len(s)
    BY <2>1
  <2>3. r[k - 1] \in Int
    BY <1>2, <2>2
  <2>4. r[k] = Plus[<<r[k - 1], s[k]>>]
    BY <1>1 DEF Run
  <2> QED BY <2>1, <2>3, <2>4, Operations
<1> QED BY <1>1, <1>2, <1>3

(* A sum of values that are not negative is not less than one of them.     *)
LEMMA SumOfPositive ==
  ASSUME NEW s \in Seq(Int), \A i \in 1 .. Len(s) : s[i] >= 0
  PROVE  SumUp(s) \in Nat /\ \A i \in 1 .. Len(s) : s[i] <= SumUp(s)
<1> DEFINE n == Len(s)
<1>0. n \in Nat /\ \A i \in 1 .. n : s[i] \in Int /\ s[i] >= 0
  OBVIOUS
<1>1. PICK r \in [0 .. n -> Int] :
        r[0] = 0 /\ SumUp(s) = r[n] /\ \A k \in 1 .. n : r[k] = r[k - 1] + s[k]
  BY PartialSums
<1>2. r[n] >= 0 /\ r[n] \in Int
  <2> DEFINE T == {k \in 0 .. n : r[k] >= 0}
  <2>1. 0 \in T
    BY <1>0, <1>1
  <2>2. ASSUME NEW k \in 1 .. n, k - 1 \in T PROVE k \in T
    <3>0. k \in 0 .. n /\ k - 1 \in 0 .. n
      BY <1>0
    <3>1. r[k] = r[k - 1] + s[k] /\ r[k - 1] \in Int /\ s[k] \in Int /\ k \in 0 .. n
      BY <1>0, <1>1, <3>0
    <3>2. r[k - 1] >= 0 /\ s[k] >= 0
      BY <1>0, <2>2
    <3>3. r[k] >= 0
      BY <3>1, <3>2
    <3> QED BY <3>1, <3>3
  <2>3. \A k \in 0 .. n : k \in T
    <3> HIDE DEF T, n
    <3> QED BY <1>0, <2>1, <2>2, Induct
  <2>4. n \in 0 .. n
    BY <1>0
  <2> QED BY <1>1, <2>3, <2>4
<1>3. ASSUME NEW i \in 1 .. n PROVE s[i] <= r[n]
  <2> DEFINE T == {k \in 0 .. n : r[k] >= 0 /\ (k >= i => s[i] <= r[k])}
  <2>1. 0 \in T
    BY <1>0, <1>1
  <2>2. ASSUME NEW k \in 1 .. n, k - 1 \in T PROVE k \in T
    <3>0. k \in 0 .. n /\ k - 1 \in 0 .. n
      BY <1>0
    <3>1. r[k] = r[k - 1] + s[k] /\ r[k - 1] \in Int /\ s[k] \in Int /\ k \in 0 .. n
      BY <1>0, <1>1, <3>0
    <3>2. r[k - 1] >= 0 /\ s[k] >= 0 /\ (k - 1 >= i => s[i] <= r[k - 1]) /\ s[i] \in Int
      BY <1>0, <2>2
    <3>3. r[k] >= 0 /\ (k >= i => s[i] <= r[k])
      <4>1. CASE k = i
        BY <3>1, <3>2, <4>1
      <4>2. CASE k # i
        BY <3>1, <3>2, <4>2
      <4> QED BY <4>1, <4>2
    <3> QED BY <3>1, <3>3
  <2>3. \A k \in 0 .. n : k \in T
    <3> HIDE DEF T, n
    <3> QED BY <1>0, <2>1, <2>2, Induct
  <2>4. n \in 0 .. n /\ n >= i
    BY <1>0
  <2> QED BY <2>3, <2>4
<1> QED BY <1>1, <1>2, <1>3

Divides(m, v) == \E q \in Int : v = m * q

(* A sum of multiples is a multiple.                                       *)
LEMMA SumOfMultiples ==
  ASSUME NEW s \in Seq(Int), NEW m \in Int, \A i \in 1 .. Len(s) : Divides(m, s[i])
  PROVE  Divides(m, SumUp(s))
<1> DEFINE n == Len(s)
<1>0. n \in Nat /\ \A i \in 1 .. n : s[i] \in Int /\ Divides(m, s[i])
  OBVIOUS
<1>1. PICK r \in [0 .. n -> Int] :
        r[0] = 0 /\ SumUp(s) = r[n] /\ \A k \in 1 .. n : r[k] = r[k - 1] + s[k]
  BY PartialSums
<1> DEFINE T == {k \in 0 .. n : Divides(m, r[k])}
<1>2. 0 \in T
  <2>1. m * 0 = 0 /\ r[0] = 0 /\ 0 \in 0 .. n
    BY <1>0, <1>1
  <2>2. r[0] = m * 0
    BY <2>1
  <2>3. Divides(m, r[0])
    BY <2>2 DEF Divides
  <2> QED BY <2>1, <2>3
<1>3. ASSUME NEW k \in 1 .. n, k - 1 \in T PROVE k \in T
  <2>1. r[k] = r[k - 1] + s[k] /\ k \in 0 .. n
    BY <1>0, <1>1
  <2>2. PICK a \in Int : r[k - 1] = m * a
    BY <1>3 DEF Divides
  <2>3. PICK b \in Int : s[k] = m * b
    BY <1>0 DEF Divides
  <2>4. r[k] = m * (a + b) /\ a + b \in Int
    BY <2>1, <2>2, <2>3
  <2> QED BY <2>1, <2>4 DEF Divides
<1>4. \A k \in 0 .. n : k \in T
  <2> HIDE DEF T, n
  <2> QED BY <1>0, <1>2, <1>3, Induct
<1>5. n \in 0 .. n
  BY <1>0
<1> QED BY <1>1, <1>4, <1>5

Squares(s, a) == [i \in DOMAIN s |-> (s[i] - a) * (s[i] - a)]

LEMMA SquaresType ==
  ASSUME NEW s \in Seq(Int), NEW a \in Int
  PROVE  /\ Squares(s, a) \in Seq(Int) /\ Len(Squares(s, a)) = Len(s) /\ Len(s) \in Nat
         /\ \A i \in 1 .. Len(s) : s[i] \in Int /\ Squares(s, a)[i] = (s[i] - a) * (s[i] - a)
<1>1. Len(s) \in Nat /\ DOMAIN s = 1 .. Len(s) /\ \A i \in 1 .. Len(s) : s[i] \in Int
  OBVIOUS
<1>2. \A i \in 1 .. Len(s) : (s[i] - a) * (s[i] - a) \in Int
  BY <1>1
<1>3. Squares(s, a) \in [1 .. Len(s) -> Int]
  BY <1>1, <1>2 DEF Squares
<1>4. \A f \in [1 .. Len(s) -> Int] : f \in Seq(Int) /\ Len(f) = Len(s)
  BY <1>1
<1> QED BY <1>1, <1>3, <1>4 DEF Squares

(* The squared differences from another number.                            *)
LEMMA SumShift ==
  ASSUME NEW s \in Seq(Int), NEW a \in Int, NEW b \in Int
  PROVE  SumUp(Squares(s, b)) =
           SumUp(Squares(s, a)) + 2 * (a - b) * (SumUp(s) - Len(s) * a)
             + Len(s) * ((a - b) * (a - b))
<1> DEFINE n == Len(s)
<1> DEFINE x == Squares(s, b)
<1> DEFINE y == Squares(s, a)
<1>0. /\ n \in Nat /\ x \in Seq(Int) /\ y \in Seq(Int) /\ Len(x) = n /\ Len(y) = n
      /\ \A i \in 1 .. n : /\ s[i] \in Int
                           /\ x[i] = (s[i] - b) * (s[i] - b) /\ y[i] = (s[i] - a) * (s[i] - a)
  BY SquaresType
<1> HIDE DEF x, y
<1>1. PICK r \in [0 .. n -> Int] :
        r[0] = 0 /\ SumUp(s) = r[n] /\ \A k \in 1 .. n : r[k] = r[k - 1] + s[k]
  BY PartialSums
<1> HIDE DEF n
<1>2. PICK p \in [0 .. n -> Int] :
        p[0] = 0 /\ SumUp(x) = p[n] /\ \A k \in 1 .. n : p[k] = p[k - 1] + x[k]
  <2>1. x \in Seq(Int) /\ Len(x) = n
    BY <1>0
  <2> QED BY <2>1, PartialSums
<1>3. PICK q \in [0 .. n -> Int] :
        q[0] = 0 /\ SumUp(y) = q[n] /\ \A k \in 1 .. n : q[k] = q[k - 1] + y[k]
  BY <1>0, PartialSums
<1> DEFINE Shifted(k) == p[k] = q[k] + 2 * (a - b) * (r[k] - k * a) + k * ((a - b) * (a - b))
<1> DEFINE T == {k \in 0 .. n : Shifted(k)}
<1>4. 0 \in T
  <2>1. 2 * (a - b) * (0 - 0 * a) = 0 /\ 0 * ((a - b) * (a - b)) = 0
    OBVIOUS
  <2>2. Shifted(0)
    <3>1. p[0] = 0 /\ q[0] = 0 /\ r[0] = 0
      BY <1>1, <1>2, <1>3
    <3> QED BY <2>1, <3>1
  <2> QED BY <1>0, <2>2
<1>5. ASSUME NEW k \in 1 .. n, k - 1 \in T PROVE k \in T
  <2>0. k \in 0 .. n /\ k - 1 \in 0 .. n /\ s[k] \in Int
    <3>1. n \in Nat /\ \A i \in 1 .. n : s[i] \in Int
      BY <1>0
    <3> HIDE DEF T
    <3> QED BY <3>1
  <2> DEFINE P == p[k - 1]
  <2> DEFINE Q == q[k - 1]
  <2> DEFINE R == r[k - 1]
  <2> DEFINE v == s[k]
  <2>1. P \in Int /\ Q \in Int /\ R \in Int /\ v \in Int /\ k \in Int
    BY <2>0
  <2>2. p[k] = P + (v - b) * (v - b) /\ q[k] = Q + (v - a) * (v - a) /\ r[k] = R + v
    BY <1>0, <1>1, <1>2, <1>3
  <2>3. P = Q + 2 * (a - b) * (R - (k - 1) * a) + (k - 1) * ((a - b) * (a - b))
    BY <1>5
  <2>4. Shifted(k)
    <3> HIDE DEF P, Q, R, v
    <3> DEFINE d == a - b
    <3>1. d \in Int /\ b = a - d
      OBVIOUS
    <3>2. (v - b) * (v - b) = (v - a) * (v - a) + 2 * d * (v - a) + d * d
      BY <2>1, <3>1
    <3>3. 2 * d * (R - (k - 1) * a) + 2 * d * (v - a) = 2 * d * ((R + v) - k * a)
      BY <2>1, <3>1
    <3>4. (k - 1) * (d * d) + d * d = k * (d * d)
      BY <2>1, <3>1
    <3>5. /\ 2 * d * (R - (k - 1) * a) \in Int /\ 2 * d * (v - a) \in Int
          /\ (k - 1) * (d * d) \in Int /\ (v - a) * (v - a) \in Int /\ d * d \in Int
      BY <2>1, <3>1
    <3>6. P = Q + 2 * d * (R - (k - 1) * a) + (k - 1) * (d * d)
      BY <2>3
    <3> DEFINE A1 == 2 * d * (R - (k - 1) * a)
    <3> DEFINE A2 == 2 * d * (v - a)
    <3> DEFINE A3 == (k - 1) * (d * d)
    <3> DEFINE A4 == (v - a) * (v - a)
    <3> DEFINE A5 == d * d
    <3> DEFINE A6 == 2 * d * ((R + v) - k * a)
    <3> DEFINE A7 == k * (d * d)
    <3>7. (v - b) * (v - b) = A4 + A2 + A5 /\ A1 + A2 = A6 /\ A3 + A5 = A7 /\ P = Q + A1 + A3
      BY <3>2, <3>3, <3>4, <3>6
    <3>8. A1 \in Int /\ A2 \in Int /\ A3 \in Int /\ A4 \in Int /\ A5 \in Int
      BY <3>5
    <3>9. p[k] = P + (v - b) * (v - b) /\ q[k] = Q + A4
      BY <2>2
    <3>10. p[k] = q[k] + A6 + A7
      <4> HIDE DEF A1, A2, A3, A4, A5, A6, A7
      <4> QED BY <2>1, <3>7, <3>8, <3>9
    <3>11. r[k] = R + v
      BY <2>2
    <3>12. p[k] = q[k] + 2 * d * (r[k] - k * a) + k * (d * d)
      BY <3>10, <3>11
    <3> QED BY <3>12
  <2> QED BY <2>0, <2>4
<1>6. \A k \in 0 .. n : k \in T
  <2> HIDE DEF T
  <2> QED BY <1>0, <1>4, <1>5, Induct
<1>7. Shifted(n)
  <2>1. n \in 0 .. n
    BY <1>0
  <2> QED BY <1>6, <2>1
<1> QED BY <1>1, <1>2, <1>3, <1>7 DEF n, x, y

-----------------------------------------------------------------------------
(* Numbers of ticks and units.                                             *)

LEMMA DivMod ==
  ASSUME NEW c \in Int, NEW L \in Int, L > 0
  PROVE  c \div L \in Int /\ c = L * (c \div L) + (c % L) /\ (c % L) \in 0 .. L - 1
OBVIOUS

LEMMA SameQuotient ==
  ASSUME NEW L \in Nat \ {0}, NEW q \in Int, NEW p \in Int,
         NEW r \in 0 .. L - 1, L * p + r = L * q
  PROVE  p = q
<1>1. L * (q - p) = r
  OBVIOUS
<1>2. ASSUME q > p PROVE FALSE
  <2>1. L * (q - p) >= L
    BY <1>2
  <2> QED BY <2>1, <1>1
<1>3. ASSUME p > q PROVE FALSE
  <2>1. L * (p - q) >= L
    BY <1>3
  <2> QED BY <2>1, <1>1
<1> QED BY <1>2, <1>3

(* A division without a remainder.                                         *)
LEMMA Quotient ==
  ASSUME NEW L \in Nat \ {0}, NEW q \in Int
  PROVE  (L * q) \div L = q
<1> DEFINE c == L * q
<1>1. c \in Int /\ L \in Int /\ L > 0
  OBVIOUS
<1>2. c \div L \in Int /\ c = L * (c \div L) + (c % L) /\ (c % L) \in 0 .. L - 1
  <2> HIDE DEF c
  <2> QED BY <1>1, DivMod
<1> DEFINE p == c \div L
<1> DEFINE r == c % L
<1>3. p \in Int /\ r \in 0 .. L - 1 /\ L * p + r = L * q
  BY <1>1, <1>2
<1> HIDE DEF p, r
<1>4. p = q
  BY <1>3, SameQuotient
<1> QED BY <1>4 DEF p

(* A ratio in the unit of the statistics is a multiple of every number of  *)
(* ticks that with its denominator divides the scale.                      *)
LEMMA ScaledDivides ==
  ASSUME NEW ratio, ratio[1] \in Int, ratio[2] \in Nat \ {0},
         NEW n \in Nat \ {0}, Scale % (n * ratio[2]) = 0
  PROVE  Scaled(ratio) \in Int /\ Divides(n, Scaled(ratio))
<1> DEFINE d == ratio[2]
<1> DEFINE k == Scale \div (n * d)
<1>1. n * d \in Int /\ n * d > 0 /\ Scale \in Int
  BY DownsamplerAssumption
<1>2. k \in Int /\ Scale = (n * d) * k
  <2> DEFINE L == n * d
  <2>1. L \in Int /\ L > 0 /\ Scale % L = 0
    BY <1>1
  <2>2. Scale \div L \in Int /\ Scale = L * (Scale \div L) + (Scale % L)
    <3> HIDE DEF L
    <3> QED BY <1>1, <2>1, DivMod
  <2> DEFINE j == Scale \div L
  <2>3. j \in Int /\ Scale = L * j + 0
    BY <2>1, <2>2
  <2>4. Scale = L * j
    <3> HIDE DEF j, L
    <3> QED BY <2>1, <2>3
  <2> QED BY <2>3, <2>4
<1> HIDE DEF k
<1>3. Scale = d * (n * k) /\ n * k \in Int
  BY <1>2
<1>4. Scale \div d = n * k
  <2> DEFINE j == n * k
  <2>1. j \in Int /\ Scale = d * j /\ d \in Nat \ {0}
    BY <1>3
  <2> HIDE DEF j, d
  <2>2. (d * j) \div d = j
    BY <2>1, Quotient
  <2>3. Scale \div d = j
    BY <2>1, <2>2
  <2> QED BY <2>3 DEF j, d
<1>5. Scaled(ratio) = ratio[1] * (n * k)
  BY <1>4 DEF Scaled
<1>6. ratio[1] * (n * k) = n * (ratio[1] * k) /\ ratio[1] * k \in Int
  BY <1>2
<1>7. n * (ratio[1] * k) \in Int
  BY <1>6
<1> QED BY <1>5, <1>6, <1>7 DEF Divides

(* What two successive numbers divide, their product divides.              *)
LEMMA Successive ==
  ASSUME NEW n \in Nat, NEW v \in Int, Divides(n, v), Divides(n + 1, v)
  PROVE  Divides(n * (n + 1), v)
<1>1. PICK p \in Int : v = n * p
  BY DEF Divides
<1>2. PICK q \in Int : v = (n + 1) * q
  BY DEF Divides
<1>3. v = (n + 1) * v - n * v
  OBVIOUS
<1>4. (n + 1) * v = (n + 1) * (n * p) /\ n * v = n * ((n + 1) * q)
  BY <1>1, <1>2
<1>5. (n + 1) * (n * p) = (n * (n + 1)) * p /\ n * ((n + 1) * q) = (n * (n + 1)) * q
  OBVIOUS
<1>6. (n * (n + 1)) * p - (n * (n + 1)) * q = (n * (n + 1)) * (p - q) /\ p - q \in Int
  OBVIOUS
<1>7. v = (n * (n + 1)) * (p - q)
  BY <1>3, <1>4, <1>5, <1>6
<1> QED BY <1>6, <1>7 DEF Divides

-----------------------------------------------------------------------------
(* Welford's algorithm.                                                    *)

IsExact(acc, values) == acc \in Accumulators /\ Exact(acc, values)

(* Welford's recurrence (MetricsAccumulator.update) takes the exact        *)
(* statistics of a sequence of values to those of the sequence with one    *)
(* more, if its two divisions are exact: if the number of values divides   *)
(* the values before and after the new one.                                *)
THEOREM WelfordExact ==
  ASSUME NEW acc, NEW s \in Seq(Int), IsExact(acc, s), NEW v \in Int,
         \A i \in 1 .. Len(s) : Divides(Len(s), s[i]) /\ Divides(Len(s) + 1, s[i]),
         Len(s) # 0 => Divides(Len(s), v),
         Divides(Len(s) + 1, v)
  PROVE  IsExact(Welford(acc, v), Append(s, v))
<1> DEFINE n == Len(s)
<1> DEFINE a == acc.mean
<1> DEFINE S == SumUp(s)
<1> DEFINE t == Append(s, v)
<1>1. n \in Nat /\ \A i \in 1 .. n : s[i] \in Int
  OBVIOUS
<1>2. /\ acc.count = n /\ a * n = S /\ a \in Int /\ acc.m2 = SumUp(Squares(s, a))
      /\ acc.min_value \in Extrema /\ acc.max_value \in Extrema
      /\ Least(acc.min_value, s) /\ Greatest(acc.max_value, s)
  BY DEF IsExact, Exact, Accumulators, Squares
<1>3. PICK d \in Int : v - a = (n + 1) * d
  <2>1. CASE n = 0
    <3>1. v - a = (n + 1) * (v - a) /\ v - a \in Int
      BY <1>2, <2>1
    <3> QED BY <3>1
  <2>2. CASE n # 0
    <3>1. \A i \in 1 .. n : Divides(n * (n + 1), s[i])
      BY <1>1, Successive
    <3>2. Divides(n * (n + 1), S)
      <4>1. n * (n + 1) \in Int
        BY <1>1
      <4> QED BY <3>1, <4>1, SumOfMultiples
    <3>3. PICK z \in Int : S = n * (n + 1) * z
      BY <3>2 DEF Divides
    <3>4. PICK w \in Int : v = (n + 1) * w
      BY DEF Divides
    <3>5. a = (n + 1) * z
      <4> HIDE DEF n, a, S
      <4>1. n * a = n * ((n + 1) * z) /\ (n + 1) * z \in Int
        BY <1>1, <1>2, <3>3
      <4> DEFINE y == (n + 1) * z
      <4>2. n * a + 0 = n * y /\ y \in Int /\ n \in Nat \ {0} /\ 0 \in 0 .. n - 1
        BY <1>1, <1>2, <2>2, <4>1
      <4> HIDE DEF y
      <4>3. a = y
        BY <1>2, <4>2, SameQuotient
      <4> QED BY <4>3 DEF y
    <3>6. v - a = (n + 1) * (w - z) /\ w - z \in Int
      <4> HIDE DEF n, a, S
      <4> QED BY <1>1, <3>4, <3>5
    <3> QED BY <3>6
  <2> QED BY <2>1, <2>2
<1> DEFINE b == a + d
<1>4. (v - a) \div (n + 1) = d
  <2> DEFINE L == n + 1
  <2>1. L \in Nat \ {0} /\ v - a = L * d
    BY <1>1, <1>3
  <2>2. (L * d) \div L = d
    <3> HIDE DEF L
    <3> QED BY <2>1, Quotient
  <2> QED BY <2>1, <2>2
<1> DEFINE lesser == Lesser(acc.min_value, v)
<1> DEFINE larger == Larger(acc.max_value, v)
<1>5. Welford(acc, v) =
        [count |-> n + 1, mean |-> b, m2 |-> acc.m2 + (v - a) * (v - b),
         min_value |-> lesser, max_value |-> larger]
  BY <1>2, <1>4 DEF Welford
<1>6. t \in Seq(Int) /\ Len(t) = n + 1 /\ SumUp(t) = S + v /\ S \in Int
      /\ lesser \in Extrema /\ larger \in Extrema
      /\ Least(lesser, t) /\ Greatest(larger, t)
  <2>1. t \in Seq(Int) /\ Len(t) = n + 1
    BY Appending
  <2>2. lesser \in Int /\ larger \in Int /\ Least(lesser, t) /\ Greatest(larger, t)
    BY <1>2, LeastAppend, GreatestAppend
  <2> QED BY <2>1, <2>2, SumAppend DEF Extrema
<1>7. b * (n + 1) = SumUp(t)
  <2>1. b \in Int /\ a \in Int /\ d \in Int /\ S \in Int /\ n \in Int
    BY <1>1, <1>2, <1>6
  <2>2. b * (n + 1) = a * n + a + (n + 1) * d
    <3> HIDE DEF n, a, S
    <3> QED BY <2>1
  <2> DEFINE A1 == a * n
  <2> DEFINE A2 == (n + 1) * d
  <2>3. b * (n + 1) = A1 + a + A2 /\ A1 = S /\ v - a = A2
    BY <1>2, <1>3, <2>2
  <2>4. A1 + a + A2 = S + v
    <3> HIDE DEF A1, A2, a, S
    <3> QED BY <2>1, <2>3
  <2> QED BY <1>6, <2>3, <2>4
<1>8. Squares(t, b) = Append(Squares(s, b), (v - b) * (v - b))
  <2> DEFINE x == Squares(s, b)
  <2> DEFINE w == (v - b) * (v - b)
  <2>1. /\ x \in Seq(Int) /\ Len(x) = n /\ b \in Int
        /\ \A i \in 1 .. n : x[i] = (s[i] - b) * (s[i] - b)
    <3>1. b \in Int
      BY <1>2
    <3> QED BY <3>1, SquaresType
  <2>2. /\ Squares(t, b) \in Seq(Int) /\ Len(Squares(t, b)) = n + 1
        /\ \A i \in 1 .. n + 1 : Squares(t, b)[i] = (t[i] - b) * (t[i] - b)
    <3> HIDE DEF t, b
    <3> QED BY <1>6, <2>1, SquaresType
  <2>3. w \in Int
    BY <2>1
  <2>4. /\ Append(x, w) \in Seq(Int) /\ Len(Append(x, w)) = n + 1
        /\ \A i \in 1 .. n : Append(x, w)[i] = x[i]
        /\ Append(x, w)[n + 1] = w
    <3> HIDE DEF x, w, n
    <3> QED BY <2>1, <2>3, Appending
  <2>5. (\A i \in 1 .. n : t[i] = s[i]) /\ t[n + 1] = v
    BY Appending
  <2>6. \A i \in 1 .. n + 1 : Squares(t, b)[i] = Append(x, w)[i]
    <3> TAKE i \in 1 .. n + 1
    <3>1. CASE i = n + 1
      BY <2>2, <2>4, <2>5, <3>1
    <3>2. CASE i # n + 1
      <4>1. i \in 1 .. n
        BY <1>1, <3>2
      <4>2. Squares(t, b)[i] = (t[i] - b) * (t[i] - b)
        BY <2>2
      <4> HIDE DEF t, b, n, x
      <4> QED BY <2>1, <2>4, <2>5, <4>1, <4>2
    <3> QED BY <3>1, <3>2
  <2> HIDE DEF x, t, b, w
  <2>7. Squares(t, b) = Append(x, w)
    BY <2>2, <2>4, <2>6, SameSequence
  <2> QED BY <2>7 DEF x, w
<1>9. SumUp(Squares(t, b)) = acc.m2 + (v - a) * (v - b)
  <2> DEFINE M == SumUp(Squares(s, a))
  <2> DEFINE N == SumUp(Squares(s, b))
  <2>1. a \in Int /\ b \in Int /\ d \in Int /\ n \in Int /\ S \in Int
    BY <1>1, <1>2, <1>6
  <2>2. Squares(s, b) \in Seq(Int) /\ Squares(s, a) \in Seq(Int)
    BY <2>1, SquaresType
  <2>3. M \in Int /\ N \in Int /\ SumUp(Squares(t, b)) = N + (v - b) * (v - b)
    <3> DEFINE w == (v - b) * (v - b)
    <3>1. w \in Int /\ Squares(t, b) = Append(Squares(s, b), w)
      BY <1>8, <2>1
    <3> HIDE DEF w, t, b
    <3>2. M \in Int /\ N \in Int /\ SumUp(Squares(t, b)) = N + w
      BY <2>2, <3>1, SumAppend
    <3> QED BY <3>2 DEF w
  <2>4. N = M + 2 * (a - b) * (S - n * a) + n * ((a - b) * (a - b))
    BY <2>1, SumShift
  <2> HIDE DEF M, N, n, S, a
  <2>5. S - n * a = 0 /\ a - b = -d
    BY <1>2, <2>1
  <2>6. N = M + n * (d * d)
    <3>1. 2 * (a - b) * (S - n * a) = 0
      BY <2>1, <2>5
    <3>2. n * ((a - b) * (a - b)) = n * (d * d)
      BY <2>1, <2>5
    <3>3. n * (d * d) \in Int
      BY <2>1
    <3> DEFINE A1 == n * (d * d)
    <3>4. N = M + 0 + A1 /\ A1 \in Int
      BY <2>4, <3>1, <3>2, <3>3
    <3> HIDE DEF A1
    <3>5. N = M + A1
      BY <2>3, <3>4
    <3> QED BY <3>5 DEF A1
  <2>7. v - b = n * d
    <3>1. v - b = (n + 1) * d - d
      BY <1>3, <2>1
    <3> QED BY <2>1, <3>1
  <2>8. (v - a) * (v - b) = ((n + 1) * d) * (n * d)
    BY <1>3, <2>7
  <2>9. ((n + 1) * d) * (n * d) = n * (d * d) + (n * d) * (n * d)
    BY <2>1
  <2>10. (v - b) * (v - b) = (n * d) * (n * d)
    BY <2>7
  <2> DEFINE A1 == n * (d * d)
  <2> DEFINE A2 == (n * d) * (n * d)
  <2>11. A1 \in Int /\ A2 \in Int
    BY <2>1
  <2>12. SumUp(Squares(t, b)) = M + A1 + A2 /\ (v - a) * (v - b) = A1 + A2
    BY <2>3, <2>6, <2>8, <2>9, <2>10
  <2> HIDE DEF A1, A2
  <2>13. SumUp(Squares(t, b)) = M + (v - a) * (v - b)
    <3> DEFINE A3 == (v - a) * (v - b)
    <3>1. A3 = A1 + A2
      BY <2>12
    <3> HIDE DEF A3
    <3>2. SumUp(Squares(t, b)) = M + A3
      BY <2>3, <2>11, <2>12, <3>1
    <3> QED BY <3>2 DEF A3
  <2> QED BY <1>2, <2>13 DEF M, a
<1>10. SumUp(Squares(t, b)) \in Int
  <2>1. b \in Int
    BY <1>2
  <2>2. Squares(t, b) \in Seq(Int)
    <3> HIDE DEF t, b
    <3> QED BY <1>6, <2>1, SquaresType
  <2> QED BY <2>2, SumAppend
<1>11. b \in Int /\ n + 1 \in Nat
  BY <1>1, <1>2
<1>12. Welford(acc, v) \in Accumulators
  <2> HIDE DEF t, b, n, lesser, larger
  <2> QED BY <1>5, <1>6, <1>9, <1>10, <1>11 DEF Accumulators
<1>13. Exact(Welford(acc, v), t)
  <2> DEFINE w == Welford(acc, v)
  <2>1. /\ w.count = n + 1 /\ w.mean = b /\ w.m2 = SumUp(Squares(t, b))
        /\ w.min_value = lesser /\ w.max_value = larger
    BY <1>5, <1>6, <1>9
  <2> HIDE DEF w, t, b, n, lesser, larger
  <2>2. Exact(w, t)
    BY <1>6, <1>7, <2>1 DEF Exact, Squares
  <2> QED BY <2>2 DEF w
<1> QED BY <1>12, <1>13 DEF IsExact

-----------------------------------------------------------------------------
(* Books and ticks.                                                        *)

Levels == Int \X Int

Books == [bids : Seq(Levels), asks : Seq(Levels)]

LEMMA Parameters ==
  /\ Depth \in Nat \ {0} /\ Harmonic \in Nat \ {0}
  /\ Scale \in Nat \ {0} /\ BucketSeconds \in Nat \ {0}
  /\ MaxTicks \in Nat /\ MaxClock \in Nat
  /\ Messages \subseteq Books
BY OrderBookAssumption, DownsamplerAssumption DEF Levels, Books

(* The best levels are the first ones.                                     *)
LEMMA TopIs ==
  ASSUME NEW side \in Seq(Levels)
  PROVE  /\ Top(side) \in Seq(Levels) /\ Len(side) \in Nat
         /\ Len(Top(side)) = IF Len(side) < Depth THEN Len(side) ELSE Depth
         /\ \A i \in 1 .. Len(Top(side)) : i \in 1 .. Len(side) /\ Top(side)[i] = side[i]
<1> DEFINE n == IF Len(side) < Depth THEN Len(side) ELSE Depth
<1>1. Len(side) \in Nat /\ n \in 0 .. Len(side)
  BY Parameters
<1>2. \A S : \A s \in Seq(S) : \A m \in 0 .. Len(s) :
        /\ SubSeq(s, 1, m) \in Seq(S) /\ Len(SubSeq(s, 1, m)) = m
        /\ \A i \in 1 .. m : SubSeq(s, 1, m)[i] = s[i]
  OBVIOUS
<1>3. Top(side) = SubSeq(side, 1, n)
  BY DEF Top
<1> HIDE DEF n
<1>4. /\ Top(side) \in Seq(Levels) /\ Len(Top(side)) = n
      /\ \A i \in 1 .. n : Top(side)[i] = side[i]
  BY <1>1, <1>2, <1>3
<1> QED BY <1>1, <1>4 DEF n

LEMMA LevelType ==
  ASSUME NEW side \in Seq(Levels)
  PROVE  /\ Len(side) \in Nat /\ DOMAIN side = 1 .. Len(side)
         /\ \A i \in 1 .. Len(side) : Price(side[i]) \in Int /\ Quantity(side[i]) \in Int
         /\ side # <<>> => 1 \in 1 .. Len(side) /\ Len(side) \in 1 .. Len(side)
<1>1. /\ Len(side) \in Nat /\ DOMAIN side = 1 .. Len(side)
      /\ \A i \in 1 .. Len(side) : side[i] \in Levels
  OBVIOUS
<1>2. \A level \in Levels : level[1] \in Int /\ level[2] \in Int
  BY DEF Levels
<1>3. side # <<>> => Len(side) # 0
  OBVIOUS
<1> QED BY <1>1, <1>2, <1>3 DEF Price, Quantity

LEMMA FunctionSequence ==
  ASSUME NEW n \in Nat, NEW f \in [1 .. n -> Int]
  PROVE  f \in Seq(Int) /\ Len(f) = n
OBVIOUS

(* The quantity of a side.                                                 *)
LEMMA Quantities ==
  ASSUME NEW side \in Seq(Levels), side # <<>>,
         \A i \in 1 .. Len(side) : Positive(side[i])
  PROVE  /\ TotalQuantity(side) \in Nat \ {0}
         /\ Quantity(side[1]) \in Nat \ {0} /\ Quantity(side[1]) <= TotalQuantity(side)
<1> DEFINE n == Len(side)
<1> DEFINE f == [i \in DOMAIN side |-> Quantity(side[i])]
<1>1. n \in Nat /\ DOMAIN side = 1 .. n /\ 1 \in 1 .. n
      /\ \A i \in 1 .. n : Quantity(side[i]) \in Int /\ Quantity(side[i]) > 0
  BY LevelType DEF Positive
<1>2. f \in [1 .. n -> Int] /\ \A i \in 1 .. n : f[i] = Quantity(side[i])
  BY <1>1
<1>3. TotalQuantity(side) = SumUp(f)
  BY DEF TotalQuantity
<1> HIDE DEF f, n
<1>4. f \in Seq(Int) /\ Len(f) = n
  BY <1>1, <1>2, FunctionSequence
<1>5. \A i \in 1 .. Len(f) : f[i] >= 0
  BY <1>1, <1>2, <1>4
<1>6. SumUp(f) \in Nat /\ f[1] <= SumUp(f) /\ f[1] = Quantity(side[1])
  BY <1>1, <1>2, <1>4, <1>5, SumOfPositive
<1> QED BY <1>1, <1>3, <1>6

LEMMA RatioIs ==
  ASSUME NEW bid \in Nat \ {0}, NEW ask \in Nat \ {0}
  PROVE  Ratio(bid, ask)[1] = bid - ask /\ Ratio(bid, ask)[2] = bid + ask
BY DEF Ratio

(* A tick of a book.                                                       *)
LEMMA TickIs ==
  ASSUME NEW raw \in Books, FromBinance(raw) # Rejected
  PROVE  LET tick == FromBinance(raw) IN
         /\ tick = [bids |-> Top(raw.bids), asks |-> Top(raw.asks)] /\ ValidTick(tick)
         /\ raw.bids \in Seq(Levels) /\ raw.asks \in Seq(Levels)
         /\ tick.bids \in Seq(Levels) /\ tick.asks \in Seq(Levels)
         /\ tick.bids # <<>> /\ tick.asks # <<>>
         /\ \A i \in 1 .. Len(tick.bids) : Positive(tick.bids[i])
         /\ \A i \in 1 .. Len(tick.asks) : Positive(tick.asks[i])
         /\ BestBid(tick) \in Nat \ {0} /\ BestAsk(tick) \in Nat \ {0}
<1> DEFINE tick == FromBinance(raw)
<1>1. tick = [bids |-> Top(raw.bids), asks |-> Top(raw.asks)] /\ ValidTick(tick)
  BY DEF FromBinance
<1>2. raw.bids \in Seq(Levels) /\ raw.asks \in Seq(Levels)
  BY DEF Books
<1>3. tick.bids = Top(raw.bids) /\ tick.asks = Top(raw.asks)
  BY <1>1
<1>4. tick.bids \in Seq(Levels) /\ tick.asks \in Seq(Levels)
  BY <1>2, <1>3, TopIs
<1> HIDE DEF tick
<1>5. /\ tick.bids # <<>> /\ tick.asks # <<>>
      /\ \A i \in DOMAIN tick.bids : Positive(tick.bids[i])
      /\ \A i \in DOMAIN tick.asks : Positive(tick.asks[i])
  BY <1>1 DEF ValidTick
<1>6. /\ \A i \in 1 .. Len(tick.bids) : Positive(tick.bids[i])
      /\ \A i \in 1 .. Len(tick.asks) : Positive(tick.asks[i])
  BY <1>4, <1>5, LevelType
<1>7. BestBid(tick) \in Nat \ {0} /\ BestAsk(tick) \in Nat \ {0}
  <2>1. Price(tick.bids[1]) \in Int /\ Price(tick.bids[1]) > 0
    BY <1>4, <1>5, <1>6, LevelType DEF Positive
  <2>2. Price(tick.asks[1]) \in Int /\ Price(tick.asks[1]) > 0
    BY <1>4, <1>5, <1>6, LevelType DEF Positive
  <2> QED BY <2>1, <2>2 DEF BestBid, BestAsk
<1> QED BY <1>1, <1>2, <1>4, <1>5, <1>6, <1>7 DEF tick

(* The numbers of a tick, in the unit of the statistics.                   *)
LEMMA TickNumbers ==
  ASSUME NEW tick \in Ticks
  PROVE  /\ Mid2(tick) \in Nat \ {0}
         /\ Scaled(Imbalance(tick)) \in Int \/ MaxTicks = 0
         /\ Scaled(Spread(tick)) \in Int \/ MaxTicks = 0
         /\ \A n \in 1 .. MaxTicks : /\ Divides(n, Scaled(Imbalance(tick)))
                                     /\ Divides(n, Scaled(Spread(tick)))
<1>1. PICK raw \in Books : tick = FromBinance(raw) /\ tick # Rejected
  BY Parameters DEF Ticks
<1>2. /\ tick.bids \in Seq(Levels) /\ tick.asks \in Seq(Levels)
      /\ tick.bids # <<>> /\ tick.asks # <<>>
      /\ \A i \in 1 .. Len(tick.bids) : Positive(tick.bids[i])
      /\ \A i \in 1 .. Len(tick.asks) : Positive(tick.asks[i])
      /\ BestBid(tick) \in Nat \ {0} /\ BestAsk(tick) \in Nat \ {0}
  BY <1>1, TickIs
<1>3. Mid2(tick) \in Nat \ {0}
  BY <1>2 DEF Mid2
<1>4. TotalQuantity(tick.bids) \in Nat \ {0} /\ TotalQuantity(tick.asks) \in Nat \ {0}
  BY <1>2, Quantities
<1>5. Imbalance(tick)[1] \in Int /\ Imbalance(tick)[2] \in Nat \ {0}
  <2> DEFINE bid == TotalQuantity(tick.bids)
  <2> DEFINE ask == TotalQuantity(tick.asks)
  <2>1. Imbalance(tick) = Ratio(bid, ask) /\ bid \in Nat \ {0} /\ ask \in Nat \ {0}
    BY <1>4 DEF Imbalance
  <2> HIDE DEF bid, ask
  <2>2. Imbalance(tick)[1] = bid - ask /\ Imbalance(tick)[2] = bid + ask
    BY <2>1, RatioIs
  <2> QED BY <2>1, <2>2
<1>6. Spread(tick)[1] \in Int /\ Spread(tick)[2] \in Nat \ {0}
  <2>1. Spread(tick)[1] = BestAsk(tick) - BestBid(tick) /\ Spread(tick)[2] = Mid2(tick)
    BY DEF Spread
  <2> QED BY <1>2, <1>3, <2>1
<1>7. ASSUME NEW n \in 1 .. MaxTicks
      PROVE  /\ Scaled(Imbalance(tick)) \in Int /\ Divides(n, Scaled(Imbalance(tick)))
             /\ Scaled(Spread(tick)) \in Int /\ Divides(n, Scaled(Spread(tick)))
  <2>1. n \in Nat \ {0} /\ Scale % (n * Imbalance(tick)[2]) = 0 /\ Scale % (n * Spread(tick)[2]) = 0
    BY UnitAssumption, Parameters
  <2>2. Scaled(Imbalance(tick)) \in Int /\ Divides(n, Scaled(Imbalance(tick)))
    BY <1>5, <2>1, ScaledDivides
  <2>3. Scaled(Spread(tick)) \in Int /\ Divides(n, Scaled(Spread(tick)))
    BY <1>6, <2>1, ScaledDivides
  <2> QED BY <2>2, <2>3
<1>8. MaxTicks # 0 => 1 \in 1 .. MaxTicks
  BY Parameters
<1> QED BY <1>3, <1>7, <1>8

-----------------------------------------------------------------------------
(* Buffers.                                                                *)

Stamps == [tick : Ticks, at : Nat]
OfTicks(F, ticks) == [i \in DOMAIN ticks |-> F[ticks[i].tick]]

LEMMA OfTicksAppend ==
  ASSUME NEW F \in [Ticks -> Int], NEW ticks \in Seq(Stamps), NEW x \in Stamps
  PROVE  /\ OfTicks(F, ticks) \in Seq(Int) /\ Len(OfTicks(F, ticks)) = Len(ticks)
         /\ \A i \in 1 .. Len(ticks) : /\ ticks[i].tick \in Ticks
                                       /\ OfTicks(F, ticks)[i] = F[ticks[i].tick]
         /\ OfTicks(F, Append(ticks, x)) = Append(OfTicks(F, ticks), F[x.tick])
<1> DEFINE n == Len(ticks)
<1> DEFINE u == Append(ticks, x)
<1> DEFINE s == OfTicks(F, ticks)
<1> DEFINE t == OfTicks(F, u)
<1>0. \A z \in Stamps : z.tick \in Ticks /\ F[z.tick] \in Int
  BY DEF Stamps
<1>1. /\ n \in Nat /\ DOMAIN ticks = 1 .. n /\ DOMAIN u = 1 .. n + 1
      /\ \A i \in 1 .. n : ticks[i] \in Stamps /\ u[i] = ticks[i]
      /\ u[n + 1] = x
  OBVIOUS
<1>2. s \in [1 .. n -> Int] /\ \A i \in 1 .. n : s[i] = F[ticks[i].tick]
  BY <1>0, <1>1 DEF OfTicks
<1>3. s \in Seq(Int) /\ Len(s) = n
  <2> HIDE DEF s
  <2> QED BY <1>1, <1>2, FunctionSequence
<1>4. \A i \in 1 .. n + 1 : u[i] \in Stamps /\ t[i] = F[u[i].tick]
  <2> TAKE i \in 1 .. n + 1
  <2>1. i \in 1 .. n \/ i = n + 1
    BY <1>1
  <2>2. u[i] \in Stamps
    BY <1>1, <2>1
  <2>3. t[i] = F[u[i].tick]
    BY <1>1 DEF OfTicks
  <2> QED BY <2>2, <2>3
<1>5. t \in [1 .. n + 1 -> Int]
  BY <1>0, <1>1, <1>4 DEF OfTicks
<1>6. t \in Seq(Int) /\ Len(t) = n + 1
  <2> HIDE DEF t
  <2> QED BY <1>1, <1>5, FunctionSequence
<1> DEFINE v == F[x.tick]
<1>7. v \in Int
  BY <1>0
<1>8. /\ Append(s, v) \in Seq(Int) /\ Len(Append(s, v)) = n + 1
      /\ \A i \in 1 .. n : Append(s, v)[i] = s[i]
      /\ Append(s, v)[n + 1] = v
  <2> HIDE DEF s, v, n
  <2> QED BY <1>3, <1>7, Appending
<1>9. \A i \in 1 .. n + 1 : t[i] = Append(s, v)[i]
  <2> TAKE i \in 1 .. n + 1
  <2>1. CASE i = n + 1
    BY <1>1, <1>4, <1>8, <2>1
  <2>2. CASE i # n + 1
    <3>1. i \in 1 .. n
      BY <1>1, <2>2
    <3>2. t[i] = F[ticks[i].tick] /\ s[i] = F[ticks[i].tick]
      BY <1>1, <1>2, <1>4, <3>1
    <3> HIDE DEF t, s, v, n
    <3> QED BY <1>8, <3>1, <3>2
  <2> QED BY <2>1, <2>2
<1>10. t = Append(s, v)
  <2> HIDE DEF t, s, v, n
  <2> QED BY <1>6, <1>8, <1>9, SameSequence
<1> QED BY <1>0, <1>1, <1>2, <1>3, <1>10

ImbalanceOf == [t \in Ticks |-> Scaled(Imbalance(t))]
SpreadOf == [t \in Ticks |-> Scaled(Spread(t))]
MidOf == [t \in Ticks |-> Mid2(t)]

LEMMA NumbersOf ==
  ASSUME MaxTicks # 0
  PROVE  ImbalanceOf \in [Ticks -> Int] /\ SpreadOf \in [Ticks -> Int] /\ MidOf \in [Ticks -> Int]
<1>1. \A t \in Ticks : Scaled(Imbalance(t)) \in Int /\ Scaled(Spread(t)) \in Int /\ Mid2(t) \in Int
  BY TickNumbers
<1> QED BY <1>1 DEF ImbalanceOf, SpreadOf, MidOf

LEMMA BufferFields ==
  ASSUME NEW b \in Buffers
  PROVE  /\ b.ticks \in Seq(Stamps) /\ Len(b.ticks) \in Nat /\ DOMAIN b.ticks = 1 .. Len(b.ticks)
         /\ \A i \in 1 .. Len(b.ticks) : b.ticks[i].tick \in Ticks /\ b.ticks[i].at \in Nat
         /\ b.imbalance_acc \in Accumulators /\ b.spread_acc \in Accumulators
         /\ b.price_first \in Int /\ b.price_last \in Int
         /\ b.price_high \in Extrema /\ b.price_low \in Extrema /\ b.created_at \in Nat
         /\ b.opened \in {"tick", "flush"}
<1>1. b.ticks \in Seq(Stamps)
  BY DEF Buffers, Stamps
<1>2. \A ticks \in Seq(Stamps) : /\ Len(ticks) \in Nat /\ DOMAIN ticks = 1 .. Len(ticks)
                                 /\ \A i \in 1 .. Len(ticks) : ticks[i] \in Stamps
  OBVIOUS
<1>3. \A z \in Stamps : z.tick \in Ticks /\ z.at \in Nat
  BY DEF Stamps
<1>4. \A i \in 1 .. Len(b.ticks) : b.ticks[i].tick \in Ticks /\ b.ticks[i].at \in Nat
  BY <1>1, <1>2, <1>3
<1> QED BY <1>1, <1>2, <1>4 DEF Buffers

(* BufferExact, without the operators it passes.                           *)
LEMMA BufferExactIs ==
  ASSUME NEW b \in Buffers
  PROVE  BufferExact(b) <=>
           LET mids == OfTicks(MidOf, b.ticks) IN
           /\ Exact(b.imbalance_acc, OfTicks(ImbalanceOf, b.ticks))
           /\ Exact(b.spread_acc, OfTicks(SpreadOf, b.ticks))
           /\ Least(b.price_low, mids) /\ Greatest(b.price_high, mids)
           /\ b.price_first = IF mids = <<>> THEN 0 ELSE Head(mids)
           /\ mids # <<>> => b.price_last = Last(mids)
<1>1. \A i \in DOMAIN b.ticks : b.ticks[i].tick \in Ticks
  BY BufferFields
<1>2. Values(b.ticks, Mid2) = OfTicks(MidOf, b.ticks)
  BY <1>1 DEF Values, OfTicks, MidOf
<1>3. Values(b.ticks, LAMBDA t : Scaled(Imbalance(t))) = OfTicks(ImbalanceOf, b.ticks)
  BY <1>1 DEF Values, OfTicks, ImbalanceOf
<1>4. Values(b.ticks, LAMBDA t : Scaled(Spread(t))) = OfTicks(SpreadOf, b.ticks)
  BY <1>1 DEF Values, OfTicks, SpreadOf
<1> QED BY <1>2, <1>3, <1>4 DEF BufferExact

LEMMA NewBufferIs ==
  ASSUME NEW now \in Nat, NEW opened \in {"tick", "flush"}
  PROVE  LET b == NewBuffer(now, opened) IN
         /\ b \in Buffers /\ b.ticks = <<>> /\ Len(b.ticks) = 0
         /\ b.created_at = now /\ b.opened = opened /\ BufferExact(b)
<1> DEFINE b == NewBuffer(now, opened)
<1>1. Empty \in Accumulators
  BY DEF Empty, Accumulators, Extrema
<1>2. <<>> \in Seq(Stamps) /\ Len(<<>>) = 0
  OBVIOUS
<1>3. b \in Buffers
  BY <1>1, <1>2 DEF NewBuffer, Buffers, Stamps, Extrema
<1>4. b.ticks = <<>> /\ b.created_at = now /\ b.opened = opened
  BY DEF NewBuffer
<1>5. \A F : OfTicks(F, <<>>) = <<>>
  BY DEF OfTicks
<1>6. Exact(Empty, <<>>)
  <2>1. [i \in DOMAIN <<>> |-> (<<>>[i] - Empty.mean) * (<<>>[i] - Empty.mean)] = <<>>
    OBVIOUS
  <2>2. Empty.mean * Empty.count = 0
    BY DEF Empty
  <2> QED BY <1>2, <2>1, <2>2, OfNothing DEF Exact, Empty
<1>7. BufferExact(b)
  <2>1. /\ b.imbalance_acc = Empty /\ b.spread_acc = Empty
        /\ b.price_low = Infinite /\ b.price_high = Infinite
        /\ b.price_first = 0
    BY DEF NewBuffer
  <2> HIDE DEF b
  <2> QED BY <1>3, <1>4, <1>5, <1>6, <2>1, OfNothing, BufferExactIs
<1> QED BY <1>2, <1>3, <1>4, <1>7

LEMMA AddFields ==
  ASSUME NEW c \in Buffers, NEW tick \in Ticks, clock \in Nat
  PROVE  LET b == AddToBuffer(c, tick) IN
         /\ b.ticks = Append(c.ticks, Stamped(tick))
         /\ b.imbalance_acc = Welford(c.imbalance_acc, Scaled(Imbalance(tick)))
         /\ b.spread_acc = Welford(c.spread_acc, Scaled(Spread(tick)))
         /\ b.price_first = IF c.price_first = 0 THEN Mid2(tick) ELSE c.price_first
         /\ b.price_last = Mid2(tick)
         /\ b.price_high = Larger(c.price_high, Mid2(tick))
         /\ b.price_low = Lesser(c.price_low, Mid2(tick))
         /\ b.created_at = c.created_at /\ b.opened = c.opened
         /\ b = [ticks |-> b.ticks, imbalance_acc |-> b.imbalance_acc, spread_acc |-> b.spread_acc,
                 price_first |-> b.price_first, price_last |-> b.price_last,
                 price_high |-> b.price_high, price_low |-> b.price_low,
                 created_at |-> b.created_at, opened |-> b.opened]
BY DEF AddToBuffer

(* A tick added to a buffer with exact statistics.                         *)
LEMMA AddExact ==
  ASSUME NEW c \in Buffers, NEW tick \in Ticks, clock \in Nat,
         Len(c.ticks) < MaxTicks, BufferExact(c)
  PROVE  AddToBuffer(c, tick) \in Buffers /\ BufferExact(AddToBuffer(c, tick))
<1> DEFINE b == AddToBuffer(c, tick)
<1> DEFINE n == Len(c.ticks)
<1> DEFINE x == Stamped(tick)
<1>1. /\ c.ticks \in Seq(Stamps) /\ n \in Nat /\ MaxTicks \in Nat /\ MaxTicks # 0
      /\ n + 1 \in 1 .. MaxTicks /\ n # 0 => n \in 1 .. MaxTicks
  BY BufferFields, Parameters
<1>2. x \in Stamps /\ x.tick = tick
  BY DEF Stamped, Stamps
<1>3. ASSUME NEW F \in [Ticks -> Int], NEW acc \in Accumulators,
             Exact(acc, OfTicks(F, c.ticks)),
             \A t \in Ticks : \A k \in 1 .. MaxTicks : Divides(k, F[t])
      PROVE  LET wel == Welford(acc, F[tick]) IN
             wel \in Accumulators /\ Exact(wel, OfTicks(F, Append(c.ticks, x)))
  <2> DEFINE s == OfTicks(F, c.ticks)
  <2>1. /\ s \in Seq(Int) /\ Len(s) = n /\ F[tick] \in Int
        /\ \A i \in 1 .. n : s[i] = F[c.ticks[i].tick] /\ c.ticks[i].tick \in Ticks
        /\ OfTicks(F, Append(c.ticks, x)) = Append(s, F[tick])
    BY <1>1, <1>2, OfTicksAppend
  <2>2. \A i \in 1 .. n : Divides(n, s[i]) /\ Divides(n + 1, s[i])
    <3> TAKE i \in 1 .. n
    <3>1. n # 0
      BY <1>1
    <3>2. s[i] = F[c.ticks[i].tick] /\ c.ticks[i].tick \in Ticks
      BY <2>1
    <3> QED BY <1>1, <1>3, <3>1, <3>2
  <2>3. (n # 0 => Divides(n, F[tick])) /\ Divides(n + 1, F[tick])
    BY <1>1, <1>3
  <2>4. IsExact(acc, s)
    BY <1>3 DEF IsExact
  <2> HIDE DEF s, n
  <2>5. IsExact(Welford(acc, F[tick]), Append(s, F[tick]))
    BY <2>1, <2>2, <2>3, <2>4, WelfordExact
  <2> QED BY <2>1, <2>5 DEF IsExact
<1> DEFINE mids == OfTicks(MidOf, c.ticks)
<1> DEFINE mid == Mid2(tick)
<1>4. /\ c.imbalance_acc \in Accumulators /\ c.spread_acc \in Accumulators
      /\ c.price_first \in Int /\ c.price_last \in Int /\ c.price_high \in Extrema
      /\ c.price_low \in Extrema /\ c.created_at \in Nat /\ c.opened \in {"tick", "flush"}
  BY BufferFields
<1>5. /\ Exact(c.imbalance_acc, OfTicks(ImbalanceOf, c.ticks))
      /\ Exact(c.spread_acc, OfTicks(SpreadOf, c.ticks))
      /\ Least(c.price_low, mids) /\ Greatest(c.price_high, mids)
      /\ c.price_first = IF mids = <<>> THEN 0 ELSE Head(mids)
  BY BufferExactIs
<1>6. /\ b.imbalance_acc \in Accumulators
      /\ Exact(b.imbalance_acc, OfTicks(ImbalanceOf, b.ticks))
  <2>1. \A t \in Ticks : \A k \in 1 .. MaxTicks : Divides(k, ImbalanceOf[t])
    BY TickNumbers DEF ImbalanceOf
  <2>2. ImbalanceOf \in [Ticks -> Int] /\ ImbalanceOf[tick] = Scaled(Imbalance(tick))
    BY <1>1, NumbersOf DEF ImbalanceOf
  <2>3. /\ b.imbalance_acc = Welford(c.imbalance_acc, ImbalanceOf[tick])
        /\ b.ticks = Append(c.ticks, x)
    BY <2>2, AddFields
  <2> HIDE DEF b, x
  <2> QED BY <1>3, <1>4, <1>5, <2>1, <2>2, <2>3
<1>7. /\ b.spread_acc \in Accumulators
      /\ Exact(b.spread_acc, OfTicks(SpreadOf, b.ticks))
  <2>1. \A t \in Ticks : \A k \in 1 .. MaxTicks : Divides(k, SpreadOf[t])
    BY TickNumbers DEF SpreadOf
  <2>2. SpreadOf \in [Ticks -> Int] /\ SpreadOf[tick] = Scaled(Spread(tick))
    BY <1>1, NumbersOf DEF SpreadOf
  <2>3. /\ b.spread_acc = Welford(c.spread_acc, SpreadOf[tick])
        /\ b.ticks = Append(c.ticks, x)
    BY <2>2, AddFields
  <2> HIDE DEF b, x
  <2> QED BY <1>3, <1>4, <1>5, <2>1, <2>2, <2>3
<1>8. /\ mids \in Seq(Int) /\ Len(mids) = n /\ mid \in Nat \ {0}
      /\ \A i \in 1 .. n : mids[i] # 0
      /\ OfTicks(MidOf, b.ticks) = Append(mids, mid)
  <2>1. MidOf \in [Ticks -> Int] /\ MidOf[tick] = mid /\ mid \in Nat \ {0}
    BY <1>1, NumbersOf, TickNumbers DEF MidOf
  <2>2. b.ticks = Append(c.ticks, x)
    BY AddFields
  <2>3. /\ mids \in Seq(Int) /\ Len(mids) = n
        /\ \A i \in 1 .. n : mids[i] = MidOf[c.ticks[i].tick] /\ c.ticks[i].tick \in Ticks
        /\ OfTicks(MidOf, Append(c.ticks, x)) = Append(mids, MidOf[x.tick])
    BY <1>1, <1>2, <2>1, OfTicksAppend
  <2>4. \A t \in Ticks : MidOf[t] # 0
    BY TickNumbers DEF MidOf
  <2> QED BY <1>2, <2>1, <2>2, <2>3, <2>4
<1> HIDE DEF mids, mid
<1>9. /\ Lesser(c.price_low, mid) \in Int /\ Larger(c.price_high, mid) \in Int
      /\ Least(Lesser(c.price_low, mid), Append(mids, mid))
      /\ Greatest(Larger(c.price_high, mid), Append(mids, mid))
  <2>1. mids \in Seq(Int) /\ mid \in Int /\ Least(c.price_low, mids) /\ Greatest(c.price_high, mids)
    BY <1>5, <1>8
  <2>2. Lesser(c.price_low, mid) \in Int /\ Least(Lesser(c.price_low, mid), Append(mids, mid))
    BY <1>4, <2>1, LeastAppend
  <2>3. Larger(c.price_high, mid) \in Int /\ Greatest(Larger(c.price_high, mid), Append(mids, mid))
    BY <1>4, <2>1, GreatestAppend
  <2> QED BY <2>2, <2>3
<1>10. /\ Append(mids, mid) # <<>> /\ Last(Append(mids, mid)) = mid
       /\ Head(Append(mids, mid)) = IF mids = <<>> THEN mid ELSE Head(mids)
  <2>1. /\ Append(mids, mid) \in Seq(Int) /\ Len(Append(mids, mid)) = n + 1
        /\ \A i \in 1 .. n : Append(mids, mid)[i] = mids[i]
        /\ Append(mids, mid)[n + 1] = mid
    <3> HIDE DEF n
    <3> QED BY <1>8, Appending
  <2>2. \A s \in Seq(Int) : Head(s) = s[1] /\ (Len(s) # 0 => s # <<>>) /\ (s = <<>> <=> Len(s) = 0)
    BY DEF Head
  <2>3. Last(Append(mids, mid)) = mid
    BY <2>1 DEF Last
  <2>4. Head(Append(mids, mid)) = IF mids = <<>> THEN mid ELSE Head(mids)
    <3>1. CASE mids = <<>>
      BY <1>8, <2>1, <2>2, <3>1
    <3>2. CASE mids # <<>>
      <4>1. 1 \in 1 .. n
        BY <1>1, <1>8, <2>2, <3>2
      <4>2. Append(mids, mid)[1] = mids[1]
        BY <2>1, <4>1
      <4> QED BY <1>8, <2>1, <2>2, <3>2, <4>2
    <3> QED BY <3>1, <3>2
  <2>5. n + 1 # 0
    BY <1>1
  <2>6. Append(mids, mid) # <<>>
    <3> HIDE DEF n
    <3> QED BY <2>1, <2>2, <2>5
  <2> QED BY <2>3, <2>4, <2>6
<1>11. mids # <<>> => Head(mids) # 0
  <2>1. ASSUME mids # <<>> PROVE Head(mids) # 0
    <3>1. Head(mids) = mids[1] /\ Len(mids) # 0
      BY <1>8, <2>1 DEF Head
    <3>2. 1 \in 1 .. n
      BY <1>1, <1>8, <3>1
    <3> QED BY <1>8, <3>1, <3>2
  <2> QED BY <2>1
<1>12. /\ b.price_last = mid
       /\ b.price_high = Larger(c.price_high, mid) /\ b.price_low = Lesser(c.price_low, mid)
       /\ b.price_first = IF c.price_first = 0 THEN mid ELSE c.price_first
       /\ b.created_at = c.created_at /\ b.opened = c.opened
       /\ b.ticks = Append(c.ticks, x)
  BY AddFields DEF mid
<1>13. b.price_first = Head(Append(mids, mid))
  BY <1>5, <1>10, <1>11, <1>12
<1>14. b \in Buffers
  <2>1. b.ticks \in Seq(Stamps)
    <3>1. \A s \in Seq(Stamps) : \A y \in Stamps : Append(s, y) \in Seq(Stamps)
      OBVIOUS
    <3> QED BY <1>1, <1>2, <1>12, <3>1
  <2>2. /\ b.price_first \in Int /\ b.price_last \in Int
        /\ b.price_high \in Extrema /\ b.price_low \in Extrema
        /\ b.created_at \in Nat /\ b.opened \in {"tick", "flush"}
    BY <1>4, <1>8, <1>9, <1>12 DEF Extrema
  <2>3. b = [ticks |-> b.ticks, imbalance_acc |-> b.imbalance_acc, spread_acc |-> b.spread_acc,
             price_first |-> b.price_first, price_last |-> b.price_last,
             price_high |-> b.price_high, price_low |-> b.price_low,
             created_at |-> b.created_at, opened |-> b.opened]
    BY AddFields
  <2> HIDE DEF b
  <2> QED BY <1>6, <1>7, <2>1, <2>2, <2>3 DEF Buffers, Stamps
<1>15. BufferExact(b)
  <2> HIDE DEF b
  <2> QED BY <1>5, <1>6, <1>7, <1>8, <1>9, <1>10, <1>12, <1>13, <1>14, BufferExactIs
<1> QED BY <1>14, <1>15

-----------------------------------------------------------------------------
(* Steps.                                                                  *)

Inside(b) ==
  \A i \in DOMAIN b.ticks :
     /\ b.opened = "flush" => b.created_at <= b.ticks[i].at
     /\ i = 1 /\ b.opened = "tick" => b.ticks[i].at <= b.created_at
     /\ i > 1 => /\ b.created_at <= b.ticks[i].at
                 /\ b.ticks[i].at < b.created_at + BucketSeconds
                 /\ b.ticks[i - 1].at <= b.ticks[i].at

(* A buffer made or reset for a tick has that tick at once.                *)
Good(b, count, now) ==
  /\ b \in Buffers /\ Len(b.ticks) <= count /\ b.created_at <= now
  /\ BufferExact(b) /\ Inside(b)
  /\ \A i \in DOMAIN b.ticks : b.ticks[i].at <= now
  /\ b.opened = "tick" => b.ticks # <<>>

(* The inductive invariant: StatisticsExact and WithinBounds, of the       *)
(* buffers in use and of those of the metrics made.                        *)
IInv ==
  /\ clock \in 0 .. MaxClock /\ received \in 0 .. MaxTicks
  /\ latest \in Messages \cup {[bids |-> <<>>, asks |-> <<>>]}
  /\ DOMAIN buffers \subseteq Symbols
  /\ \A s \in DOMAIN buffers : Good(buffers[s], received, clock)
  /\ \A m \in handed \cup dropped :
       m.symbol \in Symbols /\ m.of.ticks # <<>> /\ Good(m.of, received, clock)

LEMMA NewBufferGood ==
  ASSUME NEW now \in Nat, NEW count \in Nat
  PROVE  Good(NewBuffer(now, "flush"), count, now)
<1> DEFINE b == NewBuffer(now, "flush")
<1>1. /\ b \in Buffers /\ b.ticks = <<>> /\ Len(b.ticks) = 0
      /\ b.created_at = now /\ b.opened = "flush" /\ BufferExact(b)
  BY NewBufferIs
<1> HIDE DEF b
<1>2. DOMAIN b.ticks = {}
  BY <1>1
<1>3. Good(b, count, now)
  BY <1>1, <1>2 DEF Good, Inside
<1> QED BY <1>3 DEF b

(* The ticks of a buffer with one more.                                    *)
LEMMA AddTicks ==
  ASSUME clock \in Nat, NEW c \in Buffers, NEW tick \in Ticks,
         Len(c.ticks) < MaxTicks, BufferExact(c)
  PROVE  LET b == AddToBuffer(c, tick)
             n == Len(c.ticks)
         IN  /\ b \in Buffers /\ BufferExact(b)
             /\ b.created_at = c.created_at /\ b.opened = c.opened
             /\ n \in Nat /\ Len(b.ticks) = n + 1 /\ DOMAIN b.ticks = 1 .. n + 1
             /\ DOMAIN c.ticks = 1 .. n /\ b.ticks # <<>>
             /\ \A i \in 1 .. n : b.ticks[i] = c.ticks[i] /\ c.ticks[i].at \in Nat
             /\ b.ticks[n + 1].at = clock
<1> DEFINE b == AddToBuffer(c, tick)
<1> DEFINE n == Len(c.ticks)
<1>1. /\ c.ticks \in Seq(Stamps) /\ n \in Nat /\ DOMAIN c.ticks = 1 .. n
      /\ \A i \in 1 .. n : c.ticks[i].at \in Nat
  BY BufferFields
<1>2. b.ticks = Append(c.ticks, Stamped(tick)) /\ b.created_at = c.created_at /\ b.opened = c.opened
  BY AddFields
<1>3. Stamped(tick) \in Stamps /\ Stamped(tick).at = clock
  BY DEF Stamped, Stamps
<1>4. b \in Buffers /\ BufferExact(b)
  BY AddExact
<1> HIDE DEF b
<1>5. /\ Len(b.ticks) = n + 1 /\ DOMAIN b.ticks = 1 .. n + 1
      /\ \A i \in 1 .. n : b.ticks[i] = c.ticks[i]
      /\ b.ticks[n + 1] = Stamped(tick) /\ b.ticks # <<>>
  <2> DEFINE x == Stamped(tick)
  <2>1. b.ticks = Append(c.ticks, x) /\ x \in Stamps
    BY <1>2, <1>3
  <2> HIDE DEF x
  <2>2. /\ Len(b.ticks) = n + 1 /\ DOMAIN b.ticks = 1 .. n + 1
        /\ \A i \in 1 .. n : b.ticks[i] = c.ticks[i]
        /\ b.ticks[n + 1] = x /\ b.ticks # <<>>
    BY <1>1, <2>1
  <2> QED BY <2>2 DEF x
<1> QED BY <1>1, <1>2, <1>3, <1>4, <1>5 DEF b

(* add_tick ends a bucket before it adds a tick after the bucket's end:    *)
(* the buffer it keeps is asked after the message was stamped.             *)
LEMMA AddGood ==
  ASSUME clock \in Nat, NEW count \in Nat, count < MaxTicks, NEW now \in Nat, clock <= now,
         NEW c, Good(c, count, clock), NEW tick \in Ticks,
         c.ticks = <<>> \/ ~ShouldFlush(c, now)
  PROVE  Good(AddToBuffer(c, tick), count + 1, clock) /\ AddToBuffer(c, tick).ticks # <<>>
<1> DEFINE b == AddToBuffer(c, tick)
<1> DEFINE n == Len(c.ticks)
<1>1. /\ c \in Buffers /\ n <= count /\ c.created_at <= clock
      /\ BufferExact(c) /\ Inside(c)
      /\ \A i \in DOMAIN c.ticks : c.ticks[i].at <= clock
      /\ c.opened = "tick" => c.ticks # <<>>
  BY DEF Good
<1>2. c.created_at \in Nat /\ BucketSeconds \in Nat /\ MaxTicks \in Nat /\ n \in Nat
  BY <1>1, BufferFields, Parameters
<1>3. /\ b \in Buffers /\ BufferExact(b)
      /\ b.created_at = c.created_at /\ b.opened = c.opened
      /\ Len(b.ticks) = n + 1 /\ DOMAIN b.ticks = 1 .. n + 1
      /\ DOMAIN c.ticks = 1 .. n /\ b.ticks # <<>>
      /\ \A i \in 1 .. n : b.ticks[i] = c.ticks[i] /\ c.ticks[i].at \in Nat
      /\ b.ticks[n + 1].at = clock
  BY <1>1, <1>2, AddTicks
<1> HIDE DEF b
<1>4. ASSUME NEW i \in 1 .. n + 1
      PROVE  /\ b.opened = "flush" => b.created_at <= b.ticks[i].at
             /\ i = 1 /\ b.opened = "tick" => b.ticks[i].at <= b.created_at
             /\ i > 1 => /\ b.created_at <= b.ticks[i].at
                         /\ b.ticks[i].at < b.created_at + BucketSeconds
                         /\ b.ticks[i - 1].at <= b.ticks[i].at
             /\ b.ticks[i].at <= clock
  <2>1. CASE i # n + 1
    <3>1. i \in 1 .. n /\ (i > 1 => i - 1 \in 1 .. n)
      BY <1>2, <2>1
    <3>2. b.ticks[i] = c.ticks[i] /\ (i > 1 => b.ticks[i - 1] = c.ticks[i - 1])
      BY <1>3, <3>1
    <3> HIDE DEF n
    <3> QED BY <1>1, <1>3, <3>1, <3>2 DEF Inside
  <2>2. CASE i = n + 1
    <3>1. b.ticks[i].at = clock
      BY <1>3, <2>2
    <3>2. CASE n = 0
      <4>1. i = 1 /\ c.ticks = <<>>
        BY <1>1, <2>2, <3>2, BufferFields
      <4> QED BY <1>1, <1>2, <1>3, <3>1, <4>1
    <3>3. CASE n # 0
      <4>1. c.ticks # <<>> /\ n \in 1 .. n /\ i - 1 = n /\ i > 1
        BY <1>2, <2>2, <3>3
      <4>2. clock < c.created_at + BucketSeconds
        BY <1>2, <4>1 DEF ShouldFlush
      <4>3. b.ticks[n].at <= clock
        <5> HIDE DEF n
        <5> QED BY <1>1, <1>3, <4>1
      <4> HIDE DEF n
      <4> QED BY <1>1, <1>2, <1>3, <3>1, <4>1, <4>2, <4>3
    <3> QED BY <3>2, <3>3
  <2> QED BY <2>1, <2>2
<1>5. Inside(b) /\ \A i \in DOMAIN b.ticks : b.ticks[i].at <= clock
  BY <1>3, <1>4 DEF Inside
<1>6. Len(b.ticks) <= count + 1
  BY <1>1, <1>2, <1>3
<1>7. Good(b, count + 1, clock) /\ b.ticks # <<>>
  BY <1>1, <1>3, <1>5, <1>6 DEF Good
<1> QED BY <1>7 DEF b

(* A buffer made or reset for a tick begins after the tick was stamped.    *)
LEMMA AddNew ==
  ASSUME clock \in Nat, NEW count \in Nat, count < MaxTicks, NEW now \in Nat, clock <= now,
         NEW tick \in Ticks
  PROVE  LET b == AddToBuffer(NewBuffer(now, "tick"), tick) IN
         Good(b, count + 1, now) /\ b.ticks # <<>>
<1> DEFINE c == NewBuffer(now, "tick")
<1> DEFINE b == AddToBuffer(c, tick)
<1>1. /\ c \in Buffers /\ c.ticks = <<>> /\ Len(c.ticks) = 0
      /\ c.created_at = now /\ c.opened = "tick" /\ BufferExact(c)
  BY NewBufferIs
<1>2. MaxTicks \in Nat /\ 0 < MaxTicks
  BY Parameters
<1> HIDE DEF c
<1>3. /\ b \in Buffers /\ BufferExact(b) /\ b.created_at = now /\ b.opened = "tick"
      /\ Len(b.ticks) = 1 /\ DOMAIN b.ticks = 1 .. 1 /\ b.ticks # <<>> /\ b.ticks[1].at = clock
  <2>1. /\ b \in Buffers /\ BufferExact(b)
        /\ b.created_at = c.created_at /\ b.opened = c.opened
        /\ Len(b.ticks) = Len(c.ticks) + 1 /\ DOMAIN b.ticks = 1 .. Len(c.ticks) + 1
        /\ b.ticks # <<>> /\ b.ticks[Len(c.ticks) + 1].at = clock
    BY <1>1, <1>2, AddTicks
  <2> HIDE DEF b
  <2> QED BY <1>1, <2>1
<1> HIDE DEF b
<1>4. \A i \in DOMAIN b.ticks : i = 1
  BY <1>3
<1>5. Inside(b) /\ \A i \in DOMAIN b.ticks : b.ticks[i].at <= now
  BY <1>3, <1>4 DEF Inside
<1>6. Good(b, count + 1, now) /\ b.ticks # <<>>
  BY <1>3, <1>5 DEF Good
<1> QED BY <1>6 DEF b, c

LEMMA GoodLater ==
  ASSUME NEW b, NEW count \in Nat, NEW now \in Nat, NEW later \in Nat,
         NEW more \in Nat, Good(b, count, now), count <= more, now <= later
  PROVE  Good(b, more, later)
<1>1. /\ b \in Buffers /\ Len(b.ticks) \in Nat /\ b.created_at \in Nat
      /\ \A i \in DOMAIN b.ticks : b.ticks[i].at \in Nat
  BY BufferFields DEF Good
<1>2. \A i \in DOMAIN b.ticks : b.ticks[i].at <= later
  BY <1>1 DEF Good
<1> QED BY <1>1, <1>2 DEF Good

LEMMA IInvMeans == IInv => StatisticsExact /\ WithinBounds
<1> SUFFICES ASSUME IInv PROVE StatisticsExact /\ WithinBounds
  OBVIOUS
<1>1. \A b \in Held : Good(b, received, clock)
  BY DEF IInv, Held
<1>2. \A b \in Held : /\ b \in Buffers /\ Len(b.ticks) <= received /\ b.created_at <= clock
                      /\ BufferExact(b) /\ Inside(b)
  BY <1>1 DEF Good
<1>3. TypeOK
  BY <1>2 DEF TypeOK, IInv
<1>4. StatisticsExact
  BY <1>2, <1>3 DEF StatisticsExact
<1>5. WithinBounds
  BY <1>2 DEF WithinBounds, Inside
<1> QED BY <1>4, <1>5

LEMMA InitIInv == Init => IInv
<1> SUFFICES ASSUME Init PROVE IInv
  OBVIOUS
<1>1. DOMAIN buffers = {}
  <2>1. DOMAIN <<>> = {}
    OBVIOUS
  <2> QED BY <2>1 DEF Init
<1> QED BY <1>1, Parameters DEF Init, IInv

LEMMA MetricIs ==
  ASSUME NEW symbol, NEW buffer
  PROVE  Metric(symbol, buffer).symbol = symbol /\ Metric(symbol, buffer).of = buffer
BY DEF Metric

LEMMA AddTickIInv ==
  ASSUME IInv, NEW symbol \in Symbols, NEW raw \in Messages, AddTick(symbol, raw)
  PROVE  IInv'
<1> DEFINE tick == FromBinance(raw)
<1>1. /\ clock \in Nat /\ received \in Nat /\ received < MaxTicks /\ MaxTicks \in Nat
      /\ received' = received + 1 /\ received' \in 0 .. MaxTicks
      /\ latest' \in Messages /\ clock \in 0 .. MaxClock
  BY Parameters DEF IInv, AddTick
<1>2. \A b : \A end \in Nat : clock <= end /\ Good(b, received, clock) => Good(b, received', end)
  <2> SUFFICES ASSUME NEW b, NEW end \in Nat, clock <= end, Good(b, received, clock)
               PROVE  Good(b, received + 1, end)
    BY <1>1
  <2>1. received + 1 \in Nat /\ received <= received + 1
    BY <1>1
  <2> QED BY <1>1, <2>1, GoodLater
<1>3. CASE tick = Rejected
  <2>1. buffers' = buffers /\ handed' = handed /\ dropped' = dropped /\ clock' = clock
    BY <1>3 DEF AddTick
  <2>2. \A b : Good(b, received, clock) => Good(b, received', clock')
    BY <1>1, <1>2, <2>1
  <2> QED BY <1>1, <2>1, <2>2 DEF IInv
<1>4. CASE tick # Rejected
  <2>1. PICK now \in clock .. MaxClock : \E end \in now .. MaxClock : \E taken \in Taken :
          LET buffer == IF symbol \in DOMAIN buffers
                          THEN buffers[symbol] ELSE NewBuffer(now, "tick")
              flushes == ShouldFlush(buffer, now) /\ buffer.ticks # <<>>
              current == IF flushes THEN Reset(buffer, end, "tick") ELSE buffer
              made == IF flushes THEN {Metric(symbol, buffer)} ELSE {}
          IN  /\ clock' = end
              /\ buffers' = [s \in DOMAIN buffers \cup {symbol} |->
                               IF s = symbol THEN AddToBuffer(current, tick) ELSE buffers[s]]
              /\ handed' = handed \cup (IF taken THEN made ELSE {})
              /\ dropped' = dropped \cup (IF taken THEN {} ELSE made)
    BY <1>4 DEF AddTick
  <2> DEFINE buffer == IF symbol \in DOMAIN buffers
                         THEN buffers[symbol] ELSE NewBuffer(now, "tick")
  <2> DEFINE flushes == ShouldFlush(buffer, now) /\ buffer.ticks # <<>>
  <2>2. PICK end \in now .. MaxClock : \E taken \in Taken :
          LET current == IF flushes THEN Reset(buffer, end, "tick") ELSE buffer
              made == IF flushes THEN {Metric(symbol, buffer)} ELSE {}
          IN  /\ clock' = end
              /\ buffers' = [s \in DOMAIN buffers \cup {symbol} |->
                               IF s = symbol THEN AddToBuffer(current, tick) ELSE buffers[s]]
              /\ handed' = handed \cup (IF taken THEN made ELSE {})
              /\ dropped' = dropped \cup (IF taken THEN {} ELSE made)
    BY <2>1
  <2> DEFINE current == IF flushes THEN Reset(buffer, end, "tick") ELSE buffer
  <2> DEFINE added == AddToBuffer(current, tick)
  <2>3. /\ clock' = end
        /\ buffers' = [s \in DOMAIN buffers \cup {symbol} |->
                         IF s = symbol THEN added ELSE buffers[s]]
        /\ \A m \in handed' \cup dropped' :
             m \in handed \cup dropped \/ (flushes /\ m = Metric(symbol, buffer))
    <3> HIDE DEF flushes, buffer
    <3> QED BY <2>2
  <2>4. /\ now \in Nat /\ end \in Nat /\ clock <= now /\ now <= end /\ clock <= end
        /\ end \in 0 .. MaxClock /\ tick \in Ticks
    BY <1>1, <1>4, Parameters DEF Ticks
  <2>5. \A b : Good(b, received, clock) => Good(b, received', clock')
    BY <1>2, <2>3, <2>4
  <2>6. symbol \in DOMAIN buffers => Good(buffer, received, clock)
    BY DEF IInv
  <2>7. flushes => symbol \in DOMAIN buffers
    BY <2>4, NewBufferIs
  <2>8. Good(added, received', clock') /\ added.ticks # <<>>
    <3>1. CASE flushes
      <4>1. current = NewBuffer(end, "tick")
        BY <3>1 DEF Reset
      <4> HIDE DEF current, tick
      <4> QED BY <1>1, <2>3, <2>4, <4>1, AddNew
    <3>2. CASE ~flushes /\ symbol \in DOMAIN buffers
      <4>1. current = buffer /\ Good(current, received, clock)
            /\ (current.ticks = <<>> \/ ~ShouldFlush(current, now))
        BY <2>6, <3>2
      <4> HIDE DEF current, tick
      <4>2. Good(added, received + 1, clock) /\ added.ticks # <<>>
        BY <1>1, <2>4, <4>1, AddGood
      <4>3. Good(added, received + 1, end)
        <5> HIDE DEF added
        <5> QED BY <1>1, <2>4, <4>2, GoodLater
      <4> QED BY <1>1, <2>3, <4>2, <4>3
    <3>3. CASE ~flushes /\ symbol \notin DOMAIN buffers
      <4>1. current = NewBuffer(now, "tick")
        BY <3>3
      <4> HIDE DEF current, tick
      <4>2. Good(added, received + 1, now) /\ added.ticks # <<>>
        BY <1>1, <2>4, <4>1, AddNew
      <4>3. Good(added, received + 1, end)
        <5> HIDE DEF added
        <5> QED BY <1>1, <2>4, <4>2, GoodLater
      <4> QED BY <1>1, <2>3, <4>2, <4>3
    <3> QED BY <3>1, <3>2, <3>3
  <2>9. \A m \in handed' \cup dropped' :
          m.symbol \in Symbols /\ m.of.ticks # <<>> /\ Good(m.of, received', clock')
    <3> TAKE m \in handed' \cup dropped'
    <3>1. CASE m \in handed \cup dropped
      BY <2>5, <3>1 DEF IInv
    <3>2. CASE flushes /\ m = Metric(symbol, buffer)
      <4>1. m.symbol = symbol /\ m.of = buffer /\ buffer.ticks # <<>> /\ symbol \in DOMAIN buffers
        BY <2>7, <3>2, MetricIs
      <4> HIDE DEF buffer
      <4> QED BY <2>5, <2>6, <4>1
    <3> QED BY <2>3, <3>1, <3>2
  <2>10. DOMAIN buffers' \subseteq Symbols
    BY <2>3 DEF IInv
  <2>11. \A s \in DOMAIN buffers' : Good(buffers'[s], received', clock')
    <3> TAKE s \in DOMAIN buffers'
    <3> HIDE DEF added
    <3>1. s \in DOMAIN buffers \cup {symbol}
          /\ buffers'[s] = IF s = symbol THEN added ELSE buffers[s]
      BY <2>3
    <3>2. CASE s = symbol
      BY <2>8, <3>1, <3>2
    <3>3. CASE s # symbol
      BY <2>5, <3>1, <3>3 DEF IInv
    <3> QED BY <3>2, <3>3
  <2> QED BY <1>1, <2>3, <2>4, <2>9, <2>10, <2>11 DEF IInv
<1> QED BY <1>3, <1>4

LEMMA FlushIInv ==
  ASSUME IInv, NEW symbols \in SUBSET DOMAIN buffers, NEW end \in clock .. MaxClock,
         NEW at, \A s \in symbols : at[s] \in clock .. end, FlushEach(symbols, at, end)
  PROVE  IInv'
<1> DEFINE full == {s \in symbols : buffers[s].ticks # <<>>}
<1>1. /\ buffers' = [s \in DOMAIN buffers |->
                       IF s \in full THEN Reset(buffers[s], at[s], "flush") ELSE buffers[s]]
      /\ handed' = handed \cup {Metric(s, buffers[s]) : s \in full}
      /\ clock' = end /\ dropped' = dropped /\ received' = received /\ latest' = latest
  BY DEF FlushEach
<1>2. /\ clock \in Nat /\ received \in Nat /\ end \in Nat /\ clock <= end /\ received <= received
      /\ end \in 0 .. MaxClock
  BY Parameters DEF IInv
<1>3. \A b : Good(b, received, clock) => Good(b, received', clock')
  BY <1>1, <1>2, GoodLater
<1>4. ASSUME NEW s \in full PROVE Good(NewBuffer(at[s], "flush"), received', clock')
  <2>1. at[s] \in Nat /\ at[s] <= end
    BY <1>2
  <2>2. Good(NewBuffer(at[s], "flush"), received, at[s])
    BY <1>2, <2>1, NewBufferGood
  <2> QED BY <1>1, <1>2, <2>1, <2>2, GoodLater
<1>5. \A s \in DOMAIN buffers' : Good(buffers'[s], received', clock')
  <2> TAKE s \in DOMAIN buffers'
  <2>1. s \in DOMAIN buffers
    BY <1>1
  <2>2. CASE s \in full
    BY <1>1, <1>4, <2>1, <2>2 DEF Reset
  <2>3. CASE s \notin full
    BY <1>1, <1>3, <2>1, <2>3 DEF IInv
  <2> QED BY <2>2, <2>3
<1>6. \A m \in handed' \cup dropped' :
        m.symbol \in Symbols /\ m.of.ticks # <<>> /\ Good(m.of, received', clock')
  <2> TAKE m \in handed' \cup dropped'
  <2>1. CASE m \in handed \cup dropped
    BY <1>3, <2>1 DEF IInv
  <2>2. ASSUME NEW s \in full, m = Metric(s, buffers[s])
        PROVE  m.symbol \in Symbols /\ m.of.ticks # <<>> /\ Good(m.of, received', clock')
    <3>1. m.symbol = s /\ m.of = buffers[s] /\ s \in DOMAIN buffers /\ buffers[s].ticks # <<>>
      BY <2>2, MetricIs
    <3> QED BY <1>3, <3>1 DEF IInv
  <2>3. m \in handed \cup dropped \/ \E s \in full : m = Metric(s, buffers[s])
    <3> HIDE DEF full
    <3> QED BY <1>1
  <2> QED BY <2>1, <2>2, <2>3
<1> QED BY <1>1, <1>2, <1>5, <1>6 DEF IInv

LEMMA TickIInv ==
  ASSUME IInv, Tick
  PROVE  IInv'
<1>1. /\ clock' = clock + 1 /\ clock' \in 0 .. MaxClock /\ buffers' = buffers /\ handed' = handed
      /\ dropped' = dropped /\ received' = received /\ latest' = latest
  BY Parameters DEF Tick, IInv
<1>2. \A b : Good(b, received, clock) => Good(b, received, clock + 1)
  <2> SUFFICES ASSUME NEW b, Good(b, received, clock) PROVE Good(b, received, clock + 1)
    OBVIOUS
  <2>1. received \in Nat /\ clock \in Nat /\ clock + 1 \in Nat /\ received <= received
        /\ clock <= clock + 1
    BY Parameters DEF IInv
  <2> QED BY <2>1, GoodLater
<1> QED BY <1>1, <1>2 DEF IInv

LEMMA StepIInv == IInv /\ [Next]_vars => IInv'
<1> SUFFICES ASSUME IInv, [Next]_vars PROVE IInv'
  OBVIOUS
<1>1. ASSUME NEW symbol \in Symbols, NEW raw \in Messages, AddTick(symbol, raw) PROVE IInv'
  BY <1>1, AddTickIInv
<1>2. ASSUME NEW symbol \in Symbols, Flush(symbol) PROVE IInv'
  <2>0. PICK end \in clock .. MaxClock : \E at \in Readings({symbol}, end) :
          FlushEach({symbol}, at, end)
    BY <1>2 DEF Flush
  <2>1. PICK at \in Readings({symbol}, end) :
          FlushEach({symbol}, at, end)
    BY <2>0
  <2>2. {symbol} \in SUBSET DOMAIN buffers /\ \A s \in {symbol} : at[s] \in clock .. end
    BY <1>2 DEF Flush, Readings
  <2> QED BY <2>1, <2>2, FlushIInv
<1>3. CASE GetReadyMetrics
  <2>0. PICK end \in clock .. MaxClock : \E at \in Readings(DOMAIN buffers, end) :
          FlushEach({s \in DOMAIN buffers : ShouldFlush(buffers[s], at[s])}, at, end)
    BY <1>3 DEF GetReadyMetrics
  <2>1. PICK at \in Readings(DOMAIN buffers, end) :
          FlushEach({s \in DOMAIN buffers : ShouldFlush(buffers[s], at[s])}, at, end)
    BY <2>0
  <2> DEFINE S == {s \in DOMAIN buffers : ShouldFlush(buffers[s], at[s])}
  <2>2. S \in SUBSET DOMAIN buffers /\ \A s \in S : at[s] \in clock .. end
    BY DEF Readings
  <2>3. FlushEach(S, at, end)
    BY <2>1
  <2> HIDE DEF S
  <2> QED BY <2>2, <2>3, FlushIInv
<1>4. CASE FlushAll
  <2>0. PICK end \in clock .. MaxClock : \E at \in Readings(DOMAIN buffers, end) :
          FlushEach(DOMAIN buffers, at, end)
    BY <1>4 DEF FlushAll
  <2>1. PICK at \in Readings(DOMAIN buffers, end) :
          FlushEach(DOMAIN buffers, at, end)
    BY <2>0
  <2>2. DOMAIN buffers \in SUBSET DOMAIN buffers /\ \A s \in DOMAIN buffers : at[s] \in clock .. end
    BY DEF Readings
  <2> QED BY <2>1, <2>2, FlushIInv
<1>5. CASE Tick
  BY <1>5, TickIInv
<1>6. CASE UNCHANGED vars
  BY <1>6 DEF vars, IInv
<1> QED BY <1>1, <1>2, <1>3, <1>4, <1>5, <1>6 DEF Next

-----------------------------------------------------------------------------
(* The sorted levels of the parser.                                        *)

Key(levels, sign, i) == sign * Price(levels[i])

LEMMA KeptLevels ==
  ASSUME NEW levels \in Seq(Levels), NEW sign \in Int
  PROVE  LET P == ParseLevels(levels) IN
         /\ P \in SUBSET (1 .. Len(levels)) /\ Len(levels) \in Nat
         /\ IsFiniteSet(P) /\ Cardinality(P) \in Nat /\ Cardinality(P) <= Len(levels)
         /\ \A i \in P : levels[i] \in Levels /\ Positive(levels[i]) /\ Key(levels, sign, i) \in Int
<1> DEFINE P == ParseLevels(levels)
<1> DEFINE n == Len(levels)
<1>1. n \in Nat /\ DOMAIN levels = 1 .. n /\ \A i \in 1 .. n : levels[i] \in Levels
  OBVIOUS
<1>2. P \in SUBSET (1 .. n) /\ \A i \in P : Positive(levels[i])
  BY <1>1 DEF ParseLevels
<1>3. IsFiniteSet(1 .. n) /\ Cardinality(1 .. n) = n
  <2> HIDE DEF n
  <2> QED BY <1>1, CountUpTo
<1>4. IsFiniteSet(P) /\ Cardinality(P) \in Nat /\ Cardinality(P) <= n
  <2> HIDE DEF P, n
  <2>1. IsFiniteSet(P) /\ Cardinality(P) <= Cardinality(1 .. n)
    BY <1>2, <1>3, FS_Subset
  <2> QED BY <1>3, <2>1, FS_CardinalityType
<1>5. \A i \in P : Key(levels, sign, i) \in Int
  <2> TAKE i \in P
  <2>1. Price(levels[i]) \in Int
    BY <1>2, LevelType
  <2> QED BY <2>1 DEF Key
<1> QED BY <1>1, <1>2, <1>4, <1>5

LEMMA AheadIs ==
  ASSUME NEW levels \in Seq(Levels), NEW sign \in Int,
         NEW i \in ParseLevels(levels), NEW j \in ParseLevels(levels)
  PROVE  /\ Ahead(levels, sign, i, j) <=>
              \/ Key(levels, sign, i) < Key(levels, sign, j)
              \/ Key(levels, sign, i) = Key(levels, sign, j) /\ i < j
         /\ i \in Int /\ j \in Int
         /\ Key(levels, sign, i) \in Int /\ Key(levels, sign, j) \in Int
<1>1. i \in Int /\ j \in Int /\ Key(levels, sign, i) \in Int /\ Key(levels, sign, j) \in Int
  <2>1. ParseLevels(levels) \in SUBSET (1 .. Len(levels)) /\ Len(levels) \in Nat
    BY KeptLevels
  <2>2. Key(levels, sign, i) \in Int
    BY KeptLevels
  <2>3. Key(levels, sign, j) \in Int
    BY KeptLevels
  <2> QED BY <2>1, <2>2, <2>3
<1> QED BY <1>1 DEF Ahead, Key

FrontOf(levels, sign, i) == {j \in ParseLevels(levels) : Ahead(levels, sign, j, i)}

(* A level ahead of another has the lower place.                           *)
LEMMA PlaceGrows ==
  ASSUME NEW levels \in Seq(Levels), NEW sign \in Int
  PROVE  LET P == ParseLevels(levels) IN
         /\ \A i \in P : Place(levels, sign, i) \in 1 .. Cardinality(P)
         /\ \A i, j \in P :
              Ahead(levels, sign, i, j) => Place(levels, sign, i) < Place(levels, sign, j)
<1> DEFINE P == ParseLevels(levels)
<1> DEFINE F(i) == FrontOf(levels, sign, i)
<1>0. IsFiniteSet(P) /\ Cardinality(P) \in Nat
  BY KeptLevels
<1>1. ASSUME NEW i \in P
      PROVE  /\ F(i) \in SUBSET P /\ i \notin F(i) /\ IsFiniteSet(F(i))
             /\ Cardinality(F(i)) \in Nat /\ Place(levels, sign, i) = Cardinality(F(i)) + 1
  <2>1. ~Ahead(levels, sign, i, i)
    <3> DEFINE a == Key(levels, sign, i)
    <3>1. (Ahead(levels, sign, i, i) <=> a < a \/ (a = a /\ i < i)) /\ i \in Int /\ a \in Int
      BY AheadIs
    <3> HIDE DEF a
    <3> QED BY <3>1
  <2>2. F(i) \in SUBSET P /\ i \notin F(i)
    BY <2>1 DEF FrontOf
  <2>3. Place(levels, sign, i) = Cardinality(F(i)) + 1
    BY DEF Place, FrontOf
  <2> HIDE DEF P, F
  <2>4. IsFiniteSet(F(i)) /\ Cardinality(F(i)) \in Nat
    BY <1>0, <2>2, FS_Subset, FS_CardinalityType
  <2> QED BY <2>2, <2>3, <2>4
<1>2. ASSUME NEW i \in P PROVE Place(levels, sign, i) \in 1 .. Cardinality(P)
  <2> HIDE DEF P, F
  <2>1. F(i) \in SUBSET P /\ F(i) # P
    BY <1>1
  <2>2. Cardinality(F(i)) <= Cardinality(P) /\ Cardinality(F(i)) # Cardinality(P)
    BY <1>0, <2>1, FS_Subset
  <2> QED BY <1>0, <1>1, <2>2
<1>3. ASSUME NEW i \in P, NEW j \in P, Ahead(levels, sign, i, j)
      PROVE  Place(levels, sign, i) < Place(levels, sign, j)
  <2>1. \A k \in P : Ahead(levels, sign, k, i) => Ahead(levels, sign, k, j)
    <3> TAKE k \in P
    <3>1. HAVE Ahead(levels, sign, k, i)
    <3> DEFINE a == Key(levels, sign, i)
    <3> DEFINE b == Key(levels, sign, j)
    <3> DEFINE c == Key(levels, sign, k)
    <3>2. /\ a < b \/ (a = b /\ i < j)
          /\ c < a \/ (c = a /\ k < i)
          /\ i \in Int /\ j \in Int /\ k \in Int /\ a \in Int /\ b \in Int /\ c \in Int
      BY <1>3, <3>1, AheadIs
    <3>3. c < b \/ (c = b /\ k < j)
      <4> HIDE DEF a, b, c
      <4> QED BY <3>2
    <3> QED BY <3>3, AheadIs
  <2> DEFINE B == F(i) \cup {i}
  <2>2. B \in SUBSET F(j)
    BY <1>3, <2>1 DEF FrontOf
  <2> HIDE DEF F, P
  <2>3. Cardinality(B) = Cardinality(F(i)) + 1
    BY <1>1, FS_AddElement
  <2>4. Cardinality(B) <= Cardinality(F(j))
    BY <1>1, <2>2, FS_Subset
  <2> HIDE DEF B
  <2> QED BY <1>1, <2>3, <2>4
<1> QED BY <1>2, <1>3

(* Every place is that of one level.                                       *)
LEMMA PlaceUnique ==
  ASSUME NEW levels \in Seq(Levels), NEW sign \in Int
  PROVE  LET P == ParseLevels(levels) IN
         /\ \A i, j \in P : Place(levels, sign, i) = Place(levels, sign, j) => i = j
         /\ \A k \in 1 .. Cardinality(P) : \E i \in P : Place(levels, sign, i) = k
<1> DEFINE P == ParseLevels(levels)
<1> DEFINE n == Cardinality(P)
<1> DEFINE place == [i \in P |-> Place(levels, sign, i)]
<1>1. n \in Nat /\ IsFiniteSet(P) /\ IsFiniteSet(1 .. n) /\ Cardinality(1 .. n) = n
  <2>1. n \in Nat /\ IsFiniteSet(P)
    BY KeptLevels
  <2> HIDE DEF n
  <2> QED BY <2>1, CountUpTo
<1>2. \A i \in P : Place(levels, sign, i) \in 1 .. n
  BY PlaceGrows
<1>3. ASSUME NEW i \in P, NEW j \in P, Place(levels, sign, i) = Place(levels, sign, j)
      PROVE  i = j
  <2>1. ~Ahead(levels, sign, i, j) /\ ~Ahead(levels, sign, j, i)
    <3>1. Place(levels, sign, i) \in Int /\ Place(levels, sign, j) \in Int
      BY <1>2
    <3>2. Ahead(levels, sign, i, j) => Place(levels, sign, i) < Place(levels, sign, j)
      BY PlaceGrows
    <3>3. Ahead(levels, sign, j, i) => Place(levels, sign, j) < Place(levels, sign, i)
      BY PlaceGrows
    <3> QED BY <1>3, <3>1, <3>2, <3>3
  <2> DEFINE a == Key(levels, sign, i)
  <2> DEFINE b == Key(levels, sign, j)
  <2>2. /\ ~(a < b \/ (a = b /\ i < j)) /\ ~(b < a \/ (b = a /\ j < i))
        /\ a \in Int /\ b \in Int /\ i \in Int /\ j \in Int
    BY <2>1, AheadIs
  <2> HIDE DEF a, b
  <2> QED BY <2>2
<1>4. place \in [P -> 1 .. n] /\ \A i, j \in P : place[i] = place[j] => i = j
  BY <1>2, <1>3
<1>5. place \in Surjection(P, 1 .. n)
  <2> HIDE DEF place, P
  <2>1. place \in Injection(P, 1 .. n)
    BY <1>4 DEF Injection, IsInjective
  <2> QED BY <1>1, <2>1, FS_Injection
<1>6. \A k \in 1 .. n : \E i \in P : Place(levels, sign, i) = k
  <2> TAKE k \in 1 .. n
  <2>1. PICK i \in P : place[i] = k
    <3> HIDE DEF place
    <3> QED BY <1>5 DEF Surjection
  <2> QED BY <2>1
<1> QED BY <1>3, <1>6

(* The parser keeps the positive levels and sorts them.                    *)
LEMMA SortedIs ==
  ASSUME NEW levels \in Seq(Levels), NEW sign \in Int
  PROVE  LET P == ParseLevels(levels)
             s == Sorted(levels, sign)
         IN  /\ s \in Seq(Levels) /\ Len(s) = Cardinality(P)
             /\ \A k \in 1 .. Len(s) :
                  /\ Positive(s[k])
                  /\ \E i \in P : Place(levels, sign, i) = k /\ s[k] = levels[i]
             /\ \A k, l \in 1 .. Len(s) : k <= l => sign * Price(s[k]) <= sign * Price(s[l])
<1> DEFINE P == ParseLevels(levels)
<1> DEFINE n == Cardinality(P)
<1> DEFINE s == Sorted(levels, sign)
<1>0. n \in Nat /\ \A i \in P : levels[i] \in Levels /\ Positive(levels[i])
  BY KeptLevels
<1>1. ASSUME NEW k \in 1 .. n
      PROVE  \E i \in P : Place(levels, sign, i) = k /\ s[k] = levels[i]
  <2> DEFINE i == CHOOSE j \in P : Place(levels, sign, j) = k
  <2>1. i \in P /\ Place(levels, sign, i) = k
    BY PlaceUnique
  <2>2. s[k] = levels[i]
    BY DEF Sorted
  <2> HIDE DEF i
  <2> QED BY <2>1, <2>2
<1>2. \A k \in 1 .. n : s[k] \in Levels /\ Positive(s[k])
  BY <1>0, <1>1
<1>3. s \in [1 .. n -> Levels]
  <2>1. DOMAIN s = 1 .. n /\ s = [k \in 1 .. n |-> s[k]]
    BY DEF Sorted
  <2> HIDE DEF s, n
  <2> QED BY <1>2, <2>1
<1>4. s \in Seq(Levels) /\ Len(s) = n
  <2> HIDE DEF s, n
  <2> QED BY <1>0, <1>3
<1>5. ASSUME NEW k \in 1 .. n, NEW l \in 1 .. n, k <= l
      PROVE  sign * Price(s[k]) <= sign * Price(s[l])
  <2>1. PICK i \in P : Place(levels, sign, i) = k /\ s[k] = levels[i]
    BY <1>1
  <2>2. PICK j \in P : Place(levels, sign, j) = l /\ s[l] = levels[j]
    BY <1>1
  <2> DEFINE a == Key(levels, sign, i)
  <2> DEFINE b == Key(levels, sign, j)
  <2>3. a \in Int /\ b \in Int
    BY AheadIs
  <2>4. ASSUME b < a PROVE FALSE
    <3>1. Ahead(levels, sign, j, i)
      BY <2>4, AheadIs
    <3>2. l < k
      BY <2>1, <2>2, <3>1, PlaceGrows
    <3> QED BY <1>0, <1>5, <3>2
  <2>5. a <= b
    <3> HIDE DEF a, b
    <3> QED BY <2>3, <2>4
  <2> QED BY <2>1, <2>2, <2>5 DEF Key
<1> HIDE DEF s, P
<1> QED BY <1>1, <1>2, <1>4, <1>5 DEF s, P

LEMMA SortedSides ==
  ASSUME NEW levels \in Seq(Levels)
  PROVE  /\ \A k \in 1 .. Len(SortedBids(levels)) : Positive(SortedBids(levels)[k])
         /\ \A k \in 1 .. Len(SortedAsks(levels)) : Positive(SortedAsks(levels)[k])
         /\ \A k, l \in 1 .. Len(SortedBids(levels)) :
              k <= l => Price(SortedBids(levels)[k]) >= Price(SortedBids(levels)[l])
         /\ \A k, l \in 1 .. Len(SortedAsks(levels)) :
              k <= l => Price(SortedAsks(levels)[k]) <= Price(SortedAsks(levels)[l])
<1>1. ASSUME NEW sign \in Int
      PROVE  /\ Sorted(levels, sign) \in Seq(Levels)
             /\ \A k \in 1 .. Len(Sorted(levels, sign)) : Positive(Sorted(levels, sign)[k])
             /\ \A k, l \in 1 .. Len(Sorted(levels, sign)) :
                  k <= l => sign * Price(Sorted(levels, sign)[k])
                              <= sign * Price(Sorted(levels, sign)[l])
  BY SortedIs
<1> DEFINE bids == SortedBids(levels)
<1> DEFINE asks == SortedAsks(levels)
<1> DEFINE down == -1
<1> DEFINE up == 1
<1>2. bids = Sorted(levels, down) /\ asks = Sorted(levels, up) /\ down \in Int /\ up \in Int
  BY DEF SortedBids, SortedAsks
<1> HIDE DEF bids, asks, down, up
<1>3. /\ bids \in Seq(Levels) /\ \A k \in 1 .. Len(bids) : Positive(bids[k])
      /\ \A k, l \in 1 .. Len(bids) : k <= l => down * Price(bids[k]) <= down * Price(bids[l])
  BY <1>1, <1>2
<1>4. /\ asks \in Seq(Levels) /\ \A k \in 1 .. Len(asks) : Positive(asks[k])
      /\ \A k, l \in 1 .. Len(asks) : k <= l => up * Price(asks[k]) <= up * Price(asks[l])
  BY <1>1, <1>2
<1>5. ASSUME NEW k \in 1 .. Len(bids), NEW l \in 1 .. Len(bids), k <= l
      PROVE  Price(bids[k]) >= Price(bids[l])
  <2>1. Price(bids[k]) \in Int /\ Price(bids[l]) \in Int
    BY <1>3, LevelType
  <2> QED BY <1>3, <1>5, <2>1 DEF down
<1>6. ASSUME NEW k \in 1 .. Len(asks), NEW l \in 1 .. Len(asks), k <= l
      PROVE  Price(asks[k]) <= Price(asks[l])
  <2>1. Price(asks[k]) \in Int /\ Price(asks[l]) \in Int
    BY <1>4, LevelType
  <2> QED BY <1>4, <1>6, <2>1 DEF up
<1> QED BY <1>3, <1>4, <1>5, <1>6 DEF bids, asks

(* Levels that came in order stay where they are, up to the first that is  *)
(* not positive.                                                           *)
LEMMA SortedPrefix ==
  ASSUME NEW levels \in Seq(Levels), NEW sign \in Int, NEW m \in 0 .. Len(levels),
         \A i \in 1 .. m : Positive(levels[i]),
         \A i, j \in 1 .. Len(levels) : i < j => Key(levels, sign, i) <= Key(levels, sign, j)
  PROVE  /\ m <= Len(Sorted(levels, sign))
         /\ \A k \in 1 .. m : Sorted(levels, sign)[k] = levels[k]
<1> DEFINE P == ParseLevels(levels)
<1> DEFINE n == Cardinality(P)
<1>1. /\ P \in SUBSET (1 .. Len(levels)) /\ Len(levels) \in Nat /\ n \in Nat /\ IsFiniteSet(P)
      /\ \A i \in P : Key(levels, sign, i) \in Int
  BY KeptLevels
<1>2. 1 .. m \in SUBSET P
  BY <1>1 DEF ParseLevels
<1>3. m <= n
  <2>1. m \in Nat
    BY <1>1
  <2>2. Cardinality(1 .. m) = m
    BY <2>1, CountUpTo
  <2> HIDE DEF P
  <2>3. Cardinality(1 .. m) <= n
    BY <1>1, <1>2, FS_Subset
  <2> QED BY <2>1, <2>2, <2>3
<1>4. ASSUME NEW k \in 1 .. m PROVE Place(levels, sign, k) = k
  <2>1. k \in P /\ k \in Nat
    BY <1>1, <1>2
  <2>2. \A j \in P : Ahead(levels, sign, j, k) <=> j < k
    <3> TAKE j \in P
    <3> DEFINE a == Key(levels, sign, j)
    <3> DEFINE b == Key(levels, sign, k)
    <3>1. /\ Ahead(levels, sign, j, k) <=> a < b \/ (a = b /\ j < k)
          /\ j \in Int /\ k \in Int /\ a \in Int /\ b \in Int
      BY <2>1, AheadIs
    <3>2. (j < k => a <= b) /\ (k < j => b <= a)
      BY <1>1, <2>1
    <3> HIDE DEF a, b, P
    <3>3. CASE j = k
      BY <3>1, <3>3 DEF a, b
    <3>4. CASE j # k
      BY <3>1, <3>2, <3>4
    <3> QED BY <3>3, <3>4
  <2>3. {j \in P : Ahead(levels, sign, j, k)} = 1 .. k - 1
    <3>1. \A j \in P : j < k => j \in 1 .. k - 1
      BY <1>1, <2>1
    <3>2. \A j \in 1 .. k - 1 : j \in P /\ j < k
      <4>1. \A j \in 1 .. k - 1 : j \in 1 .. m /\ j < k
        BY <1>1
      <4> QED BY <1>2, <4>1
    <3> HIDE DEF P
    <3> QED BY <2>2, <3>1, <3>2
  <2>4. k - 1 \in Nat
    BY <1>1, <2>1
  <2>5. Cardinality(1 .. k - 1) = k - 1
    BY <2>4, CountUpTo
  <2> DEFINE F == {j \in P : Ahead(levels, sign, j, k)}
  <2>6. Place(levels, sign, k) = Cardinality(F) + 1 /\ F = 1 .. k - 1
    BY <2>3 DEF Place
  <2> HIDE DEF F
  <2>7. Cardinality(F) = k - 1
    BY <2>5, <2>6
  <2> QED BY <2>1, <2>6, <2>7
<1>5. ASSUME NEW k \in 1 .. m PROVE Sorted(levels, sign)[k] = levels[k]
  <2>1. k \in P /\ k \in 1 .. n
    BY <1>1, <1>2, <1>3
  <2>2. PICK i \in P : Place(levels, sign, i) = k /\ Sorted(levels, sign)[k] = levels[i]
    BY <2>1, SortedIs
  <2>3. i = k
    BY <1>4, <2>1, <2>2, PlaceUnique
  <2> QED BY <2>2, <2>3
<1> QED BY <1>3, <1>5, SortedIs

-----------------------------------------------------------------------------
(* The metrics of a book.                                                  *)

LEMMA InUnitRatio ==
  ASSUME NEW bid \in Nat, NEW ask \in Nat
  PROVE  InUnit(Ratio(bid, ask))
BY DEF InUnit, Ratio

(* A sum of products of quantities and weights that are not negative.      *)
LEMMA SumOfWeighted ==
  ASSUME NEW n \in Nat, NEW f, DOMAIN f = 1 .. n, f = [i \in 1 .. n |-> f[i]],
         \A i \in 1 .. n : f[i] \in Nat
  PROVE  SumUp(f) \in Nat
<1>1. f \in [1 .. n -> Int]
  OBVIOUS
<1>2. f \in Seq(Int) /\ Len(f) = n
  BY <1>1, FunctionSequence
<1>3. \A i \in 1 .. Len(f) : f[i] >= 0
  BY <1>2
<1> QED BY <1>2, <1>3, SumOfPositive

LEMMA WeightedType ==
  ASSUME NEW side \in Seq(Levels), \A i \in 1 .. Len(side) : Positive(side[i])
  PROVE  Weighted(side) \in Nat
<1> DEFINE n == Len(side)
<1> DEFINE f == [i \in DOMAIN side |-> Quantity(side[i]) * (Harmonic \div i)]
<1>1. n \in Nat /\ DOMAIN side = 1 .. n
      /\ \A i \in 1 .. n : Quantity(side[i]) \in Nat
  <2>1. \A i \in 1 .. n : Quantity(side[i]) \in Int /\ Quantity(side[i]) > 0
    BY LevelType DEF Positive
  <2> QED BY <2>1, LevelType
<1>2. ASSUME NEW i \in 1 .. n PROVE f[i] \in Nat
  <2> DEFINE w == Harmonic \div i
  <2> DEFINE q == Quantity(side[i])
  <2>1. i \in Nat \ {0} /\ Harmonic \in Nat \ {0}
    BY <1>1, Parameters
  <2>2. w \in Nat
    BY <2>1
  <2>3. q \in Nat /\ f[i] = q * w
    BY <1>1
  <2> HIDE DEF w, q
  <2>4. q * w \in Nat
    BY <2>2, <2>3
  <2> QED BY <2>3, <2>4
<1>3. DOMAIN f = 1 .. n /\ f = [i \in 1 .. n |-> f[i]]
  BY <1>1
<1> HIDE DEF f, n
<1>4. SumUp(f) \in Nat
  BY <1>1, <1>2, <1>3, SumOfWeighted
<1> QED BY <1>4 DEF Weighted, f

LEMMA DecayedType ==
  ASSUME NEW side \in Seq(Levels), \A i \in 1 .. Len(side) : Positive(side[i]),
         NEW mid2 \in Int, NEW sign \in {-1, 1}
  PROVE  Decayed(side, mid2, sign) \in Nat
<1> DEFINE n == Len(side)
<1> DEFINE f == [i \in DOMAIN side |-> Quantity(side[i]) * Decay(side[i], mid2, sign)]
<1>1. n \in Nat /\ DOMAIN side = 1 .. n
      /\ \A i \in 1 .. n : Quantity(side[i]) \in Nat /\ Price(side[i]) \in Int
  <2>1. \A i \in 1 .. n : /\ Quantity(side[i]) \in Int /\ Quantity(side[i]) > 0
                          /\ Price(side[i]) \in Int
    BY LevelType DEF Positive
  <2> QED BY <2>1, LevelType
<1>2. ASSUME NEW i \in 1 .. n PROVE f[i] \in Nat
  <2> DEFINE w == Decay(side[i], mid2, sign)
  <2> DEFINE q == Quantity(side[i])
  <2>1. w \in Nat
    <3> DEFINE distance == sign * (mid2 - 2 * Price(side[i]))
    <3>1. distance \in Int
      BY <1>1
    <3>2. w = IF 2 * distance < mid2 THEN mid2 - 2 * distance ELSE 0
      BY DEF Decay
    <3> HIDE DEF distance, w
    <3> QED BY <3>1, <3>2
  <2>2. q \in Nat /\ f[i] = q * w
    BY <1>1
  <2> HIDE DEF w, q
  <2>3. q * w \in Nat
    BY <2>1, <2>2
  <2> QED BY <2>2, <2>3
<1>3. DOMAIN f = 1 .. n /\ f = [i \in 1 .. n |-> f[i]]
  BY <1>1
<1> HIDE DEF f, n
<1>4. SumUp(f) \in Nat
  BY <1>1, <1>2, <1>3, SumOfWeighted
<1> QED BY <1>4 DEF Decayed, f

LEMMA ParseIs ==
  ASSUME NEW raw \in Books
  PROVE  LET bids == SortedBids(raw.bids)
             asks == SortedAsks(raw.asks)
             book == Parse(raw)
         IN  /\ raw.bids \in Seq(Levels) /\ raw.asks \in Seq(Levels)
             /\ bids \in Seq(Levels) /\ asks \in Seq(Levels)
             /\ book # Rejected <=> bids # <<>> /\ asks # <<>>
             /\ book # Rejected => book.bids = bids /\ book.asks = asks
<1> DEFINE bids == SortedBids(raw.bids)
<1> DEFINE asks == SortedAsks(raw.asks)
<1>1. raw.bids \in Seq(Levels) /\ raw.asks \in Seq(Levels)
  BY DEF Books
<1>2. bids \in Seq(Levels) /\ asks \in Seq(Levels)
  <2>1. -1 \in Int /\ 1 \in Int
    OBVIOUS
  <2> QED BY <1>1, <2>1, SortedIs DEF SortedBids, SortedAsks
<1>3. Parse(raw) = IF bids = <<>> \/ asks = <<>> THEN Rejected ELSE [bids |-> bids, asks |-> asks]
  BY DEF Parse
<1> HIDE DEF bids, asks
<1>4. [bids |-> bids, asks |-> asks] # Rejected
  <2>1. "bids" \in DOMAIN [bids |-> bids, asks |-> asks] /\ DOMAIN <<>> = {}
    OBVIOUS
  <2> QED BY <2>1 DEF Rejected
<1>5. /\ Parse(raw) # Rejected <=> bids # <<>> /\ asks # <<>>
      /\ Parse(raw) # Rejected => Parse(raw).bids = bids /\ Parse(raw).asks = asks
  BY <1>3, <1>4
<1> QED BY <1>1, <1>2, <1>5 DEF bids, asks

(* The best price of a sorted side is its first.                           *)
LEMMA TopOfPositive ==
  ASSUME NEW side \in Seq(Levels), side # <<>>, \A i \in 1 .. Len(side) : Positive(side[i])
  PROVE  /\ Top(side) \in Seq(Levels) /\ Top(side) # <<>> /\ Top(side)[1] = side[1]
         /\ \A i \in 1 .. Len(Top(side)) : Positive(Top(side)[i])
         /\ Price(side[1]) \in Nat \ {0}
<1>1. /\ Top(side) \in Seq(Levels) /\ Len(side) \in Nat
      /\ Len(Top(side)) = IF Len(side) < Depth THEN Len(side) ELSE Depth
      /\ \A i \in 1 .. Len(Top(side)) : i \in 1 .. Len(side) /\ Top(side)[i] = side[i]
  BY TopIs
<1>2. 1 \in 1 .. Len(side) /\ Price(side[1]) \in Int /\ Price(side[1]) > 0
  BY LevelType DEF Positive
<1>3. Len(Top(side)) \in Nat /\ Len(Top(side)) # 0 /\ 1 \in 1 .. Len(Top(side))
  BY <1>1, <1>2, Parameters
<1>4. Top(side) # <<>>
  <2>1. Len(<<>>) = 0
    OBVIOUS
  <2> QED BY <1>3, <2>1
<1> QED BY <1>1, <1>2, <1>3, <1>4

LEMMA PipelineIsSound ==
  ASSUME NEW raw \in Books
  PROVE  PipelineSound(raw)
<1> DEFINE book == Parse(raw)
<1> DEFINE metrics == CalculateMetrics(book)
<1> SUFFICES ASSUME book # Rejected
             PROVE  /\ \A i \in DOMAIN book.bids : Price(book.bids[i]) <= metrics.best_bid
                    /\ \A i \in DOMAIN book.asks : Price(book.asks[i]) >= metrics.best_ask
                    /\ metrics.total_volume > 0 /\ InUnit(metrics.vtob_ratio)
                    /\ InUnit(metrics.imbalance_ratio) /\ InUnit(metrics.weighted_imbalance)
                    /\ ValidMetrics(metrics) <=> metrics.best_bid <= metrics.best_ask
  BY DEF PipelineSound
<1> DEFINE bids == book.bids
<1> DEFINE asks == book.asks
<1>1. /\ bids = SortedBids(raw.bids) /\ asks = SortedAsks(raw.asks)
      /\ bids # <<>> /\ asks # <<>> /\ bids \in Seq(Levels) /\ asks \in Seq(Levels)
      /\ raw.bids \in Seq(Levels) /\ raw.asks \in Seq(Levels)
  BY ParseIs
<1>2. /\ \A k \in 1 .. Len(bids) : Positive(bids[k])
      /\ \A k, l \in 1 .. Len(bids) : k <= l => Price(bids[k]) >= Price(bids[l])
  <2> HIDE DEF book
  <2> QED BY <1>1, SortedSides
<1>3. /\ \A k \in 1 .. Len(asks) : Positive(asks[k])
      /\ \A k, l \in 1 .. Len(asks) : k <= l => Price(asks[k]) <= Price(asks[l])
  <2> HIDE DEF book
  <2> QED BY <1>1, SortedSides
<1> HIDE DEF book
<1>4. /\ Top(bids) \in Seq(Levels) /\ Top(bids) # <<>> /\ Top(bids)[1] = bids[1]
      /\ \A i \in 1 .. Len(Top(bids)) : Positive(Top(bids)[i])
      /\ Price(bids[1]) \in Nat \ {0}
  BY <1>1, <1>2, TopOfPositive
<1>5. /\ Top(asks) \in Seq(Levels) /\ Top(asks) # <<>> /\ Top(asks)[1] = asks[1]
      /\ \A i \in 1 .. Len(Top(asks)) : Positive(Top(asks)[i])
      /\ Price(asks[1]) \in Nat \ {0}
  BY <1>1, <1>3, TopOfPositive
<1> DEFINE total_bid == TotalQuantity(Top(bids))
<1> DEFINE total_ask == TotalQuantity(Top(asks))
<1> DEFINE first_bid == Quantity(Top(bids)[1])
<1> DEFINE first_ask == Quantity(Top(asks)[1])
<1> DEFINE best_bid == Price(Top(bids)[1])
<1> DEFINE best_ask == Price(Top(asks)[1])
<1> HIDE DEF bids, asks
<1>6. total_bid \in Nat \ {0} /\ first_bid \in Nat \ {0} /\ first_bid <= total_bid
  BY <1>4, Quantities
<1>7. total_ask \in Nat \ {0} /\ first_ask \in Nat \ {0} /\ first_ask <= total_ask
  BY <1>5, Quantities
<1>8. Weighted(Top(bids)) \in Nat /\ Weighted(Top(asks)) \in Nat
  BY <1>4, <1>5, WeightedType
<1>9. metrics =
        [best_bid |-> best_bid, best_ask |-> best_ask, total_volume |-> total_bid + total_ask,
         imbalance_ratio |-> Ratio(total_bid, total_ask),
         weighted_imbalance |-> Ratio(Weighted(Top(bids)), Weighted(Top(asks))),
         spread_bps |-> <<best_ask - best_bid, best_ask + best_bid>>,
         vtob_ratio |-> <<first_bid + first_ask, total_bid + total_ask>>]
  BY DEF CalculateMetrics, bids, asks
<1>10. /\ metrics.best_bid = best_bid /\ metrics.best_ask = best_ask
       /\ metrics.total_volume = total_bid + total_ask
       /\ metrics.imbalance_ratio = Ratio(total_bid, total_ask)
       /\ metrics.weighted_imbalance = Ratio(Weighted(Top(bids)), Weighted(Top(asks)))
       /\ metrics.spread_bps = <<best_ask - best_bid, best_ask + best_bid>>
       /\ metrics.vtob_ratio = <<first_bid + first_ask, total_bid + total_ask>>
  BY <1>9
<1> HIDE DEF metrics
<1>11. best_bid \in Nat \ {0} /\ best_ask \in Nat \ {0}
       /\ best_bid = Price(bids[1]) /\ best_ask = Price(asks[1])
  BY <1>4, <1>5
<1> HIDE DEF total_bid, total_ask, first_bid, first_ask, best_bid, best_ask
<1>12. InUnit(metrics.imbalance_ratio) /\ InUnit(metrics.weighted_imbalance)
  BY <1>6, <1>7, <1>8, <1>10, InUnitRatio
<1>13. metrics.total_volume > 0
  BY <1>6, <1>7, <1>10
<1>14. InUnit(metrics.vtob_ratio)
  <2>1. /\ -(total_bid + total_ask) <= first_bid + first_ask
        /\ first_bid + first_ask <= total_bid + total_ask
    BY <1>6, <1>7
  <2> QED BY <1>10, <2>1 DEF InUnit
<1>15. ValidMetrics(metrics) <=> metrics.best_bid <= metrics.best_ask
  <2>1. metrics.spread_bps[1] = best_ask - best_bid
    BY <1>10
  <2>2. metrics.best_bid > 0 /\ metrics.best_ask > 0
    BY <1>10, <1>11
  <2>3. best_ask - best_bid >= 0 <=> best_bid <= best_ask
    BY <1>11
  <2> QED BY <1>10, <1>12, <2>1, <2>2, <2>3 DEF ValidMetrics
<1>16. ASSUME NEW i \in DOMAIN bids PROVE Price(bids[i]) <= metrics.best_bid
  <2>1. i \in 1 .. Len(bids) /\ 1 \in 1 .. Len(bids) /\ Price(bids[i]) \in Int /\ 1 <= i
    BY <1>1, LevelType
  <2>2. Price(bids[1]) >= Price(bids[i])
    BY <1>2, <2>1
  <2> QED BY <1>10, <1>11, <2>1, <2>2
<1>17. ASSUME NEW i \in DOMAIN asks PROVE Price(asks[i]) >= metrics.best_ask
  <2>1. i \in 1 .. Len(asks) /\ 1 \in 1 .. Len(asks) /\ Price(asks[i]) \in Int /\ 1 <= i
    BY <1>1, LevelType
  <2>2. Price(asks[1]) <= Price(asks[i])
    BY <1>3, <2>1
  <2> QED BY <1>10, <1>11, <2>1, <2>2
<1> QED BY <1>12, <1>13, <1>14, <1>15, <1>16, <1>17 DEF bids, asks

-----------------------------------------------------------------------------
(* The tick of a book and its metrics.                                     *)

(* The best levels of an ordered side are those of the sorted side.        *)
LEMMA SameTop ==
  ASSUME NEW levels \in Seq(Levels), NEW sign \in Int,
         \A i \in 1 .. Len(Top(levels)) : Positive(Top(levels)[i]),
         \A i, j \in 1 .. Len(levels) : i < j => Key(levels, sign, i) <= Key(levels, sign, j)
  PROVE  Top(Sorted(levels, sign)) = Top(levels)
<1> DEFINE s == Sorted(levels, sign)
<1> DEFINE m == Len(Top(levels))
<1>1. /\ Top(levels) \in Seq(Levels) /\ Len(levels) \in Nat
      /\ m = IF Len(levels) < Depth THEN Len(levels) ELSE Depth
      /\ \A i \in 1 .. m : i \in 1 .. Len(levels) /\ Top(levels)[i] = levels[i]
  BY TopIs
<1>2. m \in 0 .. Len(levels) /\ \A i \in 1 .. m : Positive(levels[i])
  BY <1>1, Parameters
<1>3. s \in Seq(Levels) /\ Len(s) \in Nat /\ Len(s) <= Len(levels)
  <2>1. s \in Seq(Levels) /\ Len(s) = Cardinality(ParseLevels(levels))
    BY SortedIs
  <2>2. Cardinality(ParseLevels(levels)) \in Nat /\ Cardinality(ParseLevels(levels)) <= Len(levels)
    BY KeptLevels
  <2> QED BY <2>1, <2>2
<1>4. m <= Len(s) /\ \A k \in 1 .. m : s[k] = levels[k]
  <2> HIDE DEF m
  <2> QED BY <1>2, SortedPrefix
<1> HIDE DEF s, m
<1>5. /\ Top(s) \in Seq(Levels)
      /\ Len(Top(s)) = IF Len(s) < Depth THEN Len(s) ELSE Depth
      /\ \A i \in 1 .. Len(Top(s)) : Top(s)[i] = s[i]
  BY <1>3, TopIs
<1>6. Len(Top(s)) = m
  BY <1>1, <1>3, <1>4, <1>5, Parameters
<1>7. Len(Top(levels)) = m
  BY DEF m
<1>8. \A i \in 1 .. m : Top(s)[i] = Top(levels)[i]
  BY <1>1, <1>4, <1>5, <1>6
<1> DEFINE p == Top(s)
<1> DEFINE q == Top(levels)
<1>9. /\ p \in Seq(Levels) /\ q \in Seq(Levels) /\ Len(p) = Len(q)
      /\ \A i \in 1 .. Len(p) : p[i] = q[i]
  BY <1>1, <1>5, <1>6, <1>7, <1>8
<1> HIDE DEF p, q
<1>10. p = q
  BY <1>9, SameSequence
<1> QED BY <1>10 DEF s, p, q

LEMMA TicksAgree ==
  ASSUME NEW raw \in Books
  PROVE  TickAgrees(raw)
<1> DEFINE tick == FromBinance(raw)
<1> DEFINE book == Parse(raw)
<1> DEFINE metrics == CalculateMetrics(book)
<1> SUFFICES ASSUME tick # Rejected
             PROVE  /\ book # Rejected
                    /\ InUnit(WeightedImbalance(tick))
                    /\ PriceOrdered(raw) =>
                         /\ BestBid(tick) = metrics.best_bid /\ BestAsk(tick) = metrics.best_ask
                         /\ Same(Imbalance(tick), metrics.imbalance_ratio)
                         /\ Same(Spread(tick), metrics.spread_bps)
                         /\ Same(VtobRatio(tick), metrics.vtob_ratio)
  BY DEF TickAgrees
<1>1. /\ tick = [bids |-> Top(raw.bids), asks |-> Top(raw.asks)]
      /\ raw.bids \in Seq(Levels) /\ raw.asks \in Seq(Levels)
      /\ tick.bids \in Seq(Levels) /\ tick.asks \in Seq(Levels)
      /\ tick.bids # <<>> /\ tick.asks # <<>>
      /\ \A i \in 1 .. Len(tick.bids) : Positive(tick.bids[i])
      /\ \A i \in 1 .. Len(tick.asks) : Positive(tick.asks[i])
      /\ BestBid(tick) \in Nat \ {0} /\ BestAsk(tick) \in Nat \ {0}
  BY TickIs
<1> HIDE DEF tick
<1>2. tick.bids = Top(raw.bids) /\ tick.asks = Top(raw.asks)
  BY <1>1
<1>3. ASSUME NEW levels \in Seq(Levels), NEW sign \in Int, Top(levels) # <<>>,
             \A i \in 1 .. Len(Top(levels)) : Positive(Top(levels)[i])
      PROVE  Sorted(levels, sign) # <<>>
  <2>1. 1 \in 1 .. Len(Top(levels)) /\ 1 \in 1 .. Len(levels) /\ Top(levels)[1] = levels[1]
    BY <1>3, TopIs, LevelType
  <2>2. 1 \in ParseLevels(levels)
    <3>1. Positive(levels[1]) /\ DOMAIN levels = 1 .. Len(levels)
      BY <1>3, <2>1, LevelType
    <3> QED BY <2>1, <3>1 DEF ParseLevels
  <2>3. IsFiniteSet(ParseLevels(levels)) /\ Cardinality(ParseLevels(levels)) \in Nat
    BY KeptLevels
  <2>4. Cardinality(ParseLevels(levels)) # 0
    BY <2>2, <2>3, FS_EmptySet
  <2>5. Len(Sorted(levels, sign)) # 0
    BY <2>4, SortedIs
  <2>6. Len(<<>>) = 0
    OBVIOUS
  <2> QED BY <2>5, <2>6
<1>4. book # Rejected /\ book.bids = SortedBids(raw.bids) /\ book.asks = SortedAsks(raw.asks)
  <2>1. -1 \in Int /\ 1 \in Int
    OBVIOUS
  <2>2. SortedBids(raw.bids) # <<>> /\ SortedAsks(raw.asks) # <<>>
    BY <1>1, <1>2, <1>3, <2>1 DEF SortedBids, SortedAsks
  <2> QED BY <2>2, ParseIs
<1>5. InUnit(WeightedImbalance(tick))
  <2> DEFINE bid == Decayed(tick.bids, Mid2(tick), 1)
  <2> DEFINE ask == Decayed(tick.asks, Mid2(tick), -1)
  <2>1. Mid2(tick) \in Int /\ 1 \in {-1, 1} /\ -1 \in {-1, 1}
    BY <1>1 DEF Mid2
  <2>2. bid \in Nat /\ ask \in Nat
    BY <1>1, <2>1, DecayedType
  <2>3. WeightedImbalance(tick) = IF bid + ask > 0 THEN Ratio(bid, ask) ELSE <<0, 1>>
    BY DEF WeightedImbalance
  <2> HIDE DEF bid, ask
  <2>4. InUnit(Ratio(bid, ask)) /\ InUnit(<<0, 1>>)
    BY <2>2, InUnitRatio DEF InUnit
  <2> QED BY <2>3, <2>4
<1>6. ASSUME PriceOrdered(raw)
      PROVE  /\ BestBid(tick) = metrics.best_bid /\ BestAsk(tick) = metrics.best_ask
             /\ Same(Imbalance(tick), metrics.imbalance_ratio)
             /\ Same(Spread(tick), metrics.spread_bps)
             /\ Same(VtobRatio(tick), metrics.vtob_ratio)
  <2>1. Top(book.bids) = tick.bids
    <3> DEFINE down == -1
    <3> DEFINE levels == raw.bids
    <3>1. down \in Int /\ levels \in Seq(Levels) /\ Top(levels) = tick.bids
      BY <1>1, <1>2
    <3>2. ASSUME NEW i \in 1 .. Len(levels), NEW j \in 1 .. Len(levels), i < j
          PROVE  Key(levels, down, i) <= Key(levels, down, j)
      <4>1. DOMAIN levels = 1 .. Len(levels) /\ Price(levels[i]) \in Int /\ Price(levels[j]) \in Int
        BY <3>1, LevelType
      <4>2. Price(levels[i]) >= Price(levels[j])
        BY <1>6, <3>2, <4>1 DEF PriceOrdered, Descending
      <4> QED BY <4>1, <4>2 DEF Key
    <3> HIDE DEF down, levels
    <3>3. Top(Sorted(levels, down)) = Top(levels)
      BY <1>1, <3>1, <3>2, SameTop
    <3> QED BY <1>4, <3>1, <3>3 DEF SortedBids, down, levels
  <2>2. Top(book.asks) = tick.asks
    <3> DEFINE up == 1
    <3> DEFINE levels == raw.asks
    <3>1. up \in Int /\ levels \in Seq(Levels) /\ Top(levels) = tick.asks
      BY <1>1, <1>2
    <3>2. ASSUME NEW i \in 1 .. Len(levels), NEW j \in 1 .. Len(levels), i < j
          PROVE  Key(levels, up, i) <= Key(levels, up, j)
      <4>1. DOMAIN levels = 1 .. Len(levels) /\ Price(levels[i]) \in Int /\ Price(levels[j]) \in Int
        BY <3>1, LevelType
      <4>2. Price(levels[i]) <= Price(levels[j])
        BY <1>6, <3>2, <4>1 DEF PriceOrdered, Ascending
      <4> QED BY <4>1, <4>2 DEF Key
    <3> HIDE DEF up, levels
    <3>3. Top(Sorted(levels, up)) = Top(levels)
      BY <1>1, <3>1, <3>2, SameTop
    <3> QED BY <1>4, <3>1, <3>3 DEF SortedAsks, up, levels
  <2> HIDE DEF book
  <2> DEFINE bid == BestBid(tick)
  <2> DEFINE ask == BestAsk(tick)
  <2>3. /\ metrics.best_bid = bid /\ metrics.best_ask = ask
        /\ metrics.imbalance_ratio = Imbalance(tick)
        /\ metrics.spread_bps = <<ask - bid, ask + bid>>
        /\ metrics.vtob_ratio = VtobRatio(tick)
    BY <2>1, <2>2 DEF CalculateMetrics, BestBid, BestAsk, Imbalance, VtobRatio
  <2> HIDE DEF metrics
  <2>4. Spread(tick) = metrics.spread_bps
    <3>1. bid + ask = ask + bid
      BY <1>1
    <3> QED BY <2>3, <3>1 DEF Spread, Mid2
  <2>5. \A r : Same(r, r)
    BY DEF Same
  <2> QED BY <2>3, <2>4, <2>5
<1> QED BY <1>4, <1>5, <1>6 DEF tick

-----------------------------------------------------------------------------
(* Theorems.                                                               *)

LEMMA Inductive == Spec => []IInv
<1> QED BY InitIInv, StepIInv, PTL DEF Spec

(* Every buffer and every metric has the exact statistics of its own ticks *)
(* (MetricsAccumulator.update, TickBuffer.add_tick and reset): Welford's   *)
(* recurrence computes the mean and the sum of squares, and nothing of an  *)
(* earlier bucket is left.                                                 *)
THEOREM Statistics == Spec => []StatisticsExact
<1> QED BY Inductive, IInvMeans, PTL

(* Every tick of a bucket after the first lies within the bounds that its  *)
(* metric reports, in the order of time; the first was stamped before a    *)
(* bucket that it begins, and after one that a flush began (should_flush,  *)
(* add_tick, reset), wherever the readings of the clock fall in a step.    *)
THEOREM Bounds == Spec => []WithinBounds
<1> QED BY Inductive, IInvMeans, PTL

(* Whatever book came last: the metrics of the parsed book are in range,   *)
(* the jobs reject exactly the crossed books, a book the downsampler       *)
(* accepts is one the parser accepts, and if it came in price order both   *)
(* have the same best prices, imbalance, spread and share at the top       *)
(* (OrderBookParser.parse, calculate_metrics, OrderbookTick).              *)
THEOREM BothWays ==
  Spec => []BooksAgree
<1>1. IInv => BooksAgree
  <2> SUFFICES ASSUME IInv PROVE BooksAgree
    OBVIOUS
  <2>1. latest \in Books
    <3>1. [bids |-> <<>>, asks |-> <<>>] \in Books
      BY DEF Books
    <3> QED BY <3>1, Parameters DEF IInv
  <2> QED BY <2>1, PipelineIsSound, TicksAgree DEF BooksAgree
<1> QED BY <1>1, Inductive, PTL
=============================================================================
