---------------------------- MODULE CounterProofs ----------------------------
(***************************************************************************)
(* Proofs about counters and labels: for any set of executions, any        *)
(* amounts, windows, numbers of buckets and expiries.                      *)
(***************************************************************************)
EXTENDS Counters, Labels, FiniteSetTheorems, WellFoundedInduction, TLAPS

-----------------------------------------------------------------------------
(* Sums. Sum() is a fold over a set, which is a function defined by        *)
(* recursion; what it is does not depend on the order CHOOSE takes.        *)

(* Every set of natural numbers that is not empty has a least one.         *)
LEMMA LeastNumber ==
  ASSUME NEW T, T \subseteq Nat, T # {}
  PROVE  \E m \in T : \A k \in T : m <= k
  <1>1. IsWellFoundedOn(OpToRel(<, Nat), Nat)
    BY NatLessThanWellFounded
  <1>2. PICK m \in T : \A k \in T : <<k, m>> \notin OpToRel(<, Nat)
    BY <1>1, WFMin
  <1>3. OpToRel(<, Nat) = {p \in Nat \X Nat : p[1] < p[2]}
    BY Zenon DEF OpToRel
  <1>4. \A k, n \in Nat : k < n => <<k, n>> \in OpToRel(<, Nat)
    BY <1>3
  <1>5. \A k \in T : ~(k < m)
    BY <1>2, <1>4, Zenon
  <1> QED BY <1>5

(* Of sets of executions, one is in F and is not without any one of its    *)
(* elements: the induction over finite sets.                               *)
LEMMA SmallestSet ==
  ASSUME NEW F, F \subseteq SUBSET Bumps, F # {}
  PROVE  \E S \in F : \A x \in S : S \ {x} \notin F
  <1> DEFINE sizes == {Cardinality(S) : S \in F}
  <1>1. \A S \in F : IsFiniteSet(S) /\ Cardinality(S) \in Nat
    BY CountersAssumption, FS_Subset, FS_CardinalityType
  <1>2. PICK m \in sizes : \A k \in sizes : m <= k
    <2>1. sizes \subseteq Nat /\ sizes # {}
      BY <1>1
    <2> HIDE DEF sizes
    <2> QED BY <2>1, LeastNumber
  <1>3. PICK S \in F : Cardinality(S) = m
    BY <1>2
  <1>4. ASSUME NEW x \in S, S \ {x} \in F PROVE FALSE
    <2>1. Cardinality(S \ {x}) = Cardinality(S) - 1
      BY <1>1, <1>3, FS_RemoveElement
    <2>2. m <= Cardinality(S \ {x})
      BY <1>2, <1>4
    <2> QED BY <1>1, <1>3, <2>1, <2>2
  <1> QED BY <1>4

Some(s) == CHOOSE x \in s : TRUE

SumStep(s, g) == IF s = {} THEN 0 ELSE Amount[Some(s)] + g[s \ {Some(s)}]

SumOn(S, g) == g = [s \in SUBSET S |-> SumStep(s, g)]

(* Sum() is the value at S of a function that sums up all subsets.         *)
LEMMA SumIsFold ==
  ASSUME NEW S
  PROVE  Sum(S) = (CHOOSE g : SumOn(S, g))[S]
  BY DEF Sum, SumFunctionOnSet, FoldFunctionOnSet, MapThenFoldSet, SumOn, SumStep, Some

(* The element that is taken first is an element.                          *)
LEMMA SomeOf ==
  ASSUME NEW s, s # {}
  PROVE  Some(s) \in s
  BY DEF Some

(* Two such functions agree where both are defined.                        *)
LEMMA SumsAgree ==
  ASSUME NEW S \in SUBSET Bumps, NEW T \in SUBSET Bumps, NEW g, NEW h, SumOn(S, g), SumOn(T, h)
  PROVE  \A s \in (SUBSET S) \intersect (SUBSET T) : g[s] = h[s]
  <1> DEFINE Bad == {s \in (SUBSET S) \intersect (SUBSET T) : g[s] # h[s]}
  <1> SUFFICES ASSUME Bad # {} PROVE FALSE
    OBVIOUS
  <1>1. PICK s \in Bad : \A x \in s : s \ {x} \notin Bad
    <2>1. Bad \subseteq SUBSET Bumps
      OBVIOUS
    <2> HIDE DEF Bad
    <2> QED BY <2>1, SmallestSet
  <1>2. g[s] = SumStep(s, g) /\ h[s] = SumStep(s, h)
    BY DEF SumOn
  <1>3. s # {} => g[s \ {Some(s)}] = h[s \ {Some(s)}]
    BY <1>1, SomeOf
  <1> QED BY <1>1, <1>2, <1>3 DEF SumStep

(* Such a function also sums up the subsets of a subset.                   *)
LEMMA SumOnSubset ==
  ASSUME NEW S, NEW T \in SUBSET S, NEW g, SumOn(S, g)
  PROVE  SumOn(T, [s \in SUBSET T |-> g[s]])
  <1> DEFINE h == [s \in SUBSET T |-> g[s]]
  <1>1. ASSUME NEW s \in SUBSET T PROVE h[s] = SumStep(s, h)
    <2>1. g[s] = SumStep(s, g)
      BY DEF SumOn
    <2>2. s # {} => h[s \ {Some(s)}] = g[s \ {Some(s)}]
      BY SomeOf
    <2> QED BY <2>1, <2>2 DEF SumStep
  <1> QED BY <1>1 DEF SumOn

(* Where the recursion has a solution, Sum() is it. *)
LEMMA SumWhereDefined ==
  ASSUME NEW S \in SUBSET Bumps, NEW g, SumOn(S, g), NEW s \in SUBSET S
  PROVE  Sum(s) = g[s]
  <1> DEFINE h == CHOOSE f : SumOn(s, f)
  <1>1. SumOn(s, [t \in SUBSET s |-> g[t]])
    BY SumOnSubset
  <1>2. SumOn(s, h)
    BY <1>1
  <1>3. h[s] = g[s]
    <2> HIDE DEF h
    <2>1. s \in SUBSET Bumps /\ s \in (SUBSET s) \intersect (SUBSET S)
      OBVIOUS
    <2> QED BY <1>2, <2>1, SumsAgree
  <1> QED BY <1>3, SumIsFold

(* There is such a function: by induction over the number of bumps.        *)
LEMMA SumIsDefined ==
  ASSUME NEW T \in SUBSET Bumps
  PROVE  \E g : SumOn(T, g)
  <1> DEFINE Bad == {S \in SUBSET Bumps : ~\E g : SumOn(S, g)}
  <1> SUFFICES ASSUME Bad # {} PROVE FALSE
    OBVIOUS
  <1>1. PICK S \in Bad : \A x \in S : S \ {x} \notin Bad
    <2>1. Bad \subseteq SUBSET Bumps
      OBVIOUS
    <2> HIDE DEF Bad
    <2> QED BY <2>1, SmallestSet
  <1> DEFINE value(s) == IF s = {} THEN 0 ELSE Amount[Some(s)] + Sum(s \ {Some(s)})
             h == [s \in SUBSET S |-> IF s = S THEN value(s) ELSE Sum(s)]
  <1>2. ASSUME NEW s \in SUBSET S, s # S PROVE Sum(s) = value(s)
    <2>1. PICK x \in S : s \in SUBSET (S \ {x})
      BY <1>2
    <2>2. PICK g : SumOn(S \ {x}, g)
      BY <1>1
    <2>3. g[s] = SumStep(s, g)
      BY <2>1, <2>2 DEF SumOn
    <2> DEFINE R == S \ {x}
    <2>4. R \in SUBSET Bumps /\ SumOn(R, g) /\ s \in SUBSET R /\ s \ {Some(s)} \in SUBSET R
      BY <2>1, <2>2
    <2> HIDE DEF R
    <2>5. Sum(s) = g[s] /\ Sum(s \ {Some(s)}) = g[s \ {Some(s)}]
      BY <2>4, SumWhereDefined
    <2> QED BY <2>3, <2>5 DEF SumStep
  <1>3. ASSUME NEW s \in SUBSET S PROVE h[s] = SumStep(s, h)
    <2>1. h[s] = value(s)
      BY <1>2
    <2>2. s # {} => s \ {Some(s)} \in SUBSET S /\ s \ {Some(s)} # S
      BY SomeOf
    <2>3. s # {} => h[s \ {Some(s)}] = Sum(s \ {Some(s)})
      BY <2>2
    <2> HIDE DEF h
    <2> QED BY <2>1, <2>3 DEF SumStep
  <1>4. SumOn(S, h)
    BY <1>3 DEF SumOn
  <1> QED BY <1>1, <1>4

(* Therefore the definition of Sum() may be unfolded.                      *)
LEMMA SumUnfolds ==
  ASSUME NEW S \in SUBSET Bumps
  PROVE  Sum(S) = IF S = {} THEN 0 ELSE Amount[Some(S)] + Sum(S \ {Some(S)})
  <1>1. PICK g : SumOn(S, g)
    BY SumIsDefined
  <1>2. g[S] = SumStep(S, g)
    BY <1>1 DEF SumOn
  <1>3. Sum(S) = g[S] /\ Sum(S \ {Some(S)}) = g[S \ {Some(S)}]
    BY <1>1, SumWhereDefined
  <1> QED BY <1>2, <1>3 DEF SumStep

(* Sums are natural numbers.                                               *)
LEMMA SumType ==
  ASSUME NEW T \in SUBSET Bumps
  PROVE  Sum(T) \in Nat
  <1> DEFINE Bad == {S \in SUBSET Bumps : Sum(S) \notin Nat}
  <1> SUFFICES ASSUME Bad # {} PROVE FALSE
    OBVIOUS
  <1>1. PICK S \in Bad : \A x \in S : S \ {x} \notin Bad
    <2>1. Bad \subseteq SUBSET Bumps
      OBVIOUS
    <2> HIDE DEF Bad
    <2> QED BY <2>1, SmallestSet
  <1>2. S # {} => Some(S) \in S /\ Sum(S \ {Some(S)}) \in Nat /\ Amount[Some(S)] \in Nat
    BY <1>1, SomeOf, CountersAssumption
  <1>3. Sum(S) = IF S = {} THEN 0 ELSE Amount[Some(S)] + Sum(S \ {Some(S)})
    BY SumUnfolds
  <1> QED BY <1>2, <1>3

(* A sum without any one of its elements. *)
LEMMA SumWithout ==
  ASSUME NEW T \in SUBSET Bumps, NEW y \in T
  PROVE  Sum(T) = Amount[y] + Sum(T \ {y})
  <1> DEFINE Bad == {S \in SUBSET Bumps : \E x \in S : Sum(S) # Amount[x] + Sum(S \ {x})}
  <1> SUFFICES ASSUME Bad # {} PROVE FALSE
    OBVIOUS
  <1>1. PICK S \in Bad : \A x \in S : S \ {x} \notin Bad
    <2>1. Bad \subseteq SUBSET Bumps
      OBVIOUS
    <2> HIDE DEF Bad
    <2> QED BY <2>1, SmallestSet
  <1>2. PICK x \in S : Sum(S) # Amount[x] + Sum(S \ {x})
    BY <1>1
  <1> DEFINE z == Some(S)
  <1>3. z \in S /\ Sum(S) = Amount[z] + Sum(S \ {z})
    BY <1>2, SomeOf, SumUnfolds
  <1> HIDE DEF z
  <1>4. x # z
    BY <1>2, <1>3
  <1>5. Sum(S \ {z}) = Amount[x] + Sum((S \ {z}) \ {x})
    BY <1>1, <1>3, <1>4
  <1>6. Sum(S \ {x}) = Amount[z] + Sum((S \ {x}) \ {z})
    BY <1>1, <1>3, <1>4
  <1>7. (S \ {z}) \ {x} = (S \ {x}) \ {z}
    OBVIOUS
  <1>8. Amount[x] \in Nat /\ Amount[z] \in Nat /\ Sum((S \ {x}) \ {z}) \in Nat
    BY <1>3, CountersAssumption, SumType
  <1>9. Sum(S \ {z}) = Amount[x] + Sum((S \ {x}) \ {z})
    BY <1>5, <1>7, Zenon
  <1> HIDE DEF Bad
  <1> QED BY <1>2, <1>3, <1>6, <1>8, <1>9

(* The sum of two sets that have no element in common. *)
LEMMA SumOfUnion ==
  ASSUME NEW S \in SUBSET Bumps, NEW T \in SUBSET Bumps, S \intersect T = {}
  PROVE  Sum(S \union T) = Sum(S) + Sum(T)
  <1> DEFINE Bad == {R \in SUBSET T : Sum(S \union R) # Sum(S) + Sum(R)}
  <1> SUFFICES ASSUME Bad # {} PROVE FALSE
    OBVIOUS
  <1>1. PICK R \in Bad : \A x \in R : R \ {x} \notin Bad
    <2>1. Bad \subseteq SUBSET Bumps
      OBVIOUS
    <2> HIDE DEF Bad
    <2> QED BY <2>1, SmallestSet
  <1>2. R \in SUBSET Bumps /\ R # {}
    <2>1. Sum({}) = 0 /\ Sum(S) \in Nat /\ S \union {} = S
      BY SumUnfolds, SumType
    <2> QED BY <1>1, <2>1
  <1>3. PICK x \in R : TRUE
    BY <1>2
  <1>4. Sum(S \union (R \ {x})) = Sum(S) + Sum(R \ {x})
    BY <1>1, <1>3
  <1>5. Sum(R) = Amount[x] + Sum(R \ {x})
    BY <1>2, <1>3, SumWithout
  <1>6. Sum(S \union R) = Amount[x] + Sum((S \union R) \ {x})
    BY <1>2, <1>3, SumWithout
  <1>7. (S \union R) \ {x} = S \union (R \ {x})
    BY <1>1, <1>3
  <1>8. Amount[x] \in Nat /\ Sum(S) \in Nat /\ Sum(R \ {x}) \in Nat
    BY <1>2, <1>3, CountersAssumption, SumType
  <1> QED BY <1>1, <1>4, <1>5, <1>6, <1>7, <1>8

(* A larger set has no smaller sum. *)
LEMMA SumGrows ==
  ASSUME NEW T \in SUBSET Bumps, NEW S \in SUBSET T
  PROVE  Sum(S) <= Sum(T)
  <1>1. Sum(S \union (T \ S)) = Sum(S) + Sum(T \ S)
    BY SumOfUnion
  <1>2. S \union (T \ S) = T
    OBVIOUS
  <1>3. Sum(S) \in Nat /\ Sum(T \ S) \in Nat
    BY SumType
  <1>4. Sum(T) = Sum(S) + Sum(T \ S)
    BY <1>1, <1>2, Zenon
  <1> QED BY <1>3, <1>4

-----------------------------------------------------------------------------
(* Buckets.                                                                *)

(* What division and remainder by a positive number give.                  *)
LEMMA DivideBounds ==
  ASSUME NEW a \in Int, NEW d \in Nat \ {0}
  PROVE  a \div d \in Int /\ a % d = a - d * (a \div d) /\ d * (a \div d) <= a /\ a < d * (a \div d) + d
  OBVIOUS

(* Multiples divide exactly.                                               *)
LEMMA DivideMultiple ==
  ASSUME NEW d \in Nat \ {0}, NEW q \in Int
  PROVE  (d * q) \div d = q
  OBVIOUS

(* Multiplication keeps the order,                                         *)
LEMMA TimesAtMost ==
  ASSUME NEW d \in Nat, NEW p \in Int, NEW q \in Int, p <= q
  PROVE  d * p <= d * q
  OBVIOUS

(* and a strict order comes from one of the factors.                       *)
LEMMA TimesLess ==
  ASSUME NEW d \in Nat \ {0}, NEW p \in Int, NEW q \in Int, d * p < d * q
  PROVE  p < q
  OBVIOUS

(* Two multiples of d, one of them less than d above the other. *)
LEMMA TimesNext ==
  ASSUME NEW d \in Nat \ {0}, NEW p \in Int, NEW q \in Int, d * p < d * q + d
  PROVE  d * p <= d * q
  <1>1. d * q + d = d * (q + 1)
    OBVIOUS
  <1>2. p < q + 1
    BY <1>1, TimesLess
  <1> QED BY <1>2, TimesAtMost

Sliding == Windows \ {Total}

(* A sliding window is NumBuckets buckets long, and a bucket is longer     *)
(* than events are late.                                                   *)
LEMMA WindowFacts ==
  ASSUME NEW w \in Sliding
  PROVE  /\ w \in Nat \ {0} /\ BucketSize(w) \in Nat \ {0}
         /\ w = NumBuckets * BucketSize(w)
         /\ MaxLag < BucketSize(w)
         /\ BucketSize(Short) \in Nat \ {0} /\ BucketSize(Long) = 2 * BucketSize(Short)
  <1> DEFINE N == NumBuckets  q == Short \div N
  <1>1. N \in Nat \ {0} /\ Short \in Nat \ {0} /\ Short % N = 0 /\ MaxLag \in Nat /\ MaxLag < q
    BY CountersAssumption, LagAssumption, RedisAssumption
  <1>2. q \in Int /\ Short = N * q
    <2> HIDE DEF q, N
    <2>1. Short \div N \in Int /\ Short % N = Short - N * (Short \div N)
      BY <1>1, DivideBounds
    <2> QED BY <1>1, <2>1 DEF q, N
  <1>3. q \in Nat \ {0}
    BY <1>1, <1>2
  <1>4. Long \div N = 2 * q
    <2> HIDE DEF q, N
    <2>1. Long = N * (2 * q)
      BY <1>1, <1>2 DEF Long
    <2>2. 2 * q \in Int
      BY <1>2
    <2> QED BY <1>1, <2>1, <2>2, DivideMultiple
  <1>5. BucketSize(Short) = q /\ BucketSize(Long) = 2 * q
    BY <1>4 DEF BucketSize
  <1>6. w = Short \/ w = Long
    BY DEF Sliding, Windows, Rulesets
  <1> HIDE DEF q, N
  <1>7. CASE w = Short
    BY <1>1, <1>2, <1>3, <1>5, <1>7 DEF N
  <1>8. CASE w = Long
    <2>1. Long \in Nat \ {0} /\ Long = N * (2 * q) /\ 2 * q \in Nat \ {0} /\ MaxLag < 2 * q
      BY <1>1, <1>2, <1>3 DEF Long
    <2> QED BY <1>3, <1>5, <1>8, <2>1 DEF N
  <1> QED BY <1>6, <1>7, <1>8

(* A moment is in its bucket, and buckets begin at multiples of their size. *)
LEMMA BucketFacts ==
  ASSUME NEW w \in Sliding, NEW t \in Int
  PROVE  /\ BucketOf(w, t) \in Int /\ BucketOf(w, t) <= t /\ t < BucketOf(w, t) + BucketSize(w)
         /\ \E q \in Int : BucketOf(w, t) = BucketSize(w) * q
  <1> DEFINE d == BucketSize(w)  q == t \div d
  <1>1. d \in Nat \ {0} /\ w # Total
    BY WindowFacts DEF Sliding
  <1>2. BucketOf(w, t) = t - (t % d)
    BY <1>1 DEF BucketOf
  <1> HIDE DEF d
  <1>3. q \in Int /\ t % d = t - d * q /\ d * q <= t /\ t < d * q + d
    BY <1>1, DivideBounds
  <1> HIDE DEF q
  <1>4. BucketOf(w, t) = d * q
    BY <1>1, <1>2, <1>3
  <1> QED BY <1>1, <1>3, <1>4 DEF d

(* The bucket of t is the only multiple of the size that is not after t    *)
(* and less than a size before it.                                         *)
LEMMA BucketIsNext ==
  ASSUME NEW w \in Sliding, NEW t \in Int, NEW q \in Int,
         BucketSize(w) * q <= t, t < BucketSize(w) * q + BucketSize(w)
  PROVE  BucketOf(w, t) = BucketSize(w) * q
  <1> DEFINE d == BucketSize(w)  b == BucketOf(w, t)
  <1>1. d \in Nat \ {0}
    BY WindowFacts
  <1>2. b \in Int /\ b <= t /\ t < b + d
    BY BucketFacts
  <1>3. PICK p \in Int : b = d * p
    BY BucketFacts
  <1>4. d * q <= t /\ t < d * q + d
    OBVIOUS
  <1> HIDE DEF d, b
  <1>5. d * p \in Int /\ d * q \in Int
    BY <1>1, <1>3
  <1>6. d * p <= d * q
    <2>1. d * p < d * q + d
      BY <1>1, <1>2, <1>3, <1>4, <1>5
    <2> QED BY <1>1, <2>1, TimesNext
  <1>7. d * q <= d * p
    <2>1. d * q < d * p + d
      BY <1>1, <1>2, <1>3, <1>4, <1>5
    <2> QED BY <1>1, <2>1, TimesNext
  <1>8. b = d * q
    BY <1>3, <1>5, <1>6, <1>7
  <1> QED BY <1>8 DEF b, d

(* The buckets an execution reads are all those from the one its window    *)
(* begins in up to its own.                                                *)
LEMMA BucketsRead ==
  ASSUME NEW w \in Sliding, NEW t \in Int, NEW a \in Int
  PROVE  /\ BucketOf(w, WindowStart(w, t)) = BucketOf(w, t) - w
         /\ BucketOf(w, a) \in BucketsOf(w, t)
              <=> BucketOf(w, a) \in BucketOf(w, WindowStart(w, t))..BucketOf(w, t)
         /\ \A b \in BucketsOf(w, t) : b \in BucketOf(w, WindowStart(w, t))..BucketOf(w, t)
  <1> DEFINE d == BucketSize(w)  N == NumBuckets  f == BucketOf(w, WindowStart(w, t))
             c == BucketOf(w, t)  b == BucketOf(w, a)
  <1>1. d \in Nat \ {0} /\ w \in Nat /\ w = N * d /\ N \in Nat \ {0} /\ w # Total
    BY WindowFacts, CountersAssumption DEF Sliding
  <1>2. PICK q \in Int : c = d * q
    BY BucketFacts
  <1>3. PICK p \in Int : b = d * p
    BY BucketFacts
  <1>4. c \in Int /\ c <= t /\ t < c + d /\ b \in Int
    BY BucketFacts
  <1>5. f = c - w
    <2>1. WindowStart(w, t) = t - w /\ t - w \in Int /\ q - N \in Int
      BY <1>1 DEF WindowStart
    <2>2. d * (q - N) = c - w
      <3> HIDE DEF d, c, N
      <3> QED BY <1>1, <1>2
    <2>3. d * (q - N) <= t - w /\ t - w < d * (q - N) + d
      <3> HIDE DEF d, c, N
      <3> QED BY <1>1, <1>4, <2>2
    <2>4. BucketOf(w, t - w) = d * (q - N)
      <3> HIDE DEF c, N
      <3> QED BY <1>1, <1>2, <2>1, <2>3, BucketIsNext
    <2> QED BY <2>1, <2>2, <2>4
  <1>6. BucketsOf(w, t) = {f + i * d : i \in 0..N}
    BY <1>1 DEF BucketsOf
  <1> HIDE DEF d, N, f, c, b
  <1>7. ASSUME NEW i \in 0..N PROVE f + i * d \in f..c
    <2>1. i \in Nat /\ i <= N /\ i * d = d * i /\ N * d = d * N
      BY <1>1
    <2>2. d * 0 <= d * i /\ d * i <= d * N /\ d * i \in Int
      BY <1>1, <2>1, TimesAtMost
    <2> QED BY <1>1, <1>4, <1>5, <2>1, <2>2
  <1>8. ASSUME b \in f..c PROVE b \in {f + i * d : i \in 0..N}
    <2> DEFINE i == p - (q - N)
    <2>1. f = d * (q - N) /\ i \in Int /\ q - N \in Int
      BY <1>1, <1>2, <1>5
    <2>2. b = f + i * d
      BY <1>1, <1>3, <2>1
    <2>3. d * (q - N) <= d * p /\ d * p <= d * q
      BY <1>1, <1>2, <1>3, <1>4, <1>5, <1>8, <2>1
    <2>4. d * (q - N) < d * (p + 1) /\ d * p < d * (q + 1)
      BY <1>1, <2>1, <2>3
    <2>5. q - N < p + 1 /\ p < q + 1
      <3>1. p + 1 \in Int /\ q + 1 \in Int
        OBVIOUS
      <3> QED BY <1>1, <2>1, <2>4, <3>1, TimesLess
    <2>6. i \in 0..N
      BY <1>1, <2>1, <2>5
    <2> QED BY <2>2, <2>6
  <1>9. /\ b \in {f + i * d : i \in 0..N} <=> b \in f..c
        /\ \A x \in {f + i * d : i \in 0..N} : x \in f..c
    BY <1>7, <1>8
  <1> QED BY <1>5, <1>6, <1>9 DEF b, c, f

-----------------------------------------------------------------------------
(* The inductive invariant of a counter.                                   *)

CountSpec == clock = 0 /\ CountInit /\ [][CountNext]_<<clock, countVars>>

(* Whoever has not mutated has bumped nothing. *)
BumpsAreMutations ==
  \A e \in Bumps, w \in Windows :
    bumpAt[e] = Never => stage[e][w] = "idle" /\ e \notin bumped[w]

(* A key that expires does so when no window holds its bucket any more,    *)
(* whichever of its events set its expiry last.                            *)
KeysLast ==
  \A k \in Keys :
    k[1] # Total /\ keyTill[k] # Never => keyTill[k] >= k[2] + k[1] + BucketSize(k[1])

(* A bumped event is in its own key and in no other, until then.           *)
InOwnBucket ==
  /\ \A k \in Keys : \A e \in inBucket[k] : e \in bumped[k[1]] /\ KeyOf(e, k[1]) = k
  /\ \A w \in Sliding : \A e \in bumped[w] :
       \/ e \in inBucket[KeyOf(e, w)]
       \/ clock >= BucketOf(w, bumpAt[e]) + w + BucketSize(w)

CountInv ==
  /\ CountTypeOK /\ clock \in 0..Horizon
  /\ BumpsAreMutations /\ KeysLast /\ InOwnBucket /\ KeysExpire

(* A key is a window and a number.                                         *)
LEMMA KeyFacts ==
  ASSUME NEW k \in Keys
  PROVE  k[1] \in Windows /\ k[2] \in Int /\ k = <<k[1], k[2]>>
  <1>1. PICK w \in Windows, t \in 0..Horizon : k = <<w, BucketOf(w, t)>>
    BY DEF Keys
  <1>2. BucketOf(w, t) \in Int
    <2>1. CASE w = Total
      BY <2>1 DEF BucketOf
    <2>2. CASE w # Total
      BY <2>2, BucketFacts, RedisAssumption DEF Sliding
    <2> QED BY <2>1, <2>2
  <1> QED BY <1>1, <1>2

(* The key of an execution that has mutated. *)
LEMMA KeyOfFacts ==
  ASSUME CountTypeOK, clock \in 0..Horizon, NEW e \in Bumps, NEW w \in Windows, bumpAt[e] # Never
  PROVE  /\ bumpAt[e] \in 0..clock /\ bumpAt[e] \in Int
         /\ KeyOf(e, w) \in Keys /\ KeyOf(e, w)[1] = w /\ KeyOf(e, w)[2] = BucketOf(w, bumpAt[e])
  <1>1. bumpAt[e] \in 0..clock /\ bumpAt[e] \in 0..Horizon
    BY RedisAssumption DEF CountTypeOK, Never
  <1> QED BY <1>1 DEF KeyOf, Keys

(* A bucket of a sliding window lives as long as the window can reach it.  *)
LEMMA LifeFacts ==
  ASSUME NEW w \in Windows
  PROVE  BucketLife(w) \in Nat /\ (w # Total => BucketLife(w) >= w + BucketSize(w))
  <1>1. CASE w = Total
    BY <1>1, CountersAssumption DEF BucketLife
  <1>2. CASE w # Total
    <2> DEFINE s == Second  a == w + BucketSize(w)  q == (a + s - 1) \div s
    <2>1. a \in Nat /\ s \in Nat \ {0}
      BY <1>2, WindowFacts, CountersAssumption DEF Sliding
    <2>2. BucketLife(w) = q * s
      BY <1>2 DEF BucketLife
    <2> HIDE DEF s, a
    <2>3. q \in Int /\ a + s - 1 < s * q + s
      <3>1. a + s - 1 \in Int
        BY <2>1
      <3> QED BY <2>1, <3>1, DivideBounds
    <2> HIDE DEF q
    <2>4. q * s = s * q /\ s * q \in Int
      BY <2>1, <2>3
    <2>5. s * q >= a
      BY <2>1, <2>3, <2>4
    <2> QED BY <2>1, <2>2, <2>4, <2>5 DEF a
  <1> QED BY <1>1, <1>2

(* No step of the counter leaves the types.                                *)
LEMMA CountTypes ==
  ASSUME CountTypeOK, clock \in 0..Horizon, [CountNext]_<<clock, countVars>>
  PROVE  CountTypeOK' /\ clock' \in 0..Horizon
  <1>0. Keys' = Keys /\ clock \in Nat /\ Horizon \in Nat
    BY RedisAssumption DEF Keys, BucketOf, BucketSize, Windows, Rulesets, Long
  <1>1. CASE UNCHANGED <<clock, countVars>>
    BY <1>0, <1>1 DEF CountTypeOK, countVars
  <1>2. CASE CountTick
    <2>1. clock' = clock + 1 /\ clock' \in 0..Horizon /\ -1..clock \subseteq -1..clock'
      BY <1>0, <1>2 DEF CountTick, PassTime
    <2>2. UNCHANGED <<asked, bumpAt, stage, bumped>>
      BY <1>2 DEF CountTick
    <2>3. bumpAt \in [Bumps -> -1..clock']
      BY <2>1 DEF CountTypeOK
    <2>4. inBucket' \in [Keys -> SUBSET Bumps] /\ keyTill' \in [Keys -> Int]
      BY <1>2 DEF CountTick, CountTypeOK, Never
    <2> QED BY <1>0, <2>1, <2>2, <2>3, <2>4 DEF CountTypeOK
  <1>3. ASSUME NEW e \in Bumps, Mutate(e) PROVE CountTypeOK' /\ clock' \in 0..Horizon
    <2>1. UNCHANGED <<clock, asked, inBucket, keyTill, bumped>>
      BY <1>3 DEF Mutate
    <2>2. bumpAt' \in [Bumps -> -1..clock]
      BY <1>3 DEF Mutate, CountTypeOK, EventTimes
    <2>3. stage' \in [Bumps -> [Windows -> {"idle", "bump", "expire", "done", "failed"}]]
      BY <1>3 DEF Mutate, CountTypeOK
    <2> QED BY <1>0, <2>1, <2>2, <2>3 DEF CountTypeOK
  <1>4. ASSUME NEW e \in Bumps, NEW w \in Windows, Bump(e, w)
        PROVE  CountTypeOK' /\ clock' \in 0..Horizon
    <2>1. UNCHANGED <<clock, asked, bumpAt, keyTill>>
      BY <1>4 DEF Bump
    <2>2. inBucket' \in [Keys -> SUBSET Bumps]
      BY <1>4 DEF Bump, CountTypeOK
    <2>3. bumped' \in [Windows -> SUBSET Bumps]
      BY <1>4 DEF Bump, CountTypeOK
    <2>4. stage' \in [Bumps -> [Windows -> {"idle", "bump", "expire", "done", "failed"}]]
      BY <1>4 DEF Bump, CountTypeOK
    <2> QED BY <1>0, <2>1, <2>2, <2>3, <2>4 DEF CountTypeOK
  <1>5. ASSUME NEW e \in Bumps, NEW w \in Windows, ExpireKey(e, w)
        PROVE  CountTypeOK' /\ clock' \in 0..Horizon
    <2>1. UNCHANGED <<clock, asked, bumpAt, inBucket, bumped>>
      BY <1>5 DEF ExpireKey
    <2>2. keyTill' \in [Keys -> Int]
      <3>1. clock + BucketLife(w) \in Int
        BY <1>0, LifeFacts
      <3> QED BY <1>5, <3>1 DEF ExpireKey, CountTypeOK
    <2>3. stage' \in [Bumps -> [Windows -> {"idle", "bump", "expire", "done", "failed"}]]
      BY <1>5 DEF ExpireKey, CountTypeOK
    <2> QED BY <1>0, <2>1, <2>2, <2>3 DEF CountTypeOK
  <1>6. ASSUME NEW e \in Bumps, NEW w \in Windows, BumpFails(e, w)
        PROVE  CountTypeOK' /\ clock' \in 0..Horizon
    <2>1. UNCHANGED <<clock, asked, bumpAt, inBucket, keyTill, bumped>>
      BY <1>6 DEF BumpFails
    <2>2. stage' \in [Bumps -> [Windows -> {"idle", "bump", "expire", "done", "failed"}]]
      <3>1. PICK to \in {"done", "expire", "failed"} : stage' = [stage EXCEPT ![e][w] = to]
        BY <1>6 DEF BumpFails
      <3> QED BY <3>1 DEF CountTypeOK
    <2> QED BY <1>0, <2>1, <2>2 DEF CountTypeOK
  <1> QED BY <1>1, <1>2, <1>3, <1>4, <1>5, <1>6 DEF CountNext

(* The keys, windows and buckets do not change. *)
LEMMA BumpsKept ==
  ASSUME CountInv, [CountNext]_<<clock, countVars>>
  PROVE  BumpsAreMutations'
  <1>0. CountTypeOK /\ BumpsAreMutations /\ clock \in Nat
    BY DEF CountInv
  <1>1. CASE UNCHANGED <<clock, countVars>>
    BY <1>0, <1>1 DEF BumpsAreMutations, countVars
  <1>2. CASE CountTick
    BY <1>0, <1>2 DEF BumpsAreMutations, CountTick
  <1>3. ASSUME NEW e \in Bumps, Mutate(e) PROVE BumpsAreMutations'
    <2>1. bumpAt'[e] # Never
      BY <1>0, <1>3 DEF Mutate, CountTypeOK, EventTimes, Never
    <2>2. \A d \in Bumps \ {e} : bumpAt'[d] = bumpAt[d] /\ stage'[d] = stage[d]
      BY <1>0, <1>3 DEF Mutate, CountTypeOK
    <2>3. bumped' = bumped
      BY <1>3 DEF Mutate
    <2> QED BY <1>0, <2>1, <2>2, <2>3 DEF BumpsAreMutations
  <1>4. ASSUME NEW e \in Bumps, NEW w \in Windows, Bump(e, w) \/ ExpireKey(e, w) \/ BumpFails(e, w)
        PROVE  BumpsAreMutations'
    <2>1. bumpAt' = bumpAt /\ bumpAt[e] # Never
      BY <1>0, <1>4 DEF BumpsAreMutations, Bump, ExpireKey, BumpFails
    <2>2. \A d \in Bumps \ {e} : stage'[d] = stage[d]
      BY <1>0, <1>4 DEF Bump, ExpireKey, BumpFails, CountTypeOK
    <2>3. \A d \in Bumps \ {e}, v \in Windows : d \in bumped'[v] <=> d \in bumped[v]
      BY <1>0, <1>4 DEF Bump, ExpireKey, BumpFails, CountTypeOK
    <2> QED BY <1>0, <2>1, <2>2, <2>3 DEF BumpsAreMutations
  <1> QED BY <1>1, <1>2, <1>3, <1>4 DEF CountNext

(* What the steps do to the keys. *)
LEMMA KeySteps ==
  ASSUME CountInv, [CountNext]_<<clock, countVars>>
  PROVE  \/ /\ UNCHANGED <<clock, inBucket, keyTill, bumped, bumpAt, stage>>
         \/ CountTick
         \/ \E e \in Bumps :
              \/ Mutate(e) /\ bumpAt[e] = Never /\ \A w \in Windows : e \notin bumped[w] /\ stage[e][w] = "idle"
              \/ \E w \in Windows :
                   /\ bumpAt[e] # Never
                   /\ Bump(e, w) \/ ExpireKey(e, w) \/ BumpFails(e, w)
  <1>1. ASSUME NEW e \in Bumps, NEW w \in Windows, Bump(e, w) \/ ExpireKey(e, w) \/ BumpFails(e, w)
        PROVE  bumpAt[e] # Never
    BY <1>1 DEF CountInv, BumpsAreMutations, Bump, ExpireKey, BumpFails
  <1>2. ASSUME NEW e \in Bumps, Mutate(e)
        PROVE  bumpAt[e] = Never /\ \A w \in Windows : e \notin bumped[w] /\ stage[e][w] = "idle"
    BY <1>2 DEF CountInv, BumpsAreMutations, Mutate
  <1> QED BY <1>1, <1>2 DEF CountNext, countVars

(* The tick drops the keys whose time has come. *)
LEMMA TickDrops ==
  ASSUME CountInv, CountTick, NEW k \in Keys
  PROVE  /\ clock' = clock + 1 /\ clock \in Nat /\ keyTill[k] \in Int
         /\ \/ keyTill[k] # Never /\ keyTill[k] <= clock' /\ inBucket'[k] = {} /\ keyTill'[k] = Never
            \/ inBucket'[k] = inBucket[k] /\ keyTill'[k] = keyTill[k]
         /\ UNCHANGED <<asked, bumpAt, stage, bumped>>
  <1>1. clock' = clock + 1 /\ clock \in Nat /\ keyTill[k] \in Int
    BY RedisAssumption DEF CountInv, CountTypeOK, CountTick, PassTime
  <1>2. /\ inBucket'[k] = IF Dropped(keyTill[k]) THEN {} ELSE inBucket[k]
        /\ keyTill'[k] = IF Dropped(keyTill[k]) THEN Never ELSE keyTill[k]
    BY DEF CountTick
  <1> QED BY <1>1, <1>2 DEF CountTick, Dropped

(* No step leaves a key that is dropped too early.                         *)
LEMMA KeysLastKept ==
  ASSUME CountInv, [CountNext]_<<clock, countVars>>
  PROVE  KeysLast'
  <1>0. CountTypeOK /\ KeysLast /\ clock \in 0..Horizon /\ Keys' = Keys
    BY DEF CountInv, Keys, BucketOf, BucketSize, Windows, Rulesets, Long
  <1>1. SUFFICES ASSUME NEW k \in Keys, k[1] # Total, keyTill'[k] # Never
                 PROVE  keyTill'[k] >= k[2] + k[1] + BucketSize(k[1])
    BY <1>0 DEF KeysLast, BucketSize, Never, Total
  <1>2. keyTill'[k] = keyTill[k] => keyTill'[k] >= k[2] + k[1] + BucketSize(k[1])
    BY <1>0, <1>1 DEF KeysLast
  <1>3. CASE CountTick
    BY <1>1, <1>2, <1>3, TickDrops
  <1>4. ASSUME NEW e \in Bumps, NEW w \in Windows, bumpAt[e] # Never, ExpireKey(e, w),
               keyTill'[k] # keyTill[k]
        PROVE  keyTill'[k] >= k[2] + k[1] + BucketSize(k[1])
    <2>1. k = KeyOf(e, w) /\ keyTill'[k] = clock + BucketLife(w)
      BY <1>0, <1>4 DEF ExpireKey, CountTypeOK
    <2>2. /\ k[1] = w /\ k[2] = BucketOf(w, bumpAt[e])
          /\ bumpAt[e] \in 0..clock /\ bumpAt[e] \in Int
      BY <1>0, <1>4, <2>1, KeyOfFacts
    <2>3. w \in Sliding
      BY <1>1, <2>2 DEF Sliding
    <2>4. /\ BucketOf(w, bumpAt[e]) \in Int /\ BucketOf(w, bumpAt[e]) <= bumpAt[e]
          /\ BucketLife(w) \in Nat /\ BucketLife(w) >= w + BucketSize(w)
          /\ w \in Nat /\ BucketSize(w) \in Nat
      BY <2>2, <2>3, BucketFacts, LifeFacts, WindowFacts DEF Sliding
    <2> QED BY <1>0, <2>1, <2>2, <2>4
  <1>5. keyTill'[k] # keyTill[k] =>
          \/ CountTick
          \/ \E e \in Bumps, w \in Windows : bumpAt[e] # Never /\ ExpireKey(e, w)
    BY KeySteps DEF Mutate, Bump, BumpFails
  <1> QED BY <1>2, <1>3, <1>4, <1>5

(* No step bumps the bucket of another moment.                             *)
LEMMA OwnBucketKept ==
  ASSUME CountInv, [CountNext]_<<clock, countVars>>
  PROVE  InOwnBucket'
  <1>0. /\ CountTypeOK /\ InOwnBucket /\ KeysLast /\ clock \in 0..Horizon
        /\ Keys' = Keys /\ Sliding' = Sliding /\ Sliding \subseteq Windows
    BY DEF CountInv, Keys, Sliding, BucketOf, BucketSize, Windows, Rulesets, Long
  <1> DEFINE Passed(w, e) == clock >= BucketOf(w, bumpAt[e]) + w + BucketSize(w)
  <1>1. /\ \A k \in Keys : \A e \in inBucket[k] : e \in Bumps /\ e \in bumped[k[1]] /\ KeyOf(e, k[1]) = k
        /\ \A w \in Sliding : \A e \in bumped[w] : e \in Bumps /\ (e \in inBucket[KeyOf(e, w)] \/ Passed(w, e))
    BY <1>0 DEF InOwnBucket, CountTypeOK
  <1>2. SUFFICES /\ \A k \in Keys : \A e \in inBucket'[k] : e \in bumped'[k[1]] /\ KeyOf(e, k[1])' = k
                 /\ \A w \in Sliding : \A e \in bumped'[w] : e \in inBucket'[KeyOf(e, w)'] \/ Passed(w, e)'
    BY <1>0 DEF InOwnBucket
  <1>3. ASSUME UNCHANGED bumpAt, NEW e, NEW w PROVE KeyOf(e, w)' = KeyOf(e, w)
    BY <1>3 DEF KeyOf, BucketOf, BucketSize
  <1>4. ASSUME UNCHANGED bumpAt, clock' >= clock, NEW w \in Sliding, NEW e \in Bumps, e \in bumped[w], Passed(w, e)
        PROVE  Passed(w, e)'
    <2>1. bumpAt[e] # Never
      BY <1>0, <1>4 DEF CountInv, BumpsAreMutations
    <2>2. bumpAt[e] \in Int
      BY <1>0, <2>1, KeyOfFacts
    <2>3. BucketOf(w, bumpAt[e]) \in Int /\ w \in Nat /\ BucketSize(w) \in Nat
      BY <2>2, BucketFacts, WindowFacts
    <2>4. clock \in Int /\ clock' \in Int
      BY <1>0, CountTypes, RedisAssumption
    <2>5. Passed(w, e)' <=> clock' >= BucketOf(w, bumpAt[e]) + w + BucketSize(w)
      BY <1>4 DEF BucketOf, BucketSize
    <2> QED BY <1>4, <2>3, <2>4, <2>5
  <1>5. CASE UNCHANGED <<clock, inBucket, keyTill, bumped, bumpAt, stage>>
    <2>1. UNCHANGED bumpAt /\ clock' >= clock
      BY <1>0, <1>5, RedisAssumption
    <2> QED BY <1>1, <1>3, <1>4, <1>5, <2>1, <1>0
  <1>6. CASE CountTick
    <2>1. UNCHANGED <<bumpAt, bumped>> /\ clock' = clock + 1 /\ clock \in Nat
      BY <1>0, <1>6, RedisAssumption DEF CountTick, PassTime
    <2>2. \A k \in Keys : inBucket'[k] \subseteq inBucket[k]
      BY <1>6, TickDrops
    <2>3. ASSUME NEW w \in Sliding, NEW e \in bumped[w], e \in inBucket[KeyOf(e, w)], e \notin inBucket'[KeyOf(e, w)]
          PROVE  Passed(w, e)'
      <3>1. e \in Bumps /\ bumpAt[e] # Never
        BY <1>0, <1>1 DEF CountInv, BumpsAreMutations
      <3>2. /\ KeyOf(e, w) \in Keys /\ KeyOf(e, w)[1] = w /\ KeyOf(e, w)[2] = BucketOf(w, bumpAt[e])
            /\ bumpAt[e] \in Int
        BY <1>0, <3>1, KeyOfFacts
      <3>3. keyTill[KeyOf(e, w)] # Never /\ keyTill[KeyOf(e, w)] <= clock' /\ keyTill[KeyOf(e, w)] \in Int
        BY <1>6, <2>3, <3>2, TickDrops
      <3>4. keyTill[KeyOf(e, w)] >= BucketOf(w, bumpAt[e]) + w + BucketSize(w)
        BY <1>0, <3>2, <3>3 DEF KeysLast, Sliding
      <3>5. BucketOf(w, bumpAt[e]) \in Int /\ w \in Nat /\ BucketSize(w) \in Nat
        BY <3>2, BucketFacts, WindowFacts
      <3>6. clock' >= BucketOf(w, bumpAt[e]) + w + BucketSize(w)
        BY <2>1, <3>3, <3>4, <3>5
      <3> QED BY <2>1, <3>6 DEF BucketOf, BucketSize
    <2> QED BY <1>0, <1>1, <1>3, <1>4, <2>1, <2>2, <2>3
  <1>7. ASSUME NEW e \in Bumps, Mutate(e), bumpAt[e] = Never, \A w \in Windows : e \notin bumped[w]
        PROVE  /\ \A k \in Keys : \A d \in inBucket'[k] : d \in bumped'[k[1]] /\ KeyOf(d, k[1])' = k
               /\ \A w \in Sliding : \A d \in bumped'[w] : d \in inBucket'[KeyOf(d, w)'] \/ Passed(w, d)'
    <2>1. UNCHANGED <<clock, inBucket, bumped>>
      BY <1>7 DEF Mutate
    <2>2. \A d \in Bumps \ {e} : bumpAt'[d] = bumpAt[d]
      BY <1>0, <1>7 DEF Mutate, CountTypeOK
    <2>3. ASSUME NEW d \in Bumps \ {e}, NEW w
          PROVE KeyOf(d, w)' = KeyOf(d, w) /\ (Passed(w, d)' <=> Passed(w, d))
      BY <2>1, <2>2 DEF KeyOf, BucketOf, BucketSize
    <2>4. \A k \in Keys : e \notin inBucket[k]
      BY <1>1, <1>7, KeyFacts
    <2>5. \A w \in Sliding : e \notin bumped[w]
      BY <1>0, <1>7
    <2> QED BY <1>1, <2>1, <2>3, <2>4, <2>5
  <1>8. ASSUME NEW e \in Bumps, NEW w \in Windows, bumpAt[e] # Never, Bump(e, w)
        PROVE  /\ \A k \in Keys : \A d \in inBucket'[k] : d \in bumped'[k[1]] /\ KeyOf(d, k[1])' = k
               /\ \A v \in Sliding : \A d \in bumped'[v] : d \in inBucket'[KeyOf(d, v)'] \/ Passed(v, d)'
    <2>1. UNCHANGED <<clock, bumpAt>> /\ clock' >= clock
      BY <1>0, <1>8, RedisAssumption DEF Bump
    <2>2. KeyOf(e, w) \in Keys /\ KeyOf(e, w)[1] = w
      BY <1>0, <1>8, KeyOfFacts
    <2>3. /\ \A k \in Keys : inBucket'[k] = IF k = KeyOf(e, w) THEN inBucket[k] \union {e} ELSE inBucket[k]
          /\ \A v \in Windows : bumped'[v] = IF v = w THEN bumped[v] \union {e} ELSE bumped[v]
      BY <1>0, <1>8 DEF Bump, CountTypeOK
    <2>4. \A d, v : KeyOf(d, v)' = KeyOf(d, v)
      BY <1>3, <2>1
    <2>5. \A v \in Sliding : \A d \in bumped[v] : Passed(v, d) => Passed(v, d)'
      BY <1>1, <1>4, <2>1
    <2>6. \A v \in Windows, d \in Bumps : d \in bumped[v] => bumpAt[d] # Never
      BY DEF CountInv, BumpsAreMutations
    <2>7. \A v \in Windows, d \in Bumps : bumpAt[d] # Never => KeyOf(d, v) \in Keys
      BY <1>0, KeyOfFacts
    <2>8. ASSUME NEW k \in Keys, NEW d \in inBucket'[k]
          PROVE  d \in bumped'[k[1]] /\ KeyOf(d, k[1])' = k
      <3>1. k[1] \in Windows
        BY KeyFacts
      <3>2. CASE d \in inBucket[k]
        <4>1. d \in bumped[k[1]] /\ KeyOf(d, k[1]) = k
          BY <1>1, <3>2
        <4>2. d \in bumped'[k[1]]
          BY <2>3, <3>1, <4>1
        <4> QED BY <2>4, <4>1, <4>2
      <3>3. CASE d \notin inBucket[k]
        <4>1. k = KeyOf(e, w) /\ d = e /\ k[1] = w
          BY ZenonT(60), <2>2, <2>3, <3>3
        <4>2. d \in bumped'[w]
          BY <2>3, <4>1
        <4> QED BY <2>4, <4>1, <4>2
      <3> QED BY <3>2, <3>3
    <2>9. ASSUME NEW v \in Sliding, NEW d \in bumped'[v]
          PROVE  d \in inBucket'[KeyOf(d, v)'] \/ Passed(v, d)'
      <3>1. v \in Windows
        BY <1>0
      <3>2. CASE d \in bumped[v]
        <4>1. KeyOf(d, v) \in Keys
          BY <1>1, <2>6, <2>7, <3>1, <3>2
        <4> QED BY <1>1, <2>3, <2>4, <2>5, <3>2, <4>1
      <3>3. CASE d \notin bumped[v]
        BY ZenonT(60), <2>2, <2>3, <2>4, <3>1, <3>3
      <3> QED BY <3>2, <3>3
    <2> QED BY <2>8, <2>9
  <1>9. \/ UNCHANGED <<clock, inBucket, keyTill, bumped, bumpAt, stage>>
        \/ UNCHANGED <<clock, inBucket, bumped, bumpAt>>
        \/ CountTick
        \/ \E e \in Bumps : Mutate(e) /\ bumpAt[e] = Never /\ \A w \in Windows : e \notin bumped[w]
        \/ \E e \in Bumps, w \in Windows : bumpAt[e] # Never /\ Bump(e, w)
    BY KeySteps DEF ExpireKey, BumpFails
  <1>10. CASE UNCHANGED <<clock, inBucket, bumped, bumpAt>>
    <2>1. UNCHANGED bumpAt /\ clock' >= clock
      BY <1>0, <1>10, RedisAssumption
    <2> QED BY <1>0, <1>1, <1>3, <1>4, <1>10, <2>1
  <1> QED BY <1>5, <1>6, <1>7, <1>8, <1>9, <1>10

(* No step leaves a key that never expires, but after a failure.           *)
LEMMA KeysExpireKept ==
  ASSUME CountInv, [CountNext]_<<clock, countVars>>
  PROVE  KeysExpire'
  <1>0. /\ CountTypeOK /\ KeysExpire /\ clock \in 0..Horizon /\ clock \in Nat /\ Keys' = Keys
    BY RedisAssumption DEF CountInv, Keys, BucketOf, BucketSize, Windows, Rulesets, Long
  <1> DEFINE Waits(e, k) == KeyOf(e, k[1]) = k /\ stage[e][k[1]] \in {"expire", "failed"}
  <1>1. \A k \in Keys : inBucket[k] # {} /\ keyTill[k] = Never => \E e \in Bumps : Waits(e, k)
    BY <1>0 DEF KeysExpire
  <1>2. SUFFICES ASSUME NEW k \in Keys, inBucket'[k] # {}, keyTill'[k] = Never
                 PROVE  \E e \in Bumps : Waits(e, k)'
    BY <1>0 DEF KeysExpire, Never
  <1>3. k[1] \in Windows /\ k = <<k[1], k[2]>>
    BY KeyFacts
  <1>4. ASSUME UNCHANGED bumpAt, NEW e, NEW w PROVE KeyOf(e, w)' = KeyOf(e, w)
    BY <1>4 DEF KeyOf, BucketOf, BucketSize
  <1>5. CASE UNCHANGED <<clock, inBucket, keyTill, bumped, bumpAt, stage>>
    BY <1>1, <1>2, <1>4, <1>5
  <1>6. CASE CountTick
    <2>1. inBucket'[k] = inBucket[k] /\ keyTill'[k] = keyTill[k] /\ UNCHANGED <<bumpAt, stage>>
      BY <1>2, <1>6, TickDrops
    <2> QED BY <1>1, <1>2, <1>4, <2>1
  <1>7. ASSUME NEW e \in Bumps, Mutate(e), \A w \in Windows : stage[e][w] = "idle"
        PROVE  \E d \in Bumps : Waits(d, k)'
    <2>1. UNCHANGED <<inBucket, keyTill>>
      BY <1>7 DEF Mutate
    <2>2. PICK d \in Bumps : Waits(d, k)
      BY <1>1, <1>2, <2>1
    <2>3. d # e
      BY <1>3, <1>7, <2>2
    <2>4. bumpAt'[d] = bumpAt[d] /\ stage'[d] = stage[d]
      BY <1>0, <1>7, <2>3 DEF Mutate, CountTypeOK
    <2>5. Waits(d, k)'
      BY <2>2, <2>4 DEF KeyOf, BucketOf, BucketSize
    <2> QED BY <2>5
  <1>8. ASSUME NEW e \in Bumps, NEW w \in Windows, bumpAt[e] # Never, Bump(e, w)
        PROVE  \E d \in Bumps : Waits(d, k)'
    <2>1. UNCHANGED <<bumpAt, keyTill>> /\ KeyOf(e, w)[1] = w
      BY <1>0, <1>8, KeyOfFacts DEF Bump
    <2>2. stage'[e][w] = "expire" /\ stage[e][w] = "bump"
      BY <1>0, <1>8 DEF Bump, CountTypeOK
    <2>3. CASE k = KeyOf(e, w)
      <3>1. Waits(e, k)'
        BY <1>4, <2>1, <2>2, <2>3
      <3> QED BY <3>1
    <2>4. CASE k # KeyOf(e, w)
      <3>1. inBucket'[k] = inBucket[k]
        BY <1>0, <1>8, <2>4 DEF Bump, CountTypeOK
      <3>2. PICK d \in Bumps : Waits(d, k)
        BY <1>1, <1>2, <2>1, <3>1
      <3>3. ~(d = e /\ k[1] = w)
        BY <2>2, <3>2
      <3>4. stage'[d][k[1]] = stage[d][k[1]]
        BY <1>0, <1>3, <1>8, <3>3 DEF Bump, CountTypeOK
      <3>5. Waits(d, k)'
        BY <1>4, <2>1, <3>2, <3>4
      <3> QED BY <3>5
    <2> QED BY <2>3, <2>4
  <1>9. ASSUME NEW e \in Bumps, NEW w \in Windows, bumpAt[e] # Never, ExpireKey(e, w)
        PROVE  \E d \in Bumps : Waits(d, k)'
    <2>1. UNCHANGED <<bumpAt, inBucket>> /\ KeyOf(e, w)[1] = w
      BY <1>0, <1>9, KeyOfFacts DEF ExpireKey
    <2>2. k # KeyOf(e, w)
      <3>1. clock + BucketLife(w) # Never
        BY <1>0, LifeFacts DEF Never
      <3>2. k = KeyOf(e, w) => keyTill'[k] = clock + BucketLife(w)
        BY <1>0, <1>2, <1>9, <2>1 DEF ExpireKey, CountTypeOK
      <3> QED BY <1>2, <3>1, <3>2
    <2>3. keyTill'[k] = keyTill[k]
      BY <1>0, <1>9, <2>2 DEF ExpireKey, CountTypeOK
    <2>4. PICK d \in Bumps : Waits(d, k)
      BY <1>1, <1>2, <2>1, <2>3
    <2>5. ~(d = e /\ k[1] = w)
      BY <2>2, <2>4
    <2>6. stage'[d][k[1]] = stage[d][k[1]]
      BY <1>0, <1>3, <1>9, <2>5 DEF ExpireKey, CountTypeOK
    <2>7. Waits(d, k)'
      BY <1>4, <2>1, <2>4, <2>6
    <2> QED BY <2>7
  <1>10. ASSUME NEW e \in Bumps, NEW w \in Windows, BumpFails(e, w)
         PROVE  \E d \in Bumps : Waits(d, k)'
    <2>1. UNCHANGED <<bumpAt, inBucket, keyTill>>
      BY <1>10 DEF BumpFails
    <2>2. PICK d \in Bumps : Waits(d, k)
      BY <1>1, <1>2, <2>1
    <2>3. stage'[d][k[1]] \in {"expire", "failed"}
      <3>1. PICK to : /\ to \in (IF stage[e][w] = "bump" THEN {"done", "expire"} ELSE {"failed"})
                      /\ stage' = [stage EXCEPT ![e][w] = to]
        BY <1>10 DEF BumpFails
      <3>2. stage'[d][k[1]] = IF d = e /\ k[1] = w THEN to ELSE stage[d][k[1]]
        BY <1>0, <1>3, <3>1 DEF CountTypeOK
      <3>3. d = e /\ k[1] = w => stage[e][w] # "bump"
        BY <2>2
      <3> QED BY <2>2, <3>1, <3>2, <3>3
    <2>4. Waits(d, k)'
      BY <1>4, <2>1, <2>2, <2>3
    <2> QED BY <2>4
  <1> QED BY <1>5, <1>6, <1>7, <1>8, <1>9, <1>10, KeySteps

(* The invariant of the counter holds before the first execution.          *)
LEMMA CountInvInit ==
  ASSUME clock = 0, CountInit
  PROVE  CountInv
  <1>1. CountTypeOK /\ clock \in 0..Horizon
    BY RedisAssumption DEF CountInit, CountTypeOK, Never
  <1>2. BumpsAreMutations /\ KeysExpire
    BY DEF CountInit, BumpsAreMutations, KeysExpire
  <1>3. KeysLast
    BY DEF CountInit, KeysLast
  <1>4. InOwnBucket
    BY DEF CountInit, InOwnBucket, Sliding
  <1> QED BY <1>1, <1>2, <1>3, <1>4 DEF CountInv

(* A counter keeps its invariant (CountFunctions.ts, RedisCountService.ts, *)
(* RedisApproxCountUnique.ts), however bumps and expiries interleave, come *)
(* late or fail.                                                           *)
THEOREM CounterConsistent == CountSpec => []CountInv
  <1>1. clock = 0 /\ CountInit => CountInv
    BY CountInvInit
  <1>2. CountInv /\ [CountNext]_<<clock, countVars>> => CountInv'
    <2> SUFFICES ASSUME CountInv, [CountNext]_<<clock, countVars>> PROVE CountInv'
      OBVIOUS
    <2>1. CountTypeOK' /\ clock' \in 0..Horizon'
      BY CountTypes DEF CountInv
    <2>2. BumpsAreMutations' /\ KeysLast' /\ InOwnBucket' /\ KeysExpire'
      BY BumpsKept, KeysLastKept, OwnBucketKept, KeysExpireKept
    <2> QED BY <2>1, <2>2 DEF CountInv
  <1> QED BY <1>1, <1>2, PTL DEF CountSpec

(* No counter stays in redis for ever, but for a bump that failed between  *)
(* its two commands.                                                       *)
THEOREM CountersExpire == CountSpec => []KeysExpire
  <1>1. CountInv => KeysExpire
    BY DEF CountInv
  <1> QED BY <1>1, CounterConsistent, PTL

-----------------------------------------------------------------------------
(* What executions read.                                                   *)

FirstBucket(w, t) == BucketOf(w, WindowStart(w, t))
InFirst(w, t) == Held(w, FirstBucket(w, t))
InRest(w, t) == UNION {Held(w, b) : b \in BucketsOf(w, t) \ {FirstBucket(w, t)}}

(* An execution reads the events that are bumped and not yet dropped, each *)
(* in one bucket: those of the buckets from the first to its own.          *)
LEMMA EventsRead ==
  ASSUME CountInv, NEW w \in Sliding, NEW t \in Int
  PROVE  /\ FirstBucket(w, t) \in BucketsOf(w, t)
         /\ \A b : \A e \in Held(w, b) : e \in Bumps /\ e \in bumped[w] /\ BucketOf(w, bumpAt[e]) = b
         /\ \A e \in bumped[w] :
              /\ e \in Bumps /\ bumpAt[e] \in 0..clock
              /\ clock < BucketOf(w, bumpAt[e]) + w + BucketSize(w) => e \in Held(w, BucketOf(w, bumpAt[e]))
  <1>0. /\ CountTypeOK /\ InOwnBucket /\ clock \in 0..Horizon /\ BumpsAreMutations /\ w \in Windows
        /\ WindowStart(w, t) \in Int
    BY WindowFacts DEF CountInv, Sliding, WindowStart
  <1>1. FirstBucket(w, t) \in BucketsOf(w, t)
    <2> DEFINE f == FirstBucket(w, t)  c == BucketOf(w, t)
    <2>1. f \in Int /\ c \in Int /\ f = c - w /\ w \in Nat
      BY <1>0, BucketFacts, BucketsRead, WindowFacts DEF FirstBucket
    <2>2. f \in f..c
      <3> HIDE DEF f, c
      <3> QED BY <2>1
    <2> QED BY <1>0, <2>2, BucketsRead DEF FirstBucket
  <1>2. ASSUME NEW b, NEW e \in Held(w, b)
        PROVE  e \in Bumps /\ e \in bumped[w] /\ BucketOf(w, bumpAt[e]) = b
    <2>1. <<w, b>> \in Keys /\ e \in inBucket[<<w, b>>]
      BY DEF Held
    <2>2. e \in Bumps
      BY <1>0, <2>1 DEF CountTypeOK
    <2>3. e \in bumped[w] /\ KeyOf(e, w) = <<w, b>>
      BY <1>0, <2>1 DEF InOwnBucket
    <2> QED BY <2>2, <2>3 DEF KeyOf
  <1>3. ASSUME NEW e \in bumped[w]
        PROVE  /\ e \in Bumps /\ bumpAt[e] \in 0..clock
               /\ clock < BucketOf(w, bumpAt[e]) + w + BucketSize(w) => e \in Held(w, BucketOf(w, bumpAt[e]))
    <2>1. e \in Bumps /\ bumpAt[e] # Never
      BY <1>0 DEF CountTypeOK, BumpsAreMutations
    <2>2. bumpAt[e] \in 0..clock /\ bumpAt[e] \in Int /\ KeyOf(e, w) \in Keys
      BY <1>0, <2>1, KeyOfFacts
    <2>3. BucketOf(w, bumpAt[e]) \in Int /\ w \in Nat /\ BucketSize(w) \in Nat /\ clock \in Int
      BY <1>0, <2>2, BucketFacts, WindowFacts, RedisAssumption
    <2>4. \/ e \in inBucket[KeyOf(e, w)]
          \/ clock >= BucketOf(w, bumpAt[e]) + w + BucketSize(w)
      BY <1>0 DEF InOwnBucket
    <2> QED BY <2>1, <2>2, <2>3, <2>4 DEF Held, KeyOf
  <1> QED BY <1>1, <1>2, <1>3

(* The first bucket in proportion, and the rest. *)
LEMMA ProportionBounds ==
  ASSUME NEW a \in Nat, NEW r \in Nat, NEW d \in Nat \ {0}, NEW x \in 0..(d - 1)
  PROVE  LET e == (2 * (a * (d - x) + d * r) + d) \div (2 * d)
         IN e \in Int /\ r <= e /\ e <= a + r /\ (x = 0 => e = a + r)
  <1> DEFINE p == a * (d - x)  n == 2 * (p + d * r) + d  e == n \div (2 * d)
  <1>1. d - x \in Nat \ {0} /\ d - x <= d /\ x \in Nat
    OBVIOUS
  <1>2. p \in Nat /\ p <= d * a /\ (x = 0 => p = d * a)
    <2>1. (d - x) * a <= d * a
      <3>1. a * (d - x) <= a * d
        BY <1>1, TimesAtMost
      <3> QED BY <1>1, <3>1
    <2>2. p = (d - x) * a /\ p \in Nat
      BY <1>1
    <2>3. x = 0 => d - x = d
      OBVIOUS
    <2> HIDE DEF p
    <2> QED BY <2>1, <2>2, <2>3
  <1> HIDE DEF p
  <1>3. d * r \in Nat /\ d * a \in Nat /\ n \in Nat /\ 2 * d \in Nat \ {0}
    BY <1>2
  <1>4. n = 2 * p + 2 * (d * r) + d
    BY <1>2, <1>3
  <1> HIDE DEF n
  <1>5. e \in Int /\ (2 * d) * e <= n /\ n < (2 * d) * e + 2 * d
    <2> DEFINE d2 == 2 * d
    <2>1. d2 \in Nat \ {0} /\ n \in Int /\ e = n \div d2
      BY <1>3
    <2> HIDE DEF d2, e
    <2>2. e \in Int /\ d2 * e <= n /\ n < d2 * e + d2
      BY <2>1, DivideBounds
    <2> QED BY <2>2 DEF d2
  <1> HIDE DEF e
  <1>6. (2 * d) * e = 2 * (d * e) /\ d * e \in Int
    BY <1>5
  <1>7. 2 * (d * e) <= 2 * p + 2 * (d * r) + d /\ 2 * p + 2 * (d * r) + d < 2 * (d * e) + 2 * d
    BY <1>4, <1>5, <1>6
  <1>8. d * r <= d * e
    <2>1. d * r < d * e + d
      BY <1>2, <1>3, <1>6, <1>7
    <2> QED BY <1>5, <2>1, TimesNext
  <1>9. d * e <= d * (a + r)
    <2>1. d * (a + r) = d * a + d * r
      OBVIOUS
    <2>2. d * e < d * (a + r) + d
      BY <1>2, <1>3, <1>6, <1>7, <2>1
    <2>3. a + r \in Int
      OBVIOUS
    <2> QED BY <1>5, <2>2, <2>3, TimesNext
  <1>10. x = 0 => d * (a + r) <= d * e
    <2>1. d * (a + r) = d * a + d * r /\ a + r \in Int
      OBVIOUS
    <2>2. x = 0 => d * (a + r) < d * e + d
      BY <1>2, <1>3, <1>6, <1>7, <2>1
    <2> QED BY <1>5, <2>1, <2>2, TimesNext
  <1>11. \A m, q \in Int : d * m <= d * q => m <= q
    <2> SUFFICES ASSUME NEW m \in Int, NEW q \in Int, d * m <= d * q PROVE m <= q
      OBVIOUS
    <2>1. d * (q + 1) = d * q + d /\ q + 1 \in Int /\ d * m \in Int /\ d * q \in Int
      OBVIOUS
    <2>2. d * m < d * (q + 1)
      BY <2>1
    <2>3. m < q + 1
      BY <2>1, <2>2, TimesLess
    <2> QED BY <2>3
  <1>12. r <= e /\ e <= a + r /\ (x = 0 => a + r <= e)
    <2>1. r \in Int /\ e \in Int /\ a + r \in Int
      BY <1>5
    <2> QED BY <1>8, <1>9, <1>10, <1>11, <2>1
  <1> QED BY <1>5, <1>12 DEF e, n, p

(* The estimate is between the sum of the whole buckets and that of all.   *)
LEMMA EstimateBounds ==
  ASSUME CountInv, NEW w \in Sliding, NEW t \in Int
  PROVE  /\ InFirst(w, t) \in SUBSET Bumps /\ InRest(w, t) \in SUBSET Bumps
         /\ Estimate(w, t) \in Int
         /\ Sum(InRest(w, t)) <= Estimate(w, t)
         /\ Estimate(w, t) <= Sum(InFirst(w, t) \union InRest(w, t))
         /\ FirstBucket(w, t) = WindowStart(w, t) =>
              Estimate(w, t) = Sum(InFirst(w, t) \union InRest(w, t))
  <1> DEFINE A == InFirst(w, t)  R == InRest(w, t)  d == BucketSize(w)  x == Excluded(w, t)
  <1>1. A \in SUBSET Bumps /\ R \in SUBSET Bumps
    BY EventsRead DEF InFirst, InRest
  <1>2. A \intersect R = {}
    BY EventsRead DEF InFirst, InRest
  <1>3. Sum(A \union R) = Sum(A) + Sum(R) /\ Sum(A) \in Nat /\ Sum(R) \in Nat
    BY <1>1, <1>2, SumOfUnion, SumType
  <1>4. d \in Nat \ {0} /\ x \in 0..(d - 1) /\ (FirstBucket(w, t) = WindowStart(w, t) => x = 0)
    <2>1. WindowStart(w, t) \in Int
      BY WindowFacts DEF WindowStart
    <2>2. /\ FirstBucket(w, t) \in Int /\ FirstBucket(w, t) <= WindowStart(w, t)
          /\ WindowStart(w, t) < FirstBucket(w, t) + d /\ d \in Nat \ {0}
      BY <2>1, BucketFacts, WindowFacts DEF FirstBucket
    <2>3. x = WindowStart(w, t) - FirstBucket(w, t)
      BY DEF Excluded, FirstBucket
    <2> HIDE DEF d, x
    <2> QED BY <2>1, <2>2, <2>3
  <1>5. Estimate(w, t) = (2 * (Sum(A) * (d - x) + d * Sum(R)) + d) \div (2 * d)
    BY DEF Estimate, Sliding, InFirst, InRest, FirstBucket
  <1> DEFINE a == Sum(A)  r == Sum(R)  e == Estimate(w, t)
  <1>6. a \in Nat /\ r \in Nat /\ Sum(A \union R) = a + r /\ e = (2 * (a * (d - x) + d * r) + d) \div (2 * d)
    BY <1>3, <1>5
  <1> HIDE DEF a, r, e, d, x, A, R
  <1>7. e \in Int /\ r <= e /\ e <= a + r /\ (x = 0 => e = a + r)
    BY <1>4, <1>6, ProportionBounds
  <1> QED BY <1>1, <1>4, <1>6, <1>7 DEF A, R, a, r, e

(* The sliding count errs by the bucket its window begins in.              *)
LEMMA WithinABucket ==
  ASSUME CountInv
  PROVE  CountWithinABucket
  <1> SUFFICES ASSUME NEW w \in asked \ {Total}, NEW t \in EventTimes
               PROVE  Estimate(w, t) \in Sum(InWholeBuckets(w, t))..Sum(InAnyBucket(w, t))
    BY DEF CountWithinABucket
  <1>0. CountTypeOK /\ clock \in 0..Horizon /\ clock \in Int
    BY RedisAssumption DEF CountInv
  <1>1. w \in Sliding /\ t \in Int /\ t <= clock /\ clock <= t + MaxLag
    BY <1>0 DEF CountTypeOK, Sliding, Windows, EventTimes
  <1> DEFINE d == BucketSize(w)  f == FirstBucket(w, t)  c == BucketOf(w, t)  s == WindowStart(w, t)
             b(e) == BucketOf(w, bumpAt[e])
  <1>2. /\ d \in Nat \ {0} /\ MaxLag \in Nat /\ MaxLag < d /\ w \in Nat /\ s = t - w /\ s \in Int
        /\ f \in Int /\ f <= s /\ s < f + d /\ c \in Int /\ f = c - w
    BY SMTT(30), <1>1, WindowFacts, BucketFacts, BucketsRead, RedisAssumption DEF WindowStart, FirstBucket
  <1>3. \A e \in bumped[w] : e \in Bumps /\ bumpAt[e] \in Int /\ b(e) \in Int
    BY <1>0, <1>1, EventsRead, BucketFacts
  <1>4. InWholeBuckets(w, t) \in SUBSET Bumps /\ InAnyBucket(w, t) \in SUBSET Bumps
    BY <1>3 DEF InWholeBuckets, InAnyBucket
  (* No event of a whole bucket is missing.                                *)
  <1>5. ASSUME NEW e \in InWholeBuckets(w, t)
        PROVE  e \in Held(w, b(e)) /\ b(e) \in BucketsOf(w, t) /\ b(e) \in Int /\ s <= b(e)
    <2>1. e \in bumped[w] /\ b(e) \in s..c /\ b(e) \in Int
      BY <1>3 DEF InWholeBuckets
    <2>2. bumpAt[e] \in Int
      BY <1>3, <2>1
    <2> HIDE DEF b, d, f, c, s
    <2>3. clock < b(e) + w + d /\ b(e) \in f..c /\ s <= b(e)
      BY <1>0, <1>1, <1>2, <2>1
    <2> QED BY <1>1, <2>1, <2>2, <2>3, EventsRead, BucketsRead DEF b, d, f, c, FirstBucket
  <1>6. ASSUME NEW e \in InFirst(w, t) \union InRest(w, t)
        PROVE  e \in InAnyBucket(w, t)
    <2>1. PICK bb \in BucketsOf(w, t) : e \in Held(w, bb)
      BY <1>1, EventsRead DEF InFirst, InRest
    <2>2. e \in bumped[w] /\ b(e) = bb /\ bb \in f..c
      BY <1>1, <2>1, EventsRead, BucketsRead DEF FirstBucket
    <2>3. b(e) \in (s - d + 1)..c
      <3> HIDE DEF b, d, f, c, s
      <3> QED BY <1>2, <2>2
    <2> QED BY <2>2, <2>3 DEF InAnyBucket
  <1>7. Estimate(w, t) <= Sum(InAnyBucket(w, t))
    <2>1. Sum(InFirst(w, t) \union InRest(w, t)) <= Sum(InAnyBucket(w, t))
      BY <1>4, <1>6, SumGrows
    <2>2. Estimate(w, t) \in Int /\ Estimate(w, t) <= Sum(InFirst(w, t) \union InRest(w, t))
      BY <1>1, EstimateBounds
    <2>3. Sum(InFirst(w, t) \union InRest(w, t)) \in Nat /\ Sum(InAnyBucket(w, t)) \in Nat
      <3>1. InFirst(w, t) \union InRest(w, t) \in SUBSET Bumps
        BY <1>1, EstimateBounds
      <3> QED BY <1>4, <3>1, SumType
    <2> QED BY <2>1, <2>2, <2>3
  <1>8. Sum(InWholeBuckets(w, t)) <= Estimate(w, t)
    <2>0. /\ InFirst(w, t) \in SUBSET Bumps /\ InRest(w, t) \in SUBSET Bumps
          /\ Estimate(w, t) \in Int /\ Sum(InRest(w, t)) <= Estimate(w, t)
          /\ f = s => Estimate(w, t) = Sum(InFirst(w, t) \union InRest(w, t))
      BY <1>1, EstimateBounds
    <2>1. CASE f = s
      <3>1. InWholeBuckets(w, t) \subseteq InFirst(w, t) \union InRest(w, t)
        BY <1>5 DEF InFirst, InRest
      <3>2. InFirst(w, t) \union InRest(w, t) \in SUBSET Bumps
        BY <2>0
      <3> HIDE DEF f, s
      <3> QED BY <2>0, <2>1, <3>1, <3>2, SumGrows
    <2>2. CASE f # s
      <3>1. \A e \in InWholeBuckets(w, t) : b(e) # f
        <4> SUFFICES ASSUME NEW e \in InWholeBuckets(w, t) PROVE b(e) # f
          OBVIOUS
        <4>1. b(e) \in Int /\ s <= b(e)
          BY <1>5
        <4> HIDE DEF b, f, s
        <4> QED BY <1>2, <2>2, <4>1
      <3>2. InWholeBuckets(w, t) \subseteq InRest(w, t)
        BY <1>5, <3>1 DEF InRest
      <3>3. Sum(InWholeBuckets(w, t)) <= Sum(InRest(w, t))
        BY <2>0, <3>2, SumGrows
      <3>4. Sum(InWholeBuckets(w, t)) \in Nat /\ Sum(InRest(w, t)) \in Nat
        BY <1>4, <2>0, SumType
      <3> QED BY <2>0, <3>3, <3>4
    <2> QED BY <2>1, <2>2
  <1>9. /\ Sum(InWholeBuckets(w, t)) \in Nat /\ Sum(InAnyBucket(w, t)) \in Nat
        /\ Estimate(w, t) \in Int
    BY <1>1, <1>4, SumType, EstimateBounds
  <1> QED BY <1>7, <1>8, <1>9

(* The events of the window are all held when an execution that is on time *)
(* reads, and so are those of the bucket the window begins in.             *)
LEMMA WindowHeld ==
  ASSUME CountInv, NEW w \in Sliding, NEW e \in bumped[w], bumpAt[e] >= clock - w
  PROVE  /\ e \in Held(w, BucketOf(w, bumpAt[e]))
         /\ BucketOf(w, bumpAt[e]) \in BucketsOf(w, clock)
  <1> DEFINE d == BucketSize(w)  f == FirstBucket(w, clock)  c == BucketOf(w, clock)
             a == bumpAt[e]  b == BucketOf(w, a)
  <1>1. clock \in 0..Horizon /\ clock \in Int
    BY RedisAssumption DEF CountInv
  <1>2. a \in 0..clock /\ a \in Int
    BY <1>1, EventsRead
  <1>3. /\ d \in Nat \ {0} /\ w \in Nat /\ c \in Int /\ f = c - w
        /\ c <= clock /\ clock < c + d /\ b \in Int /\ b <= a /\ a < b + d
    BY <1>1, <1>2, WindowFacts, BucketFacts, BucketsRead DEF FirstBucket
  <1>4. f = BucketOf(w, clock - w) /\ f <= clock - w /\ clock - w < f + d
    BY <1>1, <1>3, BucketFacts DEF FirstBucket, WindowStart
  <1>5. PICK p \in Int, q \in Int, r \in Int : b = d * p /\ c = d * q /\ f = d * r
    <2>1. clock - w \in Int
      BY <1>1, <1>3
    <2>2. \E p \in Int : b = d * p
      BY <1>2, BucketFacts
    <2>3. \E q \in Int : c = d * q
      BY <1>1, BucketFacts
    <2>4. \E r \in Int : f = d * r
      BY <1>4, <2>1, BucketFacts
    <2> QED BY <2>2, <2>3, <2>4
  <1> HIDE DEF d, f, c, a, b
  <1>6. b <= c
    <2>1. d * p < d * q + d
      BY <1>1, <1>2, <1>3, <1>5
    <2> QED BY <1>3, <1>5, <2>1, TimesNext
  <1>7. f <= b
    <2>0. a >= clock - w
      BY DEF a
    <2>1. d * r < d * p + d
      BY <1>1, <1>2, <1>3, <1>4, <1>5, <2>0
    <2> QED BY <1>3, <1>5, <2>1, TimesNext
  <1>8. clock < b + w + d
    BY <1>1, <1>2, <1>3 DEF a
  <1>9. b \in f..c
    BY <1>3, <1>6, <1>7
  <1> QED BY <1>1, <1>2, <1>8, <1>9, EventsRead, BucketsRead DEF a, b, c, d, f, FirstBucket

(* The approximate unique count covers the exact one.                      *)
LEMMA UniqueCovers ==
  ASSUME CountInv
  PROVE  UniqueCoversList
  <1> SUFFICES ASSUME NEW w \in asked \ {Total}
               PROVE  /\ ListedElements(w, WindowStart(w, clock)) \subseteq UniqueElements(w, clock)
                      /\ UniqueElements(w, clock)
                           \subseteq ListedElements(w, WindowStart(w, clock) - BucketSize(w))
    BY DEF UniqueCoversList
  <1>1. w \in Sliding /\ clock \in Int
    BY RedisAssumption DEF CountInv, CountTypeOK, Sliding, Windows
  <1>2. ASSUME NEW e \in bumped[w], bumpAt[e] >= WindowStart(w, clock)
        PROVE  Element[e] \in UniqueElements(w, clock)
    <2>1. e \in Held(w, BucketOf(w, bumpAt[e])) /\ BucketOf(w, bumpAt[e]) \in BucketsOf(w, clock)
      BY <1>1, <1>2, WindowHeld DEF WindowStart
    <2> QED BY <2>1 DEF UniqueElements
  <1>3. ASSUME NEW b \in BucketsOf(w, clock), NEW e \in Held(w, b)
        PROVE  e \in bumped[w] /\ bumpAt[e] >= WindowStart(w, clock) - BucketSize(w)
    <2> DEFINE f == BucketOf(w, WindowStart(w, clock))
    <2>1. e \in bumped[w] /\ BucketOf(w, bumpAt[e]) = b /\ bumpAt[e] \in Int
      <3>1. e \in bumped[w] /\ BucketOf(w, bumpAt[e]) = b
        BY <1>1, EventsRead
      <3>2. bumpAt[e] \in 0..clock
        BY <1>1, <3>1, EventsRead
      <3> QED BY <1>1, <3>1, <3>2
    <2>2. b \in f..BucketOf(w, clock)
      BY <1>1, BucketsRead
    <2>3. WindowStart(w, clock) \in Int /\ BucketSize(w) \in Nat
      BY <1>1, WindowFacts DEF WindowStart
    <2>4. f \in Int /\ WindowStart(w, clock) < f + BucketSize(w) /\ BucketOf(w, clock) \in Int
      BY <1>1, <2>3, BucketFacts
    <2>5. b \in Int /\ b <= bumpAt[e]
      BY <1>1, <2>1, BucketFacts
    <2> HIDE DEF f
    <2> QED BY <2>1, <2>2, <2>3, <2>4, <2>5
  <1>4. UniqueElements(w, clock) \subseteq ListedElements(w, WindowStart(w, clock) - BucketSize(w))
    BY <1>3 DEF UniqueElements, ListedElements
  <1> QED BY <1>2, <1>4 DEF ListedElements

(* Where a bucket begins with the window, the estimate is exact. *)
LEMMA EstimateExact ==
  ASSUME CountInv, NEW w \in Sliding, BucketOf(w, clock) = clock
  PROVE  Estimate(w, clock) = Sum({e \in bumped[w] : bumpAt[e] >= clock - w})
  <1> DEFINE D == {e \in bumped[w] : bumpAt[e] >= clock - w}
  <1>1. clock \in Int /\ w \in Nat
    BY WindowFacts, RedisAssumption DEF CountInv
  <1>2. FirstBucket(w, clock) = clock - w /\ WindowStart(w, clock) = clock - w
    BY <1>1, BucketsRead DEF FirstBucket, WindowStart
  <1>3. Estimate(w, clock) = Sum(InFirst(w, clock) \union InRest(w, clock))
    BY <1>1, <1>2, EstimateBounds
  <1>4. D \subseteq InFirst(w, clock) \union InRest(w, clock)
    BY WindowHeld DEF InFirst, InRest
  <1>5. ASSUME NEW e \in InFirst(w, clock) \union InRest(w, clock) PROVE e \in D
    <2>1. PICK b \in BucketsOf(w, clock) : e \in Held(w, b)
      BY <1>1, EventsRead DEF InFirst, InRest
    <2>2. e \in bumped[w] /\ BucketOf(w, bumpAt[e]) = b
      BY <1>1, <2>1, EventsRead
    <2>3. bumpAt[e] \in 0..clock /\ bumpAt[e] \in Int
      BY <1>1, <2>2, EventsRead
    <2>4. b \in Int /\ b <= bumpAt[e]
      BY <2>2, <2>3, BucketFacts
    <2>5. b \in (clock - w)..clock
      BY <1>1, <1>2, BucketsRead DEF WindowStart
    <2>6. bumpAt[e] >= clock - w
      BY <1>1, <2>3, <2>4, <2>5
    <2> QED BY <2>2, <2>6
  <1>6. D = InFirst(w, clock) \union InRest(w, clock)
    BY <1>4, <1>5
  <1> QED BY <1>3, <1>6, Zenon

(* The count of the window before, where buckets begin with the windows.   *)
LEMMA PreviousExact ==
  ASSUME CountInv
  PROVE  PreviousIsExact
  <1> SUFFICES ASSUME asked = {Short, Long}, clock % BucketSize(Long) = 0, bumped[Short] = bumped[Long],
                      NEW own \in {0, 1}
               PROVE  PreviousCount(clock, own) =
                        Sum({e \in bumped[Long] : bumpAt[e] \in (clock - Long)..(clock - Short - 1)})
    BY DEF PreviousIsExact
  <1>1. /\ clock \in Int /\ Short \in Nat \ {0} /\ Long \in Nat /\ Long = 2 * Short
        /\ Short \in Sliding /\ Long \in Sliding
    BY RedisAssumption, CountersAssumption DEF CountInv, Long, Sliding, Windows, Rulesets, Total
  <1> DEFINE s == BucketSize(Short)
  <1>2. s \in Nat \ {0} /\ BucketSize(Long) = 2 * s
    BY <1>1, WindowFacts
  <1>3. BucketOf(Long, clock) = clock
    BY <1>1 DEF BucketOf, Sliding
  <1>4. BucketOf(Short, clock) = clock
    <2>1. PICK p \in Int : clock = BucketSize(Long) * p
      BY <1>1, <1>3, BucketFacts
    <2> HIDE DEF s
    <2>2. clock = s * (2 * p) /\ 2 * p \in Int
      BY <1>1, <1>2, <2>1
    <2>3. s * (2 * p) <= clock /\ clock < s * (2 * p) + s
      BY <1>1, <1>2, <2>2
    <2>4. BucketOf(Short, clock) = s * (2 * p)
      BY <1>1, <2>2, <2>3, BucketIsNext DEF s
    <2> QED BY <2>2, <2>4
  <1> DEFINE inShort == {e \in bumped[Short] : bumpAt[e] >= clock - Short}
             inLong == {e \in bumped[Long] : bumpAt[e] >= clock - Long}
             between == {e \in bumped[Long] : bumpAt[e] \in (clock - Long)..(clock - Short - 1)}
  <1>5. Estimate(Short, clock) = Sum(inShort) /\ Estimate(Long, clock) = Sum(inLong)
    BY <1>1, <1>3, <1>4, EstimateExact
  <1>6. \A e \in bumped[Long] : e \in Bumps /\ bumpAt[e] \in Int
    <2> SUFFICES ASSUME NEW e \in bumped[Long] PROVE e \in Bumps /\ bumpAt[e] \in Int
      OBVIOUS
    <2>1. e \in Bumps /\ bumpAt[e] \in 0..clock
      BY <1>1, EventsRead
    <2> QED BY <1>1, <2>1
  <1>7. /\ inShort \in SUBSET Bumps /\ between \in SUBSET Bumps
        /\ inShort \intersect between = {} /\ inLong = inShort \union between
    BY <1>1, <1>6
  <1> HIDE DEF inShort, inLong, between
  <1>8. Sum(inLong) = Sum(inShort) + Sum(between) /\ Sum(inShort) \in Nat /\ Sum(between) \in Nat
    BY <1>7, SumOfUnion, SumType
  <1>9. \A n \in Nat : Max({0, n}) = n
    <2> SUFFICES ASSUME NEW n \in Nat PROVE Max({0, n}) = n
      OBVIOUS
    <2>1. n \in {0, n} /\ \A y \in {0, n} : n >= y
      OBVIOUS
    <2>2. \A x \in {0, n} : (\A y \in {0, n} : x >= y) => x = n
      OBVIOUS
    <2> QED BY <2>1, <2>2 DEF Max
  <1>10. /\ ClassifyCount(Long, clock, own) = own + (Sum(inShort) + Sum(between))
         /\ ClassifyCount(Short, clock, own) = own + Sum(inShort)
    <2>1. Max({0, Estimate(Long, clock)}) = Sum(inShort) + Sum(between)
      BY <1>5, <1>8, <1>9
    <2>2. Max({0, Estimate(Short, clock)}) = Sum(inShort)
      BY <1>5, <1>8, <1>9
    <2> QED BY <2>1, <2>2 DEF ClassifyCount
  <1>11. PreviousCount(clock, own) = Sum(between)
    <2> DEFINE long == ClassifyCount(Long, clock, own)  short == ClassifyCount(Short, clock, own)
               i == Sum(inShort)  b == Sum(between)
    <2>1. PreviousCount(clock, own) = IF long - short < 0 THEN NoCount ELSE long - short
      BY Zenon DEF PreviousCount
    <2>2. long = own + (i + b) /\ short = own + i /\ i \in Nat /\ b \in Nat
      BY <1>8, <1>10
    <2> HIDE DEF long, short, i, b
    <2>3. long - short = b /\ ~(b < 0)
      BY <2>2
    <2>4. PreviousCount(clock, own) = b
      BY <2>1, <2>3
    <2> QED BY <2>4 DEF b
  <1> QED BY <1>11 DEF between

(* A sliding count is right up to the bucket its window begins in; the     *)
(* approximate unique count covers the exact one; and the count of the     *)
(* window before is exact where buckets begin with the windows: for any    *)
(* amounts and any number of executions, whatever bumps fail or come late. *)
THEOREM CountsRight == CountSpec => []CountersAreRight
  <1>1. CountInv => CountersAreRight
    BY WithinABucket, UniqueCovers, PreviousExact DEF CountersAreRight
  <1> QED BY <1>1, CounterConsistent, PTL

-----------------------------------------------------------------------------
(* Labels.                                                                 *)

LabelSpec == clock = 0 /\ LabelInit /\ [][LabelNext]_<<clock, labelVars>>

(* A label that expires was given its expiry after it was added last; a    *)
(* label that is not there has none.                                       *)
LabelOutlives ==
  /\ ~label => labelTill = Never
  /\ lastSet # Never /\ labelTill # Never => labelTill >= lastSet + LabelExpiry

LabelInv == LabelTypeOK /\ clock \in Nat /\ LabelOutlives /\ LabelLasts

(* No command of any callback, and no expiry, breaks the invariant.        *)
LEMMA LabelInvKept ==
  ASSUME LabelInv, [LabelNext]_<<clock, labelVars>>
  PROVE  LabelInv'
  <1>0. /\ LabelTypeOK /\ clock \in Nat /\ LabelOutlives /\ LabelLasts
        /\ LabelExpiry \in Nat \ {0} /\ Adds \intersect Removes = {}
        /\ labelTill \in Int /\ lastSet \in -1..clock
    BY LabelsAssumption DEF LabelInv, LabelTypeOK
  <1>1. CASE UNCHANGED <<clock, labelVars>>
    BY <1>0, <1>1 DEF LabelInv, LabelTypeOK, LabelOutlives, LabelLasts, labelVars
  <1>2. CASE LabelTick
    <2>1. clock' = clock + 1 /\ clock' \in Nat /\ UNCHANGED <<callback, lastSet>>
      BY <1>0, <1>2 DEF LabelTick, PassTime
    <2>2. \/ labelTill # Never /\ labelTill <= clock' /\ label' = FALSE /\ labelTill' = Never
          \/ UNCHANGED <<label, labelTill>>
      BY <1>2 DEF LabelTick, Dropped
    <2>3. LabelTypeOK'
      <3>0. label' \in BOOLEAN
        BY <1>0, <2>2, Zenon DEF LabelTypeOK
      <3>1. label' \in BOOLEAN /\ labelTill' \in Int
        BY <1>0, <2>2, <3>0 DEF Never
      <3>2. lastSet' \in -1..clock'
        BY <1>0, <2>1
      <3> QED BY <1>0, <2>1, <3>1, <3>2 DEF LabelTypeOK
    <2>4. LabelOutlives'
      BY <1>0, <2>1, <2>2 DEF LabelOutlives, Never
    <2>5. LabelLasts'
      <3>1. lastSet # Never /\ clock' < lastSet + LabelExpiry => label'
        BY <1>0, <2>1, <2>2 DEF LabelOutlives, LabelLasts
      <3>2. label' /\ labelTill' = Never => label /\ labelTill = Never
        BY <2>2
      <3>3. label' /\ labelTill' = Never => \E c \in Adds : callback'[c] \in {"set", "failed"}
        BY <1>0, <2>1, <3>2 DEF LabelLasts
      <3> QED BY <2>1, <3>1, <3>3 DEF LabelLasts, Never
    <2> QED BY <2>1, <2>3, <2>4, <2>5 DEF LabelInv
  <1>3. ASSUME NEW c \in Adds, SetLabel(c) PROVE LabelInv'
    <2>1. /\ clock' = clock /\ label' = TRUE /\ labelTill' = Never /\ lastSet' = clock
          /\ callback' = [callback EXCEPT ![c] = "set"]
      BY <1>3 DEF SetLabel
    <2>2. LabelTypeOK'
      BY <1>0, <2>1 DEF LabelTypeOK, Never
    <2>3. callback'[c] = "set"
      BY <1>0, <2>1 DEF LabelTypeOK
    <2>4. LabelOutlives' /\ LabelLasts'
      BY <1>0, <2>1, <2>3 DEF LabelOutlives, LabelLasts, Never
    <2> QED BY <1>0, <2>1, <2>2, <2>4 DEF LabelInv
  <1>4. ASSUME NEW c \in Adds, ExpireLabel(c) PROVE LabelInv'
    <2>1. /\ clock' = clock /\ UNCHANGED <<label, lastSet>>
          /\ labelTill' = IF label THEN clock + LabelExpiry ELSE labelTill
          /\ callback' = [callback EXCEPT ![c] = "done"]
      BY <1>4 DEF ExpireLabel
    <2>2. LabelTypeOK'
      BY <1>0, <2>1 DEF LabelTypeOK
    <2>3. label => labelTill' # Never /\ labelTill' >= lastSet + LabelExpiry
      BY <1>0, <2>1 DEF Never
    <2>4. LabelOutlives'
      BY <1>0, <2>1, <2>3 DEF LabelOutlives, Never
    <2>5. LabelLasts'
      BY <1>0, <2>1, <2>3 DEF LabelLasts, Never
    <2> QED BY <1>0, <2>1, <2>2, <2>4, <2>5 DEF LabelInv
  <1>5. ASSUME NEW c \in Removes, DeleteLabel(c) PROVE LabelInv'
    <2>1. /\ clock' = clock /\ label' = FALSE /\ labelTill' = Never /\ lastSet' = Never
          /\ callback' = [callback EXCEPT ![c] = "done"]
      BY <1>5 DEF DeleteLabel
    <2>2. LabelTypeOK'
      <3>1. label' \in BOOLEAN
        BY <2>1, Zenon
      <3>2. labelTill' \in Int /\ lastSet' \in -1..clock'
        BY <1>0, <2>1 DEF Never
      <3>3. callback' \in [Adds \union Removes -> {"waiting", "set", "done", "failed"}]
        BY <1>0, <2>1 DEF LabelTypeOK
      <3> QED BY <3>1, <3>2, <3>3 DEF LabelTypeOK
    <2>3. LabelOutlives' /\ LabelLasts'
      BY <2>1 DEF LabelOutlives, LabelLasts, Never
    <2> QED BY <1>0, <2>1, <2>2, <2>3 DEF LabelInv
  <1>6. ASSUME NEW c \in Adds \union Removes, CallbackFails(c) PROVE LabelInv'
    <2>1. /\ UNCHANGED <<clock, label, labelTill, lastSet>>
          /\ callback' = [callback EXCEPT ![c] = IF callback[c] = "set" THEN "failed" ELSE "done"]
          /\ callback[c] \in {"waiting", "set"}
      BY <1>6 DEF CallbackFails
    <2>2. LabelTypeOK'
      <3> DEFINE v == IF callback[c] = "set" THEN "failed" ELSE "done"
      <3>1. v \in {"waiting", "set", "done", "failed"} /\ callback' = [callback EXCEPT ![c] = v]
        BY <2>1
      <3> HIDE DEF v
      <3>2. callback' \in [Adds \union Removes -> {"waiting", "set", "done", "failed"}]
        BY <1>0, <3>1 DEF LabelTypeOK
      <3> QED BY <1>0, <2>1, <3>2 DEF LabelTypeOK
    <2>3. \A d \in Adds : callback[d] \in {"set", "failed"} => callback'[d] \in {"set", "failed"}
      BY <1>0, <2>1 DEF LabelTypeOK
    <2>4. LabelOutlives' /\ LabelLasts'
      BY <1>0, <2>1, <2>3 DEF LabelOutlives, LabelLasts, Never
    <2> QED BY <1>0, <2>1, <2>2, <2>4 DEF LabelInv
  <1> QED BY <1>1, <1>2, <1>3, <1>4, <1>5, <1>6 DEF LabelNext

(* What the key of a label and its callbacks say of one another.           *)
THEOREM LabelConsistent == LabelSpec => []LabelInv
  <1>1. clock = 0 /\ LabelInit => LabelInv
    <2> SUFFICES ASSUME clock = 0, LabelInit PROVE LabelInv
      OBVIOUS
    <2>1. /\ ~label /\ label \in BOOLEAN /\ labelTill = -1 /\ lastSet = -1 /\ clock = 0
          /\ callback \in [Adds \union Removes -> {"waiting", "set", "done", "failed"}]
      BY DEF LabelInit, Never
    <2>2. lastSet \in -1..clock /\ labelTill \in Int
      BY <2>1
    <2> QED BY <2>1, <2>2 DEF LabelInv, LabelTypeOK, LabelOutlives, LabelLasts, Never
  <1>2. LabelInv /\ [LabelNext]_<<clock, labelVars>> => LabelInv'
    BY LabelInvKept
  <1> QED BY <1>1, <1>2, PTL DEF LabelSpec

(* A label that was added and not removed since lasts as long as EXPIRY    *)
(* says, and for ever only if the action that added it stopped between its *)
(* two commands (RedisLabelService.ts), for any number of executions.      *)
THEOREM LabelsLast == LabelSpec => []LabelLasts
  <1>1. LabelInv => LabelLasts
    BY DEF LabelInv
  <1> QED BY <1>1, LabelConsistent, PTL

=============================================================================
