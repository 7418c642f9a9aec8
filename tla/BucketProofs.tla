------------------------------ MODULE BucketProofs ------------------------------
(***************************************************************************)
(* Proofs about the token buckets of the rate limiter and of sessionize(), *)
(* for every size, refill and refill time, any amount of tokens taken at a *)
(* time, and events that come late in any order.                           *)
(***************************************************************************)
EXTENDS RateLimit, Sessionize, FiniteSetTheorems, SequenceTheorems, TLAPS

-----------------------------------------------------------------------------
(* Arithmetic.                                                             *)

(* What division by a positive number gives, which the prover knows.       *)
LEMMA DivBounds ==
  ASSUME NEW a \in Int, NEW d \in Nat \ {0}
  PROVE  a \div d \in Int /\ d * (a \div d) <= a /\ a < d * (a \div d) + d
  OBVIOUS

(* Adding whole periods adds as many to the quotient.                      *)
LEMMA DivShift ==
  ASSUME NEW a \in Int, NEW d \in Nat \ {0}, NEW k \in Int
  PROVE  (a + k * d) \div d = (a \div d) + k
  OBVIOUS

(* Whole periods divide exactly.                                           *)
LEMMA DivExact ==
  ASSUME NEW d \in Nat \ {0}, NEW k \in Int
  PROVE  (k * d) \div d = k
  OBVIOUS

(* Later is at least as many periods.                                      *)
LEMMA DivGrows ==
  ASSUME NEW a \in Int, NEW b \in Int, NEW d \in Nat \ {0}, a <= b
  PROVE  a \div d <= b \div d
  OBVIOUS

(* Whoever has waited q periods has q refills due.                         *)
LEMMA DivAtLeast ==
  ASSUME NEW a \in Int, NEW d \in Nat \ {0}, NEW q \in Int, d * q <= a
  PROVE  q <= a \div d
  OBVIOUS

(* Multiplication with a natural number keeps the order.                   *)
LEMMA TimesGrows ==
  ASSUME NEW a \in Int, NEW b \in Int, NEW d \in Nat, a <= b
  PROVE  d * a <= d * b
  OBVIOUS

(* What a ruleset may ask for. *)
LEMMA ArgumentTypes ==
  ASSUME args \in Arguments
  PROVE  /\ MaxAmount \in Nat \ {0} /\ RefillTime \in Nat \ {0} /\ RefillAmount \in Nat \ {0}
         /\ RefillAmount <= MaxAmount /\ Takes \subseteq Nat /\ args.strict \in BOOLEAN
  <1>1. /\ MaxAmount \in Nat \ {0} /\ RefillTime \in Nat \ {0} /\ RefillAmount \in 1..MaxAmount
        /\ Takes \subseteq Nat /\ args.strict \in BOOLEAN
    BY ArgumentsAssumption DEF MaxAmount, RefillTime, RefillAmount, Takes
  <1> QED BY <1>1

(* A bucket is kept until it would be full, and an empty one at least for  *)
(* a refill time.                                                          *)
LEMMA LifetimeFills ==
  ASSUME args \in Arguments, NEW tokens \in 0..MaxAmount
  PROVE  /\ Lifetime(tokens) \in Nat
         /\ tokens + RefillAmount * (Lifetime(tokens) \div RefillTime) >= MaxAmount
         /\ tokens = 0 => Lifetime(tokens) >= RefillTime
  <1> DEFINE M == MaxAmount  R == RefillAmount  T == RefillTime
             k == (M - tokens + R - 1) \div R
  <1>1. M \in Nat \ {0} /\ T \in Nat \ {0} /\ R \in Nat \ {0} /\ R <= M
    BY ArgumentTypes
  <1>2. Lifetime(tokens) = k * T
    BY DEF Lifetime
  <1>3. tokens \in Nat /\ tokens <= M
    BY <1>1
  <1> HIDE DEF M, R, T
  <1>4. k \in Int /\ M - tokens + R - 1 < R * k + R
    BY <1>1, <1>3, DivBounds
  <1>5. R * k >= M - tokens /\ k >= 0
    <2>1. k >= 0
      BY <1>1, <1>3, DivAtLeast
    <2>2. M - tokens - 1 < R * k
      BY <1>1, <1>3, <1>4
    <2> QED BY <1>1, <1>3, <1>4, <2>1, <2>2
  <1>6. tokens = 0 => k >= 1
    BY <1>1, DivAtLeast
  <1> HIDE DEF k
  <1>7. k * T \in Nat /\ (k * T) \div T = k
    <2>1. k * T \in Nat
      BY <1>1, <1>4, <1>5
    <2> QED BY <1>1, <1>4, <2>1, DivExact
  <1>8. tokens = 0 => k * T >= T
    BY <1>1, <1>4, <1>6
  <1>9. tokens + R * k >= M
    BY <1>1, <1>3, <1>4, <1>5
  <1> QED BY <1>2, <1>7, <1>8, <1>9 DEF M, R, T

-----------------------------------------------------------------------------
(* The rate limiter.                                                       *)

RateSpec == clock = 0 /\ RateInit /\ [][RateNext]_<<clock, rateVars>>

Buckets == [tokens : 0..MaxAmount, lastRefill : 0..clock]

(* What the script works with when it looks at the tokens: the bucket with *)
(* k refills.                                                              *)
LEMMA RefillFacts ==
  ASSUME RateTypeOK, clock \in Nat, NEW take \in Nat \ {0}, NEW at \in 0..clock
  PROVE  /\ Refilled(take, at) \in Buckets
         /\ Clamped(at) \in 0..clock /\ at <= Clamped(at)
         /\ Refilled(take, at).lastRefill <= Clamped(at)
         /\ Refilled(take, at).tokens < take => Clamped(at) < Refilled(take, at).lastRefill + RefillTime
         /\ bucket = NoBucket =>
              Refilled(take, at) = [tokens |-> MaxAmount, lastRefill |-> at] /\ Clamped(at) = at
         /\ bucket # NoBucket =>
              /\ bucket \in Buckets
              /\ bucket.lastRefill <= Clamped(at)
              /\ \E k \in Nat :
                   /\ Refilled(take, at).lastRefill = bucket.lastRefill + k * RefillTime
                   /\ Refilled(take, at).tokens <= bucket.tokens + RefillAmount * k
                   /\ k = 0 => Refilled(take, at) = bucket
                   /\ k > 0 => Refilled(take, at).tokens >= RefillAmount
  <1> DEFINE M == MaxAmount  R == RefillAmount  T == RefillTime
             b == Refilled(take, at)  now == Clamped(at)  o == Opened(at)
             k == (now - o.lastRefill) \div T
  <1>1. M \in Nat \ {0} /\ T \in Nat \ {0} /\ R \in Nat \ {0} /\ R <= M
    BY ArgumentTypes DEF RateTypeOK
  <1>2. bucket # NoBucket => bucket \in Buckets /\ bucket.tokens \in 0..M /\ bucket.lastRefill \in 0..clock
    BY DEF RateTypeOK, Buckets
  <1>3. /\ o \in Buckets /\ o.tokens \in 0..M /\ o.lastRefill \in 0..clock
        /\ bucket = NoBucket => o = [tokens |-> M, lastRefill |-> at]
        /\ bucket # NoBucket => o = bucket
    BY <1>1, <1>2 DEF Opened, Buckets
  <1>4. now \in 0..clock /\ at <= now /\ o.lastRefill <= now /\ (bucket = NoBucket => now = at)
    BY <1>3 DEF Clamped
  <1>5. b = IF o.tokens >= take THEN o
            ELSE [tokens |-> Lesser(M, o.tokens + k * R), lastRefill |-> o.lastRefill + k * T]
    BY DEF Refilled, Refills
  <1> HIDE DEF M, R, T, b, now, o
  <1>6. k \in Nat /\ T * k <= now - o.lastRefill /\ now - o.lastRefill < T * k + T
    <2> DEFINE gap == now - o.lastRefill
    <2>1. gap \in Nat
      BY <1>3, <1>4
    <2>2. k = gap \div T
      OBVIOUS
    <2> HIDE DEF gap, k
    <2>3. k \in Int /\ T * k <= gap /\ gap < T * k + T
      BY <1>1, <2>1, <2>2, DivBounds
    <2>4. 0 <= k
      BY <1>1, <2>1, <2>2, DivAtLeast
    <2> QED BY <2>3, <2>4 DEF gap
  <1> HIDE DEF k
  <1>7. CASE o.tokens >= take
    <2>1. b = o /\ ~(b.tokens < take)
      BY <1>3, <1>5, <1>7
    <2>2. bucket # NoBucket => b.lastRefill = bucket.lastRefill + 0 * T /\ b.tokens <= bucket.tokens + R * 0
      BY <1>1, <1>3, <2>1
    <2> QED BY <1>2, <1>3, <1>4, <2>1, <2>2 DEF M, R, T, b, now
  <1>8. CASE ~(o.tokens >= take)
    <2>1. b = [tokens |-> Lesser(M, o.tokens + k * R), lastRefill |-> o.lastRefill + k * T]
      BY <1>5, <1>8
    <2>2. k * R = R * k /\ k * T = T * k /\ R * k \in Nat /\ T * k \in Nat /\ (k > 0 => R * k >= R)
      BY <1>1, <1>6
    <2>3. o.lastRefill + k * T \in 0..clock /\ o.lastRefill + k * T <= now /\ now < o.lastRefill + k * T + T
      BY <1>1, <1>3, <1>4, <1>6, <2>2
    <2>4. /\ Lesser(M, o.tokens + k * R) \in 0..M
          /\ Lesser(M, o.tokens + k * R) <= o.tokens + R * k
          /\ k > 0 => Lesser(M, o.tokens + k * R) >= R
      BY <1>1, <1>3, <2>2 DEF Lesser
    <2>5. b \in Buckets
      BY <2>1, <2>3, <2>4 DEF Buckets, M
    <2>6. k = 0 => b = o
      <3>1. k = 0 => Lesser(M, o.tokens + k * R) = o.tokens /\ o.lastRefill + k * T = o.lastRefill
        BY <1>1, <1>3, <2>2 DEF Lesser
      <3>2. o = [tokens |-> o.tokens, lastRefill |-> o.lastRefill]
        BY <1>3 DEF Buckets
      <3> QED BY <2>1, <3>1, <3>2
    <2>7. bucket = NoBucket => b = [tokens |-> M, lastRefill |-> at]
      <3>1. bucket = NoBucket => o.lastRefill = now /\ o.tokens = M
        BY <1>3, <1>4
      <3>2. bucket = NoBucket => T * k <= 0
        BY <1>3, <1>4, <1>6, <3>1
      <3>3. bucket = NoBucket => k = 0
        BY <1>1, <1>6, <3>2
      <3> QED BY <1>3, <2>6, <3>3
    <2> QED BY <1>2, <1>3, <1>4, <1>6, <2>1, <2>2, <2>3, <2>4, <2>5, <2>6, <2>7 DEF M, R, T, b, now
  <1> QED BY <1>7, <1>8

(* What a call that asks for tokens does: it finds none, which was so      *)
(* before as well, or takes some from the bucket with k refills.           *)
FindsNone(at) ==
  /\ bucket # NoBucket /\ bucket.tokens = 0
  /\ bucket.lastRefill <= Clamped(at) /\ Clamped(at) < bucket.lastRefill + RefillTime
  /\ bucket' = IF args.strict THEN [tokens |-> 0, lastRefill |-> Clamped(at)] ELSE bucket
  /\ dies' = IF args.strict THEN clock + Lifetime(0) ELSE dies
  /\ since' = since /\ taken' = taken
  /\ refusedAt' = Clamped(at) /\ answer'.before = 0

TakesSome(at, b, left) ==
  /\ b \in Buckets /\ b.tokens > 0 /\ b.lastRefill <= Clamped(at)
  /\ left \in 0..(b.tokens - 1)
  /\ bucket' = [tokens |-> left, lastRefill |-> b.lastRefill]
  /\ dies' = clock + Lifetime(left)
  /\ refusedAt' = refusedAt /\ answer'.before = b.tokens
  /\ \/ /\ bucket = NoBucket /\ b = [tokens |-> MaxAmount, lastRefill |-> at]
        /\ Clamped(at) = at /\ since' = at
        /\ taken' = << >> \o [i \in 1..(b.tokens - left) |-> Clamped(at)]
     \/ /\ bucket # NoBucket /\ bucket \in Buckets /\ since' = since
        /\ taken' = taken \o [i \in 1..(b.tokens - left) |-> Clamped(at)]
        /\ \E k \in Nat :
             /\ b.lastRefill = bucket.lastRefill + k * RefillTime
             /\ b.tokens <= bucket.tokens + RefillAmount * k
             /\ k = 0 => b = bucket
             /\ k > 0 => b.tokens >= RefillAmount

(* What a call of the script does: the key is not there or it is, and then *)
(* tokens are taken or not.                                                *)
LEMMA TakeCases ==
  ASSUME RateTypeOK, clock \in Nat, NEW take \in Nat \ {0}, NEW at \in 0..clock, Take(take, at)
  PROVE  /\ Clamped(at) \in 0..clock /\ at <= Clamped(at)
         /\ answer' = [take |-> take, at |-> Clamped(at), before |-> answer'.before]
         /\ answer'.before \in 0..MaxAmount
         /\ UNCHANGED <<clock, args>>
         /\ \/ FindsNone(at)
            \/ \E left : TakesSome(at, Refilled(take, at), left)
  <1> DEFINE b == Refilled(take, at)  now == Clamped(at)
  <1>1. MaxAmount \in Nat \ {0} /\ RefillAmount \in Nat \ {0}
    BY ArgumentTypes DEF RateTypeOK
  <1>2. /\ bucket' = IF b.tokens = 0 THEN Emptied(b, now) ELSE Taken(b, take)
        /\ dies' = IF b.tokens = 0 /\ ~args.strict THEN dies ELSE clock + Lifetime(bucket'.tokens)
        /\ since' = IF bucket = NoBucket THEN at ELSE since
        /\ taken' = (IF bucket = NoBucket THEN << >> ELSE taken)
                      \o [i \in 1..(b.tokens - bucket'.tokens) |-> now]
        /\ refusedAt' = IF b.tokens = 0 THEN now ELSE refusedAt
        /\ answer' = [take |-> take, at |-> now, before |-> b.tokens]
        /\ UNCHANGED <<clock, args>>
    BY DEF Take
  <1>3. /\ b \in Buckets /\ b.tokens \in 0..MaxAmount /\ now \in 0..clock /\ at <= now
        /\ b = [tokens |-> b.tokens, lastRefill |-> b.lastRefill]
        /\ answer'.before = b.tokens
    BY <1>2, RefillFacts DEF Buckets
  <1>4. CASE b.tokens = 0
    <2>1. bucket # NoBucket
      BY <1>1, <1>4, RefillFacts
    <2>2. b = bucket
      BY <1>1, <1>4, <2>1, RefillFacts
    <2>3. bucket' = IF args.strict THEN [tokens |-> 0, lastRefill |-> now] ELSE bucket
      BY <1>2, <1>3, <1>4 DEF Emptied
    <2>4. bucket'.tokens = 0
      BY <1>4, <2>2, <2>3
    <2>5. taken \o [i \in 1..(b.tokens - bucket'.tokens) |-> now] = taken
      <3>1. taken \in Seq(0..clock) /\ [i \in 1..(b.tokens - bucket'.tokens) |-> now] = << >>
        BY <1>4, <2>4 DEF RateTypeOK
      <3> QED BY <3>1, ConcatEmptySeq
    <2>6. b.lastRefill <= now /\ now < b.lastRefill + RefillTime
      BY <1>3, <1>4, RefillFacts
    <2>7. dies' = IF args.strict THEN clock + Lifetime(0) ELSE dies
      BY <1>2, <1>4, <2>4
    <2>8. since' = since /\ taken' = taken /\ refusedAt' = now /\ answer'.before = 0
      BY <1>2, <1>3, <1>4, <2>1, <2>5
    <2> HIDE DEF b
    <2>9. FindsNone(at)
      BY <1>4, <2>1, <2>2, <2>3, <2>6, <2>7, <2>8 DEF FindsNone
    <2> QED BY <1>2, <1>3, <2>9
  <1>5. CASE b.tokens # 0
    <2> DEFINE left == IF b.tokens > take THEN b.tokens - take ELSE 0
    <2>1. bucket' = [tokens |-> left, lastRefill |-> b.lastRefill]
      BY <1>2, <1>3, <1>5 DEF Taken
    <2>2. left \in 0..(b.tokens - 1) /\ b.tokens > 0
      BY <1>3, <1>5
    <2>3. bucket'.tokens = left
      BY <2>1
    <2> HIDE DEF left
    <2>4. TakesSome(at, b, left)
      BY <1>2, <1>3, <1>5, <2>1, <2>2, <2>3, RefillFacts DEF TakesSome
    <2> QED BY <1>2, <1>3, <2>4
  <1> QED BY <1>4, <1>5

-----------------------------------------------------------------------------
(* Lemmas about the history of tokens.                                     *)

Tokens(n, at) == [i \in 1..n |-> at]

(* Tokens that are appended to those taken before.                         *)
LEMMA AppendTokens ==
  ASSUME NEW S, NEW s \in Seq(S), NEW n \in Nat, NEW at \in S
  PROVE  /\ Tokens(n, at) \in Seq(S)
         /\ s \o Tokens(n, at) \in Seq(S)
         /\ Len(s \o Tokens(n, at)) = Len(s) + n
         /\ \A i \in 1..Len(s) : (s \o Tokens(n, at))[i] = s[i]
         /\ \A i \in (Len(s) + 1)..(Len(s) + n) : (s \o Tokens(n, at))[i] = at
  <1>1. Tokens(n, at) \in Seq(S) /\ Len(Tokens(n, at)) = n
    BY DEF Tokens
  <1>2. \A i \in 1..n : Tokens(n, at)[i] = at
    BY DEF Tokens
  <1>3. Len(s) \in Nat
    OBVIOUS
  <1> HIDE DEF Tokens
  <1>4. /\ s \o Tokens(n, at) \in Seq(S)
        /\ Len(s \o Tokens(n, at)) = Len(s) + n
        /\ \A i \in 1..Len(s) + n :
             (s \o Tokens(n, at))[i] = IF i <= Len(s) THEN s[i] ELSE Tokens(n, at)[i - Len(s)]
    BY SMTT(30), <1>1, ConcatProperties
  <1>5. \A i \in (Len(s) + 1)..(Len(s) + n) : i \in 1..Len(s) + n /\ ~(i <= Len(s)) /\ i - Len(s) \in 1..n
    BY <1>3
  <1>6. \A i \in 1..Len(s) : i \in 1..Len(s) + n /\ i <= Len(s)
    BY <1>3
  <1> QED BY <1>1, <1>2, <1>4, <1>5, <1>6

(* The first tokens ever taken.                                            *)
LEMMA OnlyTokens ==
  ASSUME NEW n \in Nat, NEW at
  PROVE  Len(<< >> \o Tokens(n, at)) = n
  <1>1. Tokens(n, at) \in Seq({at}) /\ Len(Tokens(n, at)) = n
    BY DEF Tokens
  <1> QED BY <1>1, ConcatEmptySeq

(* The tokens taken since a moment. *)
Since(s, t) == {i \in 1..Len(s) : s[i] >= t}

(* Tokens are counted in finite sets.                                      *)
LEMMA SinceFinite ==
  ASSUME NEW s \in Seq(Int), NEW t \in Int
  PROVE  IsFiniteSet(Since(s, t)) /\ Cardinality(Since(s, t)) \in Nat
  <1>1. Len(s) \in Nat /\ Since(s, t) \in SUBSET (1..Len(s))
    BY DEF Since
  <1>2. IsFiniteSet(1..Len(s))
    BY <1>1, FS_Interval
  <1>3. IsFiniteSet(Since(s, t))
    BY <1>1, <1>2, FS_Subset
  <1> QED BY <1>3, FS_CardinalityType

(* Tokens that are taken at t or later add to those taken since t. *)
LEMMA SinceCounts ==
  ASSUME NEW s \in Seq(Int), NEW t \in Int, NEW n \in Nat, NEW at \in Int, at >= t
  PROVE  Cardinality(Since(s \o Tokens(n, at), t)) = Cardinality(Since(s, t)) + n
  <1> DEFINE added == (Len(s) + 1)..(Len(s) + n)
  <1>1. /\ Len(s) \in Nat /\ Len(s \o Tokens(n, at)) = Len(s) + n
        /\ \A i \in 1..Len(s) : (s \o Tokens(n, at))[i] = s[i]
        /\ \A i \in added : (s \o Tokens(n, at))[i] = at
    BY AppendTokens
  <1>2. Since(s \o Tokens(n, at), t) = Since(s, t) \union added
    BY <1>1 DEF Since
  <1>3. Since(s, t) \intersect added = {}
    BY <1>1 DEF Since
  <1>4. IsFiniteSet(added) /\ Cardinality(added) = n
    BY <1>1, FS_Interval
  <1>5. IsFiniteSet(Since(s, t)) /\ Cardinality(Since(s, t)) \in Nat
    BY SinceFinite
  <1>6. Cardinality({}) = 0
    BY FS_EmptySet
  <1> HIDE DEF added
  <1>7. Cardinality(Since(s, t) \union added)
          = Cardinality(Since(s, t)) + Cardinality(added) - Cardinality(Since(s, t) \intersect added)
    BY <1>4, <1>5, FS_Union
  <1>8. Cardinality(Since(s \o Tokens(n, at), t)) = Cardinality(Since(s, t)) + n - 0
    BY <1>2, <1>3, <1>4, <1>6, <1>7, Zenon
  <1> QED BY <1>5, <1>8

-----------------------------------------------------------------------------
(* The inductive invariant of the rate limiter.                            *)

(* A lenient bucket that holds less than a refill lost the rest of it to   *)
(* calls since its last refill.                                            *)
EmptiedSinceRefill ==
  bucket # NoBucket /\ ~args.strict =>
    bucket.tokens + Cardinality(Since(taken, bucket.lastRefill)) >= RefillAmount

(* STRICT: until a refill time has passed, a bucket that was found empty   *)
(* is there, is empty, and its refill time runs from that moment.          *)
StaysEmpty ==
  args.strict /\ refusedAt # Never /\ clock < refusedAt + RefillTime =>
    /\ bucket # NoBucket /\ bucket.tokens = 0 /\ bucket.lastRefill = refusedAt
    /\ dies >= refusedAt + RefillTime
    /\ ~(answer.take > 0 /\ Grants(answer.before, answer.take))

RateInv ==
  /\ RateTypeOK /\ clock \in Nat
  /\ RateWithinBucket /\ ExpiryIsHarmless
  /\ EmptiedSinceRefill /\ LimitedForACause
  /\ StaysEmpty

(* The steps, as the proofs look at them. *)
LEMMA RateSteps ==
  ASSUME RateTypeOK, clock \in Nat, [RateNext]_<<clock, rateVars>>
  PROVE  \/ UNCHANGED <<clock, rateVars>>
         \/ RateTick
         \/ \E at \in 0..clock : Peek(at)
         \/ \E take \in Nat \ {0}, at \in 0..clock : Take(take, at)
  <1>1. Takes \subseteq Nat
    BY ArgumentTypes DEF RateTypeOK
  <1>2. EventTimes \subseteq 0..clock
    BY DEF EventTimes
  <1> QED BY <1>1, <1>2 DEF RateNext, RateFetch

(* A refilled bucket or one that was taken from is no missing one. *)
LEMMA SomeBucket ==
  ASSUME NEW left \in Nat, NEW t
  PROVE  [tokens |-> left, lastRefill |-> t] # NoBucket
  <1>1. [tokens |-> left, lastRefill |-> t].tokens = left /\ NoBucket.tokens = -1
    BY DEF NoBucket
  <1> QED BY <1>1

(* What a tick leaves of a bucket: itself or nothing. *)
LEMMA TickCases ==
  ASSUME RateTypeOK, clock \in Nat, RateTick
  PROVE  /\ clock' = clock + 1 /\ UNCHANGED <<args, since, taken, refusedAt, answer>>
         /\ \/ bucket' = NoBucket /\ dies' = Never /\ dies # Never /\ dies <= clock'
            \/ bucket' = bucket /\ dies' = dies /\ (dies = Never \/ dies > clock')
  BY DEF RateTypeOK, RateTick, PassTime, Dropped, Never

(* How a call that finds tokens leaves them. *)
LEMMA TakesSomeTypes ==
  ASSUME RateTypeOK, clock \in Nat, NEW at \in 0..clock, NEW b, NEW left,
         Clamped(at) \in 0..clock, TakesSome(at, b, left), args' = args
  PROVE  /\ b.tokens \in 0..MaxAmount /\ b.lastRefill \in 0..clock
         /\ left \in 0..MaxAmount /\ left < b.tokens /\ b.tokens - left \in Nat \ {0}
         /\ bucket' # NoBucket /\ bucket'.tokens = left /\ bucket'.lastRefill = b.lastRefill
         /\ Lifetime(left) \in Nat
         /\ taken' = (IF bucket = NoBucket THEN << >> ELSE taken) \o Tokens(b.tokens - left, Clamped(at))
  <1>1. MaxAmount \in Nat \ {0} /\ args \in Arguments
    BY ArgumentTypes DEF RateTypeOK
  <1>2. b.tokens \in 0..MaxAmount /\ b.lastRefill \in 0..clock /\ left \in 0..(b.tokens - 1)
    BY DEF TakesSome, Buckets
  <1>3. left \in 0..MaxAmount /\ left < b.tokens /\ b.tokens - left \in Nat \ {0} /\ left \in Nat
    BY <1>1, <1>2
  <1>4. bucket' = [tokens |-> left, lastRefill |-> b.lastRefill]
    BY DEF TakesSome
  <1>5. bucket' # NoBucket /\ bucket'.tokens = left /\ bucket'.lastRefill = b.lastRefill
    BY <1>3, <1>4, SomeBucket
  <1>6. Lifetime(left) \in Nat
    BY <1>1, <1>3, LifetimeFills
  <1>7. taken' = (IF bucket = NoBucket THEN << >> ELSE taken) \o Tokens(b.tokens - left, Clamped(at))
    BY DEF TakesSome, Tokens
  <1> QED BY <1>2, <1>3, <1>5, <1>6, <1>7

(* No step of the rate limiter leaves the types.                           *)
LEMMA RateTypes ==
  ASSUME RateTypeOK, clock \in Nat, [RateNext]_<<clock, rateVars>>
  PROVE  RateTypeOK' /\ clock' \in Nat /\ args' = args
  <1>1. CASE UNCHANGED <<clock, rateVars>>
    BY <1>1 DEF RateTypeOK, rateVars, MaxAmount, NoBucket
  <1>2. CASE RateTick
    <2>1. clock' = clock + 1 /\ args' = args /\ MaxAmount' = MaxAmount
      BY <1>2, TickCases DEF MaxAmount
    <2>2. -1..clock \subseteq -1..clock' /\ 0..clock \subseteq 0..clock' /\ clock' \in Nat
      BY <2>1
    <2>3. Seq(0..clock) \subseteq Seq(0..clock')
      BY <2>2
    <2> QED BY SMTT(30), <1>2, <2>1, <2>2, <2>3, TickCases DEF RateTypeOK, NoBucket, Never
  <1>3. ASSUME NEW at \in 0..clock, Peek(at) PROVE RateTypeOK' /\ clock' \in Nat /\ args' = args
    <2>1. /\ UNCHANGED <<clock, args, bucket, dies, since, taken, refusedAt>>
          /\ answer' = [take |-> 0, at |-> Clamped(at), before |-> Opened(at).tokens]
      BY <1>3 DEF Peek
    <2>2. Clamped(at) \in 0..clock
      BY RefillFacts
    <2>3. Opened(at).tokens \in 0..MaxAmount
      BY ArgumentTypes DEF RateTypeOK, Opened
    <2>4. answer' \in [take : Nat, at : -1..clock, before : 0..MaxAmount]
      BY <2>1, <2>2, <2>3
    <2> QED BY <2>1, <2>4 DEF RateTypeOK, MaxAmount, NoBucket
  <1>4. ASSUME NEW take \in Nat \ {0}, NEW at \in 0..clock, Take(take, at)
        PROVE  RateTypeOK' /\ clock' \in Nat /\ args' = args
    <2>1. /\ Clamped(at) \in 0..clock /\ UNCHANGED <<clock, args>>
          /\ answer' = [take |-> take, at |-> Clamped(at), before |-> answer'.before]
          /\ answer'.before \in 0..MaxAmount
      BY <1>4, TakeCases
    <2>2. answer' \in [take : Nat, at : -1..clock, before : 0..MaxAmount]
      BY <2>1
    <2>3. MaxAmount' = MaxAmount /\ NoBucket' = NoBucket /\ args \in Arguments
      BY <2>1 DEF MaxAmount, NoBucket, RateTypeOK
    <2>4. CASE FindsNone(at)
      <3>1. Lifetime(0) \in Nat
        BY <2>3, ArgumentTypes, LifetimeFills
      <3>2. [tokens |-> 0, lastRefill |-> Clamped(at)] # NoBucket
        BY SomeBucket
      <3>3. [tokens |-> 0, lastRefill |-> Clamped(at)] \in [tokens : 0..MaxAmount, lastRefill : 0..clock]
        BY <2>1, <2>3, ArgumentTypes
      <3>4. bucket' \in [tokens : 0..MaxAmount, lastRefill : 0..clock] \union {NoBucket} /\ bucket' # NoBucket
        BY <2>4, <3>2, <3>3 DEF FindsNone, RateTypeOK
      <3>5. dies' \in Int /\ dies' # Never
        BY <2>4, <3>1 DEF FindsNone, RateTypeOK, Never
      <3>6. since' \in -1..clock /\ taken' \in Seq(0..clock) /\ refusedAt' \in -1..clock
        BY <2>1, <2>4 DEF FindsNone, RateTypeOK
      <3> QED BY <2>1, <2>2, <2>3, <3>4, <3>5, <3>6 DEF RateTypeOK, Never
    <2>5. ASSUME NEW left, TakesSome(at, Refilled(take, at), left)
          PROVE  RateTypeOK' /\ clock' \in Nat /\ args' = args
      <3> DEFINE b == Refilled(take, at)
      <3>0. TakesSome(at, b, left)
        BY <2>5
      <3> HIDE DEF b
      <3>1. /\ left \in 0..MaxAmount /\ bucket' # NoBucket /\ Lifetime(left) \in Nat
            /\ b.lastRefill \in 0..clock /\ b.tokens - left \in Nat
            /\ taken' = (IF bucket = NoBucket THEN << >> ELSE taken) \o Tokens(b.tokens - left, Clamped(at))
        BY <2>1, <3>0, TakesSomeTypes
      <3>2. bucket' \in [tokens : 0..MaxAmount, lastRefill : 0..clock]
        BY <3>0, <3>1 DEF TakesSome
      <3>3. dies' \in Int /\ dies' # Never
        BY <3>0, <3>1 DEF TakesSome, Never
      <3>4. since' \in -1..clock /\ refusedAt' \in -1..clock
        BY SMTT(30), <3>0 DEF TakesSome, RateTypeOK
      <3>5. << >> \in Seq(0..clock) /\ taken \in Seq(0..clock)
        BY DEF RateTypeOK
      <3>6. taken' \in Seq(0..clock)
        BY ZenonT(60), <2>1, <3>1, <3>5, AppendTokens
      <3> QED BY <2>1, <2>2, <2>3, <3>1, <3>2, <3>3, <3>4, <3>6 DEF RateTypeOK, Never
    <2> QED BY <1>4, <2>4, <2>5, TakeCases
  <1> QED BY <1>1, <1>2, <1>3, <1>4, RateSteps

(* Tokens taken from a bucket with k refills, and what that leaves. *)
LEMMA RefilledArithmetic ==
  ASSUME NEW M \in Nat, NEW R \in Nat, NEW T \in Nat \ {0}, NEW k \in Nat, NEW x \in Int,
         NEW n \in Nat, NEW old \in Nat, NEW new \in Nat, NEW left \in Nat,
         n + old <= M + R * (x \div T), new <= old + R * k, left <= new
  PROVE  n + (new - left) + left <= M + R * ((x + k * T) \div T)
  <1>1. (x + k * T) \div T = (x \div T) + k /\ x \div T \in Int
    <2>0. k \in Int
      OBVIOUS
    <2>1. (x + k * T) \div T = (x \div T) + k
      BY <2>0, DivShift
    <2>2. x \div T \in Int
      BY DivBounds
    <2> QED BY <2>1, <2>2
  <1> DEFINE q == x \div T
  <1> HIDE DEF q
  <1>2. n + old <= M + R * q /\ q \in Int /\ (x + k * T) \div T = q + k
    BY <1>1 DEF q
  <1>3. R * (q + k) = R * q + R * k /\ R * q \in Int /\ R * k \in Nat
    BY <1>2
  <1> QED BY <1>2, <1>3

(* No step overdraws the bucket.                                           *)
LEMMA RateKeepsBucket ==
  ASSUME RateInv, [RateNext]_<<clock, rateVars>>
  PROVE  RateWithinBucket'
  <1> DEFINE M == MaxAmount  R == RefillAmount  T == RefillTime
  <1>0. /\ RateTypeOK /\ clock \in Nat /\ RateWithinBucket
        /\ M \in Nat \ {0} /\ T \in Nat \ {0} /\ R \in Nat \ {0} /\ args' = args
    BY ArgumentTypes, RateTypes DEF RateInv, RateTypeOK
  <1>1. M' = M /\ R' = R /\ T' = T
    BY <1>0 DEF MaxAmount, RefillAmount, RefillTime
  <1>2. bucket # NoBucket => /\ bucket.tokens \in 0..M /\ bucket.lastRefill \in 0..clock
                             /\ since \in Int /\ taken \in Seq(0..clock) /\ Len(taken) \in Nat
    BY <1>0 DEF RateTypeOK
  <1>3. bucket # NoBucket =>
          Len(taken) + bucket.tokens <= M + R * ((bucket.lastRefill - since) \div T)
    BY <1>0 DEF RateWithinBucket, Refills
  <1>4. SUFFICES ASSUME bucket' # NoBucket
                 PROVE  Len(taken') + bucket'.tokens <= M + R * ((bucket'.lastRefill - since') \div T)
    BY <1>1 DEF RateWithinBucket, Refills, NoBucket
  <1> HIDE DEF M, R, T
  <1>5. CASE UNCHANGED <<clock, rateVars>>
    BY <1>3, <1>4, <1>5 DEF rateVars
  <1>6. CASE RateTick
    BY <1>0, <1>3, <1>4, <1>6, TickCases
  <1>7. ASSUME NEW at \in 0..clock, Peek(at)
        PROVE  Len(taken') + bucket'.tokens <= M + R * ((bucket'.lastRefill - since') \div T)
    BY <1>3, <1>4, <1>7 DEF Peek
  <1>8. ASSUME NEW take \in Nat \ {0}, NEW at \in 0..clock, Take(take, at)
        PROVE  Len(taken') + bucket'.tokens <= M + R * ((bucket'.lastRefill - since') \div T)
    <2>1. Clamped(at) \in 0..clock
      BY <1>0, <1>8, TakeCases
    <2>2. CASE FindsNone(at)
      <3>1. /\ bucket # NoBucket /\ taken' = taken /\ since' = since
            /\ bucket'.tokens = bucket.tokens
            /\ bucket'.lastRefill \in 0..clock /\ bucket.lastRefill <= bucket'.lastRefill
        BY <1>0, <1>2, <2>1, <2>2 DEF FindsNone
      <3> DEFINE x == bucket.lastRefill - since  y == bucket'.lastRefill - since
      <3>2. x \in Int /\ y \in Int /\ x <= y
        BY <1>0, <1>2, <3>1
      <3>3. Len(taken) + bucket.tokens <= M + R * (x \div T)
        BY <1>3, <3>1
      <3>4. bucket'.lastRefill - since' = y
        BY <3>1
      <3> HIDE DEF x, y
      <3>5. x \div T <= y \div T /\ x \div T \in Int /\ y \div T \in Int
        BY <1>0, <3>2, DivGrows
      <3>6. R * (x \div T) <= R * (y \div T) /\ R * (x \div T) \in Int /\ R * (y \div T) \in Int
        BY <1>0, <3>5, TimesGrows
      <3>7. Len(taken) \in Nat /\ bucket.tokens \in Nat
        BY <1>0, <1>2, <3>1
      <3> QED BY <1>0, <3>1, <3>3, <3>4, <3>6, <3>7
    <2>3. ASSUME NEW left, TakesSome(at, Refilled(take, at), left)
          PROVE  Len(taken') + bucket'.tokens <= M + R * ((bucket'.lastRefill - since') \div T)
      <3> DEFINE b == Refilled(take, at)
      <3>0. TakesSome(at, b, left)
        BY <2>3
      <3> HIDE DEF b
      <3>1. /\ b.tokens \in 0..M /\ b.lastRefill \in 0..clock /\ left \in 0..M /\ b.tokens - left \in Nat
            /\ bucket'.tokens = left /\ bucket'.lastRefill = b.lastRefill
            /\ taken' = (IF bucket = NoBucket THEN << >> ELSE taken) \o Tokens(b.tokens - left, Clamped(at))
        BY <1>0, <1>8, <2>1, <3>0, TakesSomeTypes, TakeCases DEF M
      <3>2. CASE bucket = NoBucket
        <4>1. b.tokens = M /\ b.lastRefill = at /\ since' = at
          BY <3>0, <3>2 DEF TakesSome, M
        <4>2. Len(<< >> \o Tokens(b.tokens - left, Clamped(at))) = 0 + (b.tokens - left)
          <5> DEFINE d == b.tokens - left
          <5>1. d \in Nat
            BY <3>1
          <5> HIDE DEF d
          <5>2. Len(<< >> \o Tokens(d, Clamped(at))) = d
            BY <5>1, OnlyTokens
          <5> QED BY <5>1, <5>2 DEF d
        <4>3. (0 * T) \div T = 0 /\ at - at = 0 * T /\ R * 0 = 0
          BY <1>0, DivExact
        <4> QED BY <1>0, <3>1, <3>2, <4>1, <4>2, <4>3
      <3>3. CASE bucket # NoBucket
        <4>1. /\ since' = since
              /\ \E k \in Nat : b.lastRefill = bucket.lastRefill + k * T /\ b.tokens <= bucket.tokens + R * k
          BY <3>0, <3>3 DEF TakesSome, R, T
        <4>2. PICK k \in Nat : b.lastRefill = bucket.lastRefill + k * T /\ b.tokens <= bucket.tokens + R * k
          BY <4>1
        <4> DEFINE x == bucket.lastRefill - since  n == Len(taken)
                   old == bucket.tokens  new == b.tokens
        <4>3. /\ n + old <= M + R * (x \div T) /\ new <= old + R * k
              /\ taken \in Seq(0..clock) /\ n \in Nat /\ old \in Nat /\ new \in Nat
              /\ left \in Nat /\ new - left \in Nat
          <5>1. n + old <= M + R * (x \div T) /\ new <= old + R * k
            BY <1>3, <3>3, <4>2
          <5>2. taken \in Seq(0..clock) /\ n \in Nat /\ old \in Nat
            BY <1>0, <1>2, <3>3
          <5>3. new \in Nat /\ left \in Nat /\ new - left \in Nat
            BY <1>0, <3>1
          <5> QED BY <5>1, <5>2, <5>3
        <4>4. x \in Int /\ bucket'.lastRefill - since' = x + k * T
          <5>1. bucket.lastRefill \in Int /\ since \in Int /\ k * T \in Int
            BY <1>0, <1>2, <3>3
          <5>2. bucket'.lastRefill - since' = (bucket.lastRefill + k * T) - since
            BY <3>1, <4>1, <4>2
          <5> QED BY <5>1, <5>2
        <4>5. left <= new
          BY <3>1, <4>3
        <4>6. Len(taken') = n + (new - left)
          <5>1. taken' = taken \o Tokens(new - left, Clamped(at))
            BY <3>1, <3>3
          <5> DEFINE S == 0..clock  d == new - left
          <5>2. taken \in Seq(S) /\ d \in Nat /\ Clamped(at) \in S
            BY <2>1, <4>3
          <5> HIDE DEF d, S
          <5>3. Len(taken \o Tokens(d, Clamped(at))) = Len(taken) + d
            BY <5>2, AppendTokens
          <5> QED BY <5>1, <5>3 DEF d
        <4> HIDE DEF x, n, old, new
        <4>7. n + (new - left) + left <= M + R * ((x + k * T) \div T)
          BY <1>0, <4>2, <4>3, <4>4, <4>5, RefilledArithmetic
        <4> QED BY <3>1, <4>4, <4>6, <4>7
      <3> QED BY <3>2, <3>3
    <2> QED BY <1>0, <1>8, <2>2, <2>3, TakeCases
  <1> QED BY <1>0, <1>5, <1>6, <1>7, <1>8, RateSteps

(* No step leaves an expiry that gives tokens.                             *)
LEMMA ExpiryKept ==
  ASSUME RateInv, [RateNext]_<<clock, rateVars>>
  PROVE  ExpiryIsHarmless'
  <1> DEFINE M == MaxAmount  R == RefillAmount  T == RefillTime
             Fills(n, x) == n + R * (x \div T) >= M
  <1>0. /\ RateTypeOK /\ clock \in Nat /\ args \in Arguments /\ args' = args
        /\ M \in Nat \ {0} /\ T \in Nat \ {0} /\ R \in Nat \ {0}
    BY ArgumentTypes, RateTypes DEF RateInv, RateTypeOK
  <1>1. M' = M /\ R' = R /\ T' = T
    BY <1>0 DEF MaxAmount, RefillAmount, RefillTime
  <1>2. bucket # NoBucket => Fills(bucket.tokens, dies - bucket.lastRefill)
    BY DEF RateInv, ExpiryIsHarmless, Refills
  <1>3. SUFFICES ASSUME bucket' # NoBucket
                 PROVE  Fills(bucket'.tokens, dies' - bucket'.lastRefill)
    BY <1>1 DEF ExpiryIsHarmless, Refills, NoBucket
  (* A bucket that is written now is kept for its lifetime.                *)
  <1>4. ASSUME NEW left \in 0..M, NEW x \in Int, x >= Lifetime(left)
        PROVE  Fills(left, x)
    <2> DEFINE life == Lifetime(left)
    <2>1. life \in Nat /\ life <= x /\ left + R * (life \div T) >= M
      BY <1>0, <1>4, LifetimeFills
    <2> HIDE DEF M, R, T, life
    <2>2. life \div T <= x \div T /\ life \div T \in Int /\ x \div T \in Int
      <3>1. life \div T \in Int /\ x \div T \in Int
        BY <1>0, <2>1, DivBounds
      <3> QED BY <1>0, <2>1, <3>1, DivGrows
    <2>3. R * (life \div T) <= R * (x \div T) /\ R * (life \div T) \in Int /\ R * (x \div T) \in Int
      BY <1>0, <2>2, TimesGrows
    <2>4. left \in Int
      BY <1>0
    <2> QED BY <1>0, <2>1, <2>3, <2>4
  <1> HIDE DEF M, R, T, Fills
  <1>5. CASE UNCHANGED <<clock, rateVars>>
    BY <1>2, <1>3, <1>5 DEF rateVars
  <1>6. CASE RateTick
    BY <1>0, <1>2, <1>3, <1>6, TickCases
  <1>7. ASSUME NEW at \in 0..clock, Peek(at)
        PROVE  Fills(bucket'.tokens, dies' - bucket'.lastRefill)
    BY <1>2, <1>3, <1>7 DEF Peek
  <1>8. ASSUME NEW take \in Nat \ {0}, NEW at \in 0..clock, Take(take, at)
        PROVE  Fills(bucket'.tokens, dies' - bucket'.lastRefill)
    <2>1. Clamped(at) \in 0..clock
      BY <1>0, <1>8, TakeCases
    <2>2. CASE FindsNone(at)
      <3>1. CASE args.strict
        <4>1. bucket'.tokens = 0 /\ bucket'.lastRefill = Clamped(at) /\ dies' = clock + Lifetime(0)
          BY <2>2, <3>1 DEF FindsNone
        <4>2. 0 \in 0..M
          BY <1>0
        <4>3. Lifetime(0) \in Nat
          BY <1>0, <4>2, LifetimeFills DEF M
        <4>4. dies' - bucket'.lastRefill \in Int /\ dies' - bucket'.lastRefill >= Lifetime(0)
          BY <1>0, <2>1, <4>1, <4>3
        <4> QED BY <1>4, <4>1, <4>2, <4>4
      <3>2. CASE ~args.strict
        BY <1>2, <2>2, <3>2 DEF FindsNone
      <3> QED BY <3>1, <3>2
    <2>3. ASSUME NEW left, TakesSome(at, Refilled(take, at), left)
          PROVE  Fills(bucket'.tokens, dies' - bucket'.lastRefill)
      <3> DEFINE b == Refilled(take, at)
      <3>1. /\ left \in 0..M /\ b.lastRefill \in 0..clock
            /\ bucket'.tokens = left /\ bucket'.lastRefill = b.lastRefill
        BY <1>0, <1>8, <2>1, <2>3, TakesSomeTypes, TakeCases DEF M
      <3>2. dies' = clock + Lifetime(left)
        BY <2>3 DEF TakesSome
      <3> HIDE DEF b
      <3>3. Lifetime(left) \in Nat
        BY <1>0, <3>1, LifetimeFills DEF M
      <3>4. dies' - bucket'.lastRefill \in Int /\ dies' - bucket'.lastRefill >= Lifetime(left)
        BY <1>0, <3>1, <3>2, <3>3
      <3> QED BY <1>4, <3>1, <3>4
    <2> QED BY <1>0, <1>8, <2>2, <2>3, TakeCases
  <1> QED BY <1>0, <1>5, <1>6, <1>7, <1>8, RateSteps

(* Each step keeps account of what was taken since the last refill.        *)
LEMMA RefillIsAccountedFor ==
  ASSUME RateInv, [RateNext]_<<clock, rateVars>>
  PROVE  EmptiedSinceRefill'
  <1> DEFINE R == RefillAmount
  <1>0. /\ RateTypeOK /\ clock \in Nat /\ args' = args /\ R' = R
        /\ MaxAmount \in Nat /\ R \in Nat \ {0} /\ R <= MaxAmount
    BY ArgumentTypes, RateTypes DEF RateInv, RateTypeOK, RefillAmount
  <1>1. bucket # NoBucket /\ ~args.strict =>
          bucket.tokens + Cardinality(Since(taken, bucket.lastRefill)) >= R
    BY DEF RateInv, EmptiedSinceRefill
  <1>2. SUFFICES ASSUME bucket' # NoBucket, ~args.strict
                 PROVE  bucket'.tokens + Cardinality(Since(taken', bucket'.lastRefill)) >= R
    BY <1>0 DEF EmptiedSinceRefill, NoBucket, Since
  <1>3. taken \in Seq(Int) /\ << >> \in Seq(Int)
    BY <1>0 DEF RateTypeOK
  <1> HIDE DEF R
  <1>4. CASE UNCHANGED <<clock, rateVars>>
    BY <1>1, <1>2, <1>4 DEF rateVars
  <1>5. CASE RateTick
    BY <1>0, <1>1, <1>2, <1>5, TickCases
  <1>6. ASSUME NEW at \in 0..clock, Peek(at)
        PROVE  bucket'.tokens + Cardinality(Since(taken', bucket'.lastRefill)) >= R
    BY <1>1, <1>2, <1>6 DEF Peek
  <1>7. ASSUME NEW take \in Nat \ {0}, NEW at \in 0..clock, Take(take, at)
        PROVE  bucket'.tokens + Cardinality(Since(taken', bucket'.lastRefill)) >= R
    <2>1. Clamped(at) \in 0..clock
      BY <1>0, <1>7, TakeCases
    <2>2. CASE FindsNone(at)
      BY <1>1, <1>2, <2>2 DEF FindsNone
    <2>3. ASSUME NEW left, TakesSome(at, Refilled(take, at), left)
          PROVE  bucket'.tokens + Cardinality(Since(taken', bucket'.lastRefill)) >= R
      <3> DEFINE b == Refilled(take, at)  d == b.tokens - left  now == Clamped(at)
                 s == IF bucket = NoBucket THEN << >> ELSE taken
      <3>1. /\ b.tokens \in 0..MaxAmount /\ b.lastRefill \in 0..clock /\ left \in 0..MaxAmount /\ d \in Nat
            /\ bucket'.tokens = left /\ bucket'.lastRefill = b.lastRefill
            /\ taken' = s \o Tokens(d, now)
        BY <1>0, <1>7, <2>1, <2>3, TakesSomeTypes, TakeCases
      <3>2. now \in Int /\ b.lastRefill \in Int /\ now >= b.lastRefill
        <4>1. now >= b.lastRefill
          BY Zenon, <2>3 DEF TakesSome
        <4> QED
          BY <2>1, <3>1, <4>1
      <3>3. s \in Seq(Int)
        BY <1>3
      <3>4. /\ bucket = NoBucket => b.tokens = MaxAmount
            /\ bucket # NoBucket => b = bucket \/ b.tokens >= R
        BY <2>3 DEF TakesSome, R
      <3>5. left + d = b.tokens
        BY <3>1
      <3>6. bucket # NoBucket => s = taken
        OBVIOUS
      <3> HIDE DEF b, d, now, s
      <3>7. Cardinality(Since(s \o Tokens(d, now), b.lastRefill)) = Cardinality(Since(s, b.lastRefill)) + d
        BY <3>1, <3>2, <3>3, SinceCounts
      <3>8. Cardinality(Since(s, b.lastRefill)) \in Nat
        BY <3>2, <3>3, SinceFinite
      <3>9. b.tokens + Cardinality(Since(s, b.lastRefill)) >= R
        <4>1. CASE b.tokens >= R
          BY <1>0, <3>1, <3>8, <4>1
        <4>2. CASE bucket # NoBucket /\ b = bucket
          BY <1>1, <1>2, <3>6, <4>2
        <4> QED BY <1>0, <3>4, <4>1, <4>2
      <3> QED BY <1>0, <3>1, <3>5, <3>7, <3>8, <3>9
    <2> QED BY <1>0, <1>7, <2>2, <2>3, TakeCases
  <1> QED BY <1>0, <1>4, <1>5, <1>6, <1>7, RateSteps

(* No step limits without a cause.                                         *)
LEMMA LimitedOnlyForACause ==
  ASSUME RateInv, [RateNext]_<<clock, rateVars>>
  PROVE  LimitedForACause'
  <1> DEFINE R == RefillAmount  T == RefillTime
             recent(s, at) == {i \in 1..Len(s) : s[i] > at - T}
  <1>0. /\ RateTypeOK /\ clock \in Nat /\ args' = args /\ R' = R /\ T' = T
        /\ R \in Nat \ {0} /\ T \in Nat \ {0}
    BY ArgumentTypes, RateTypes DEF RateInv, RateTypeOK, RefillAmount, RefillTime
  <1>1. ~args.strict /\ answer.take = 1 /\ answer.before = 0 =>
          Cardinality(recent(taken, answer.at)) >= R
    BY DEF RateInv, LimitedForACause
  <1>2. SUFFICES ASSUME ~args.strict, answer'.take = 1, answer'.before = 0
                 PROVE  Cardinality(recent(taken', answer'.at)) >= R
    BY <1>0 DEF LimitedForACause
  <1>3. CASE UNCHANGED <<clock, rateVars>>
    BY <1>1, <1>2, <1>3 DEF rateVars
  <1>4. CASE RateTick
    BY <1>1, <1>2, <1>4 DEF RateTick
  <1>5. ASSUME NEW at \in 0..clock, Peek(at) PROVE FALSE
    BY <1>2, <1>5 DEF Peek
  <1>6. ASSUME NEW take \in Nat \ {0}, NEW at \in 0..clock, Take(take, at)
        PROVE  Cardinality(recent(taken', answer'.at)) >= R
    <2>1. /\ Clamped(at) \in 0..clock
          /\ answer' = [take |-> take, at |-> Clamped(at), before |-> answer'.before]
      BY <1>0, <1>6, TakeCases
    <2>2. FindsNone(at)
      <3>1. ASSUME NEW left, TakesSome(at, Refilled(take, at), left) PROVE FALSE
        <4> DEFINE b == Refilled(take, at)
        <4>1. b.tokens > 0 /\ b.tokens = 0
          BY <1>2, <3>1 DEF TakesSome
        <4>2. b.tokens \in Int
          <5>1. b.tokens \in 0..MaxAmount
            BY <1>0, <1>6, <2>1, <3>1, TakesSomeTypes, TakeCases
          <5>2. MaxAmount \in Nat
            BY <1>0, ArgumentTypes DEF RateTypeOK
          <5> QED BY <5>1, <5>2
        <4> HIDE DEF b
        <4> QED BY <4>1, <4>2
      <3> QED BY <1>0, <1>6, <3>1, TakeCases
    <2> DEFINE lr == bucket.lastRefill  now == Clamped(at)
    <2>3. /\ bucket # NoBucket /\ bucket.tokens = 0 /\ taken' = taken /\ now < lr + T
          /\ lr \in Int /\ now \in Int /\ answer'.at = now
      BY <1>0, <2>1, <2>2 DEF FindsNone, RateTypeOK, T
    <2>4. taken \in Seq(Int) /\ Len(taken) \in Nat
      BY <1>0 DEF RateTypeOK
    <2>5. Cardinality(Since(taken, lr)) >= R
      <3>1. 0 + Cardinality(Since(taken, lr)) >= R
        BY <1>2, <2>3 DEF RateInv, EmptiedSinceRefill
      <3>2. Cardinality(Since(taken, lr)) \in Nat
        BY <2>3, <2>4, SinceFinite
      <3> QED BY <3>1, <3>2
    <2> HIDE DEF R, T, lr, now
    <2>6. Since(taken, lr) \in SUBSET recent(taken, now) /\ recent(taken, now) \in SUBSET (1..Len(taken))
      BY <1>0, <2>3, <2>4 DEF Since
    <2>7. IsFiniteSet(recent(taken, now))
      <3>1. IsFiniteSet(1..Len(taken))
        BY <2>4, FS_Interval
      <3> QED BY <2>6, <3>1, FS_Subset
    <2>8. Cardinality(Since(taken, lr)) <= Cardinality(recent(taken, now))
      BY <2>6, <2>7, FS_Subset
    <2>9. Cardinality(Since(taken, lr)) \in Nat /\ Cardinality(recent(taken, now)) \in Nat
      BY <2>3, <2>4, <2>7, SinceFinite, FS_CardinalityType
    <2>10. Cardinality(recent(taken, now)) >= R
      BY <1>0, <2>5, <2>8, <2>9
    <2> QED BY <2>3, <2>10
  <1> QED BY <1>0, <1>3, <1>4, <1>5, <1>6, RateSteps

(* No step fills a strict bucket early.                                    *)
LEMMA EmptyStaysEmpty ==
  ASSUME RateInv, [RateNext]_<<clock, rateVars>>
  PROVE  StaysEmpty'
  <1> DEFINE T == RefillTime
  <1>0. /\ RateTypeOK /\ clock \in Nat /\ args \in Arguments /\ args' = args /\ T' = T /\ T \in Nat \ {0}
        /\ MaxAmount \in Nat
    BY ArgumentTypes, RateTypes DEF RateInv, RateTypeOK, RefillTime
  <1>1. args.strict /\ refusedAt # Never /\ clock < refusedAt + T =>
          /\ bucket # NoBucket /\ bucket.tokens = 0 /\ bucket.lastRefill = refusedAt
          /\ dies >= refusedAt + T
          /\ ~(answer.take > 0 /\ answer.before >= answer.take)
    BY DEF RateInv, StaysEmpty, Grants
  <1> DEFINE Goal == /\ bucket' # NoBucket /\ bucket'.tokens = 0 /\ bucket'.lastRefill = refusedAt'
                     /\ dies' >= refusedAt' + T
                     /\ ~(answer'.take > 0 /\ answer'.before >= answer'.take)
  <1>2. SUFFICES ASSUME args.strict, refusedAt' # Never, clock' < refusedAt' + T
                 PROVE  Goal
    BY <1>0 DEF StaysEmpty, Grants, Never, NoBucket
  <1>3. /\ refusedAt \in Int /\ dies \in Int
        /\ bucket # NoBucket => dies # Never /\ bucket \in [tokens : 0..MaxAmount, lastRefill : 0..clock]
    BY <1>0 DEF RateTypeOK
  <1> HIDE DEF T
  <1>4. CASE UNCHANGED <<clock, rateVars>>
    BY <1>1, <1>2, <1>4 DEF rateVars
  <1>5. CASE RateTick
    <2>1. clock' = clock + 1 /\ UNCHANGED <<refusedAt, answer>>
      BY <1>0, <1>5, TickCases
    <2>2. clock < refusedAt + T /\ refusedAt # Never
      BY <1>0, <1>2, <1>3, <2>1
    <2>3. dies > clock'
      BY <1>0, <1>1, <1>2, <1>3, <2>1, <2>2
    <2>4. bucket' = bucket /\ dies' = dies
      BY <1>0, <1>3, <1>5, <2>1, <2>3, TickCases
    <2> QED BY <1>1, <1>2, <2>1, <2>2, <2>4
  <1>6. ASSUME NEW at \in 0..clock, Peek(at) PROVE Goal
    <2>1. UNCHANGED <<clock, bucket, dies, refusedAt>> /\ answer'.take = 0
      BY <1>6 DEF Peek
    <2> QED BY <1>1, <1>2, <2>1
  <1>7. ASSUME NEW take \in Nat \ {0}, NEW at \in 0..clock, Take(take, at) PROVE Goal
    <2>1. /\ Clamped(at) \in 0..clock /\ clock' = clock
          /\ answer' = [take |-> take, at |-> Clamped(at), before |-> answer'.before]
      BY <1>0, <1>7, TakeCases
    <2>2. CASE FindsNone(at)
      <3>1. /\ bucket' = [tokens |-> 0, lastRefill |-> Clamped(at)] /\ dies' = clock + Lifetime(0)
            /\ refusedAt' = Clamped(at) /\ answer'.before = 0
        BY <1>2, <2>2 DEF FindsNone
      <3>2. bucket' # NoBucket /\ bucket'.tokens = 0 /\ bucket'.lastRefill = refusedAt'
        BY <3>1, SomeBucket
      <3>3. Lifetime(0) \in Nat /\ Lifetime(0) >= T
        BY <1>0, LifetimeFills DEF T
      <3>4. dies' >= refusedAt' + T
        BY <1>0, <2>1, <3>1, <3>3
      <3>5. ~(answer'.before >= answer'.take)
        BY <2>1, <3>1
      <3> QED BY <3>2, <3>4, <3>5
    <2>3. ASSUME NEW left, TakesSome(at, Refilled(take, at), left) PROVE FALSE
      <3> DEFINE b == Refilled(take, at)
      <3>1. refusedAt' = refusedAt
        BY <2>3 DEF TakesSome
      <3>2. bucket # NoBucket /\ bucket.tokens = 0 /\ bucket.lastRefill = refusedAt /\ clock < refusedAt + T
        BY <1>1, <1>2, <2>1, <3>1
      <3>3. b.tokens > 0 /\ b.tokens \in Int /\ b.lastRefill \in 0..clock
        <4>1. b.tokens \in 0..MaxAmount /\ b.lastRefill \in 0..clock
          BY <1>0, <1>7, <2>1, <2>3, TakesSomeTypes, TakeCases
        <4>2. b.tokens > 0
          BY <2>3 DEF TakesSome
        <4> QED BY <1>0, <4>1, <4>2
      <3>4. \E k \in Nat : b.lastRefill = bucket.lastRefill + k * T /\ (k = 0 => b = bucket)
        BY <2>3, <3>2 DEF TakesSome, T
      <3> HIDE DEF b
      <3>5. PICK k \in Nat : b.lastRefill = bucket.lastRefill + k * T /\ (k = 0 => b = bucket)
        BY <3>4
      <3>6. k # 0
        BY <3>2, <3>3, <3>5
      <3>7. k * T >= T /\ k * T \in Nat
        BY <1>0, <3>6
      <3> QED BY <1>0, <1>3, <3>2, <3>3, <3>5, <3>7
    <2> QED BY <1>0, <1>7, <2>2, <2>3, TakeCases
  <1> QED BY <1>0, <1>4, <1>5, <1>6, <1>7, RateSteps

(* The invariant holds before the first call,                              *)
LEMMA RateInvInit ==
  ASSUME clock = 0, RateInit
  PROVE  RateInv
  <1>1. MaxAmount \in Nat \ {0} /\ args \in Arguments
    BY ArgumentTypes DEF RateInit
  <1>2. << >> \in Seq(0..0)
    OBVIOUS
  <1> QED BY <1>1, <1>2 DEF RateInit, RateInv, RateTypeOK, RateWithinBucket, ExpiryIsHarmless,
             EmptiedSinceRefill, LimitedForACause, StaysEmpty, NoBucket, NoAnswer, Never

(* and no step breaks it.                                                  *)
LEMMA RateInvKept ==
  ASSUME RateInv, [RateNext]_<<clock, rateVars>>
  PROVE  RateInv'
  <1>1. RateTypeOK' /\ clock' \in Nat
    BY RateTypes DEF RateInv
  <1>2. RateWithinBucket' /\ ExpiryIsHarmless' /\ EmptiedSinceRefill' /\ LimitedForACause' /\ StaysEmpty'
    BY RateKeepsBucket, ExpiryKept, RefillIsAccountedFor, LimitedOnlyForACause, EmptyStaysEmpty
  <1> QED BY <1>1, <1>2 DEF RateInv

(* The rate limiter keeps its invariant (rateLimitFetchLua.ts), whatever   *)
(* the arguments of rateLimited() are.                                     *)
THEOREM RateConsistent == RateSpec => []RateInv
  <1>1. clock = 0 /\ RateInit => RateInv
    BY RateInvInit
  <1>2. RateInv /\ [RateNext]_<<clock, rateVars>> => RateInv'
    BY RateInvKept
  <1> QED BY <1>1, <1>2, PTL DEF RateSpec

(* A bucket never gives more tokens than it was filled with and the        *)
(* refills since, however late its events come and in whatever order.      *)
THEOREM BucketNotOverdrawn == RateSpec => []RateWithinBucket
  <1>1. RateInv => RateWithinBucket
    BY DEF RateInv
  <1> QED BY <1>1, RateConsistent, PTL

(* The key expires only when its bucket was to be full, so that the expiry *)
(* that the script computes gives nobody a token.                          *)
THEOREM ExpiryGivesNothing == RateSpec => []ExpiryIsHarmless
  <1>1. RateInv => ExpiryIsHarmless
    BY DEF RateInv
  <1> QED BY <1>1, RateConsistent, PTL

(* Whoever is refused one token by a lenient rate limiter is refused       *)
(* because a whole refill was taken less than a refill time before.        *)
THEOREM NobodyLimitedWithoutCause == RateSpec => []LimitedForACause
  <1>1. RateInv => LimitedForACause
    BY DEF RateInv
  <1> QED BY <1>1, RateConsistent, PTL

(* STRICT: whoever found the bucket empty is refused for a refill time     *)
(* after the last attempt, although the key may expire.                    *)
THEOREM StrictIsStrict == RateSpec => []StrictHolds
  <1>1. RateInv => StrictHolds
    <2>1. RateInv /\ args.strict /\ refusedAt # Never /\ ~(clock >= refusedAt + RefillTime) =>
            clock < refusedAt + RefillTime
      <3>1. RateInv => clock \in Nat /\ refusedAt \in Int /\ RefillTime \in Nat
        BY ArgumentTypes DEF RateInv, RateTypeOK
      <3> QED BY <3>1
    <2> QED BY <2>1 DEF RateInv, StrictHolds, StaysEmpty
  <1> QED BY <1>1, RateConsistent, PTL

-----------------------------------------------------------------------------
(* Sessions.                                                               *)

SessSpec == clock = 0 /\ SessInit /\ [][SessNext]_<<clock, sessVars>>

(* A bucket of one token while no event is late: there is a session for    *)
(* the refill time after the last event and no longer. It is what the      *)
(* whole refill times from lastRefill, and the clock of redis, come to.    *)
OpenAsLongAsAnswered ==
  MaxAmount = 1 /\ prompt =>
    /\ kept = NoSession /\ told.at # Never => clock >= told.at + RefillTime
    /\ kept # NoSession =>
         /\ kept.tokens = 0 /\ kept.start = chain
         /\ told.at # Never /\ kept.lastRefill = told.at
         /\ keptTill = told.at + RefillTime /\ clock < keptTill

SessInv == SessTypeOK /\ clock \in Nat /\ OpenAsLongAsAnswered /\ SessionIsTheChain

(* The steps, as the proofs look at them. *)
LEMMA SessSteps ==
  ASSUME SessTypeOK, clock \in Nat, [SessNext]_<<clock, sessVars>>
  PROVE  \/ UNCHANGED <<clock, sessVars>>
         \/ SessTick
         \/ \E take \in Nat \ {0}, at \in 0..clock : Sessionize(take, at)
  <1>1. Takes \subseteq Nat
    BY ArgumentTypes DEF SessTypeOK
  <1>2. EventTimes \subseteq 0..clock
    BY DEF EventTimes
  <1>3. ASSUME NEW take \in Takes, NEW at \in EventTimes, Sessionize(take, at)
        PROVE  take \in Nat \ {0} /\ at \in 0..clock
    BY <1>1, <1>2, <1>3 DEF Sessionize
  <1> QED BY <1>3 DEF SessNext, SessionFails

(* What the script works with is a session or a full bucket; the tokens of *)
(* a late event may be fewer than none.                                    *)
LEMMA WithRefillsTypes ==
  ASSUME SessTypeOK, clock \in Nat, NEW take \in Nat \ {0}, NEW at \in 0..clock
  PROVE  LET s == WithRefills(take, at)
         IN s \in [start : -1..clock, tokens : Int, lastRefill : Int] /\ s.tokens <= MaxAmount
  <1> DEFINE r == Read(at)  n == Refills(r.lastRefill, at)
  <1>1. MaxAmount \in Nat \ {0} /\ RefillTime \in Nat \ {0} /\ RefillAmount \in Nat \ {0}
    BY ArgumentTypes DEF SessTypeOK
  <1>2. r \in [start : -1..clock, tokens : Int, lastRefill : Int] /\ r.tokens <= MaxAmount
    BY <1>1 DEF Read, SessTypeOK, Nil, Never
  <1>3. n \in Int
    <2> DEFINE gap == at - r.lastRefill
    <2>1. gap \in Int /\ n = gap \div RefillTime
      BY <1>2 DEF Refills
    <2> HIDE DEF gap, n
    <2> QED BY <1>1, <2>1, DivBounds
  <1>4. WithRefills(take, at) =
          IF r.tokens >= take THEN r
          ELSE [r EXCEPT !.lastRefill = @ + n * RefillTime,
                         !.tokens = Lesser(MaxAmount, @ + n * RefillAmount)]
    BY DEF WithRefills
  <1> HIDE DEF r, n
  <1>5. n * RefillTime \in Int /\ n * RefillAmount \in Int
    BY <1>1, <1>3
  <1>6. r.lastRefill + n * RefillTime \in Int
    BY <1>2, <1>5
  <1>7. /\ Lesser(MaxAmount, r.tokens + n * RefillAmount) \in Int
        /\ Lesser(MaxAmount, r.tokens + n * RefillAmount) <= MaxAmount
    BY <1>1, <1>2, <1>5 DEF Lesser
  <1> QED BY <1>2, <1>4, <1>6, <1>7

(* No step of a session leaves the types.                                  *)
LEMMA SessTypes ==
  ASSUME SessTypeOK, clock \in Nat, [SessNext]_<<clock, sessVars>>
  PROVE  SessTypeOK' /\ clock' \in Nat /\ args' = args
  <1>1. CASE UNCHANGED <<clock, sessVars>>
    BY <1>1 DEF SessTypeOK, sessVars, MaxAmount, NoSession
  <1>2. CASE SessTick
    <2>1. clock' = clock + 1 /\ args' = args /\ MaxAmount' = MaxAmount
      BY <1>2 DEF SessTick, PassTime, MaxAmount
    <2>2. -1..clock \subseteq -1..clock' /\ 0..clock \subseteq 0..clock' /\ clock' \in Nat
      BY <2>1
    <2>3. UNCHANGED <<told, chain, prev, prompt>>
      BY <1>2 DEF SessTick
    <2>4. \/ kept' = NoSession /\ keptTill' = Never
          \/ kept' = kept /\ keptTill' = keptTill
      BY <1>2 DEF SessTick
    <2> QED BY <2>1, <2>2, <2>3, <2>4 DEF SessTypeOK, NoSession
  <1>3. ASSUME NEW take \in Nat \ {0}, NEW at \in 0..clock, Sessionize(take, at)
        PROVE  SessTypeOK' /\ clock' \in Nat /\ args' = args
    <2> DEFINE w == WithRefills(take, at)  s == Begun(w, take, at)
    <2>1. /\ s.start # Nil /\ kept' = Extended(s, take, at)
          /\ keptTill' = clock + Lifetime(kept'.tokens)
          /\ Note(at, IF s.tokens = 0 THEN s.start ELSE Nil)
          /\ UNCHANGED <<clock, args>>
      BY <1>3 DEF Sessionize
    <2>2. MaxAmount' = MaxAmount /\ MaxAmount \in Nat \ {0} /\ args \in Arguments
      BY <2>1, ArgumentTypes DEF SessTypeOK, MaxAmount
    <2>3. w \in [start : -1..clock, tokens : Int, lastRefill : Int] /\ w.tokens <= MaxAmount
      BY WithRefillsTypes
    <2> HIDE DEF w
    <2>4. s \in [start : -1..clock, tokens : Int, lastRefill : Int] /\ s.tokens <= MaxAmount
      BY <2>3 DEF Begun
    <2> HIDE DEF s
    <2>5. s.start \in 0..clock
      BY <2>1, <2>4 DEF Nil, Never
    <2>6. Extended(s, take, at) \in [start : 0..clock, tokens : 0..MaxAmount, lastRefill : Int]
      BY <2>2, <2>4, <2>5 DEF Extended
    <2>7. Lifetime(kept'.tokens) \in Nat
      <3>1. kept'.tokens \in 0..MaxAmount
        BY <2>1, <2>6
      <3> QED BY <2>2, <3>1, LifetimeFills
    <2>8. kept' # NoSession
      <3>1. kept'.start # NoSession.start
        BY <2>1, <2>6 DEF NoSession, Never
      <3> QED BY <3>1
    <2>9. keptTill' # Never
      BY <2>1, <2>7 DEF Never
    <2>10. /\ told' \in [at : -1..clock, session : -1..clock]
           /\ chain' \in -1..clock /\ prev' \in -1..clock /\ prompt' \in BOOLEAN
      BY <2>1, <2>5 DEF Note, SessTypeOK, Nil, Never
    <2> QED BY <2>1, <2>2, <2>6, <2>8, <2>9, <2>10 DEF SessTypeOK, NoSession, Never
  <1> QED BY <1>1, <1>2, <1>3, SessSteps

(* An event that is on time and finds no session begins one, the only one  *)
(* that asks for the one token; one that finds a session extends it.       *)
LEMMA OneTokenEvent ==
  ASSUME SessInv, MaxAmount = 1, prompt, NEW take \in Nat \ {0}, Sessionize(take, clock)
  PROVE  /\ \/ kept = NoSession /\ kept' = [start |-> clock, tokens |-> 0, lastRefill |-> clock]
               /\ Note(clock, Nil)
            \/ kept # NoSession /\ kept' = [start |-> kept.start, tokens |-> 0, lastRefill |-> clock]
               /\ Note(clock, kept.start)
         /\ keptTill' = clock + RefillTime
         /\ UNCHANGED <<clock, args>>
  <1> DEFINE w == WithRefills(take, clock)  s == Begun(w, take, clock)  T == RefillTime  R == RefillAmount
  <1>1. /\ s.start # Nil /\ kept' = Extended(s, take, clock)
        /\ keptTill' = clock + Lifetime(kept'.tokens)
        /\ Note(clock, IF s.tokens = 0 THEN s.start ELSE Nil)
        /\ UNCHANGED <<clock, args>>
    BY DEF Sessionize
  <1>2. T \in Nat \ {0} /\ R = 1 /\ SessTypeOK /\ clock \in Nat
    <2>1. T \in Nat \ {0} /\ R \in Nat \ {0} /\ R <= 1 /\ SessTypeOK /\ clock \in Nat
      BY ArgumentTypes DEF SessInv, SessTypeOK
    <2> HIDE DEF T, R
    <2> QED BY <2>1
  <1>3. Lifetime(0) = T
    <2>1. Lifetime(0) = ((1 - 0 + 1 - 1) \div 1) * T
      BY <1>2 DEF Lifetime
    <2> HIDE DEF T
    <2>2. (1 - 0 + 1 - 1) \div 1 = 1
      OBVIOUS
    <2> QED BY <1>2, <2>1, <2>2
  <1>4. CASE kept = NoSession
    <2>1. Read(clock) = [start |-> Nil, tokens |-> 1, lastRefill |-> clock]
      BY <1>4 DEF Read
    <2>2. CASE take = 1
      <3>1. w = [start |-> Nil, tokens |-> 1, lastRefill |-> clock]
        BY <2>1, <2>2 DEF WithRefills
      <3>2. s = [start |-> clock, tokens |-> 1, lastRefill |-> clock]
        BY <2>2, <3>1 DEF Begun
      <3>3. kept' = [start |-> clock, tokens |-> 0, lastRefill |-> clock]
        BY <1>1, <2>2, <3>2 DEF Extended
      <3>4. Note(clock, Nil)
        BY <1>1, <3>2
      <3>5. kept'.tokens = 0
        BY <3>3
      <3> QED BY <1>1, <1>3, <1>4, <3>3, <3>4, <3>5
    <2>3. CASE take # 1
      <3>1. w.start = Nil /\ w.tokens \in Int /\ w.tokens <= 1
        <4>1. w.start = Nil
          BY <2>1 DEF WithRefills
        <4>2. w.tokens \in Int /\ w.tokens <= 1
          BY <1>2, WithRefillsTypes
        <4> QED BY <4>1, <4>2
      <3> HIDE DEF w
      <3>2. s.start = Nil
        BY <2>3, <3>1 DEF Begun
      <3> QED BY <1>1, <3>2
    <2> QED BY <2>2, <2>3
  <1>5. CASE kept # NoSession
    <2>1. /\ kept = [start |-> kept.start, tokens |-> 0, lastRefill |-> kept.lastRefill]
          /\ kept.lastRefill \in 0..clock /\ clock < kept.lastRefill + T
      BY <1>2, <1>5 DEF SessInv, OpenAsLongAsAnswered, SessTypeOK, Never
    <2>2. Refills(kept.lastRefill, clock) = 0
      <3> DEFINE gap == clock - kept.lastRefill
      <3>1. gap \in Nat /\ gap < T /\ Refills(kept.lastRefill, clock) = gap \div T
        BY <1>2, <2>1 DEF Refills
      <3> HIDE DEF gap, T
      <3>2. gap \div T = 0
        BY <1>2, <3>1
      <3> QED BY <3>1, <3>2
    <2>3. w = [start |-> kept.start, tokens |-> 0, lastRefill |-> kept.lastRefill]
      <3>1. Read(clock) = kept /\ kept.tokens = 0
        BY <1>5, <2>1 DEF Read
      <3>2. kept.lastRefill + 0 * T = kept.lastRefill /\ Lesser(MaxAmount, 0 + 0 * R) = 0
        BY <1>2, <2>1 DEF Lesser
      <3>3. w = [kept EXCEPT !.lastRefill = kept.lastRefill + 0 * T,
                             !.tokens = Lesser(MaxAmount, 0 + 0 * R)]
        <4>1. w = IF kept.tokens >= take THEN kept
                  ELSE [kept EXCEPT !.lastRefill = kept.lastRefill + Refills(kept.lastRefill, clock) * T,
                                    !.tokens = Lesser(MaxAmount, kept.tokens + Refills(kept.lastRefill, clock) * R)]
          BY <3>1 DEF WithRefills
        <4>2. ~(kept.tokens >= take)
          BY <3>1
        <4> HIDE DEF w, T, R
        <4> QED BY <2>2, <3>1, <4>1, <4>2
      <3> QED BY <2>1, <3>2, <3>3
    <2>4. s = [start |-> kept.start, tokens |-> 0, lastRefill |-> kept.lastRefill]
      BY <2>3 DEF Begun
    <2>5. kept' = [start |-> kept.start, tokens |-> 0, lastRefill |-> clock]
      BY <1>1, <2>4 DEF Extended
    <2>6. Note(clock, kept.start) /\ kept'.tokens = 0
      BY <1>1, <2>4, <2>5
    <2> QED BY <1>1, <1>3, <1>5, <2>5, <2>6
  <1> QED BY <1>4, <1>5

(* No step breaks the chain of a session.                                  *)
LEMMA SessInvKept ==
  ASSUME SessInv, [SessNext]_<<clock, sessVars>>
  PROVE  SessInv'
  <1> DEFINE T == RefillTime
  <1>0. /\ SessTypeOK /\ clock \in Nat /\ SessTypeOK' /\ clock' \in Nat /\ args' = args
        /\ T' = T /\ MaxAmount' = MaxAmount /\ T \in Nat \ {0} /\ NoSession' = NoSession
    BY SessTypes, ArgumentTypes DEF SessInv, SessTypeOK, RefillTime, MaxAmount, NoSession
  <1>1. CASE UNCHANGED <<clock, sessVars>>
    BY <1>0, <1>1 DEF SessInv, OpenAsLongAsAnswered, SessionIsTheChain, sessVars
  <1>2. CASE SessTick
    <2>1. clock' = clock + 1 /\ UNCHANGED <<told, chain, prev, prompt>>
      BY <1>2 DEF SessTick, PassTime
    <2>2. \/ kept' = NoSession /\ keptTill' = Never /\ keptTill # Never /\ keptTill <= clock'
          \/ kept' = kept /\ keptTill' = keptTill /\ (keptTill = Never \/ ~(keptTill <= clock'))
      BY <1>2 DEF SessTick, Dropped
    <2>3. OpenAsLongAsAnswered'
      <3>1. SUFFICES ASSUME MaxAmount = 1, prompt
                     PROVE  /\ kept' = NoSession /\ told.at # Never => clock' >= told.at + T
                            /\ kept' # NoSession =>
                                 /\ kept'.tokens = 0 /\ kept'.start = chain
                                 /\ told.at # Never /\ kept'.lastRefill = told.at
                                 /\ keptTill' = told.at + T /\ clock' < keptTill'
        BY <1>0, <2>1 DEF OpenAsLongAsAnswered, Never
      <3>2. told.at \in Int
        BY <1>0 DEF SessTypeOK
      <3>3. kept = NoSession <=> keptTill = Never
        BY <1>0 DEF SessTypeOK
      <3> QED BY <1>0, <2>1, <2>2, <3>1, <3>2, <3>3 DEF SessInv, OpenAsLongAsAnswered
    <2>4. SessionIsTheChain'
      BY <1>0, <2>1, <2>2 DEF SessInv, SessionIsTheChain, Never, Nil
    <2> QED BY <1>0, <2>3, <2>4 DEF SessInv
  <1>3. ASSUME NEW take \in Nat \ {0}, NEW at \in 0..clock, Sessionize(take, at)
        PROVE  SessInv'
    <2>1. CASE ~(MaxAmount = 1 /\ prompt')
      BY <1>0, <2>1 DEF SessInv, OpenAsLongAsAnswered, SessionIsTheChain
    <2>2. CASE MaxAmount = 1 /\ prompt'
      <3>1. prompt /\ at = clock
        <4>1. prompt' = (prompt /\ at = clock)
          BY <1>3 DEF Sessionize, Note
        <4> QED BY <2>2, <4>1
      <3>2. Sessionize(take, clock)
        BY <1>3, <3>1
      <3>3. /\ \/ kept = NoSession /\ kept' = [start |-> clock, tokens |-> 0, lastRefill |-> clock]
                  /\ Note(clock, Nil)
               \/ kept # NoSession /\ kept' = [start |-> kept.start, tokens |-> 0, lastRefill |-> clock]
                  /\ Note(clock, kept.start)
            /\ keptTill' = clock + T /\ clock' = clock
        BY <2>2, <3>1, <3>2, OneTokenEvent
      <3>4. kept' # NoSession
        <4>1. kept'.tokens = 0 /\ NoSession.tokens = -1
          BY <3>3 DEF NoSession, Never
        <4> QED BY <4>1
      <3>5. told.at \in Int /\ told'.at = clock /\ prev' = told.at
        BY <1>0, <3>3 DEF Note, SessTypeOK
      <3>6. /\ kept'.tokens = 0 /\ kept'.start = chain' /\ kept'.lastRefill = clock
            /\ told'.session # Nil => told'.session = chain'
            /\ told'.session = Nil /\ prev' # Never => told'.at - prev' >= T
        <4>1. CASE kept = NoSession
          <5>1. told.at # Never => clock >= told.at + T
            BY <2>2, <3>1, <4>1 DEF SessInv, OpenAsLongAsAnswered
          <5>2. chain' = clock
            BY <1>0, <3>3, <3>5, <4>1, <5>1 DEF Note
          <5> QED BY <1>0, <3>3, <3>5, <4>1, <5>1, <5>2 DEF Note
        <4>2. CASE kept # NoSession
          <5>1. kept.start = chain /\ told.at # Never /\ clock < told.at + T /\ kept.start \in 0..clock
            BY <1>0, <2>2, <3>1, <4>2 DEF SessInv, OpenAsLongAsAnswered, SessTypeOK
          <5>2. chain' = chain /\ told'.session = kept.start
            BY <1>0, <3>3, <3>5, <4>2, <5>1 DEF Note
          <5> QED BY <3>3, <4>2, <5>1, <5>2 DEF Nil, Never
        <4> QED BY <4>1, <4>2
      <3>7. OpenAsLongAsAnswered'
        <4>1. clock < keptTill' /\ clock # -1
          BY <1>0, <3>3
        <4> QED BY <1>0, <3>3, <3>4, <3>5, <3>6, <4>1 DEF OpenAsLongAsAnswered, Never
      <3>8. SessionIsTheChain'
        BY <1>0, <3>5, <3>6 DEF SessionIsTheChain, Nil, Never
      <3> QED BY <1>0, <3>7, <3>8 DEF SessInv
    <2> QED BY <2>1, <2>2
  <1> QED BY <1>0, <1>1, <1>2, <1>3, SessSteps

(* What the variables of sessionize() say of one another, for any size and *)
(* EVERY and however late events are.                                      *)
THEOREM SessionConsistent == SessSpec => []SessInv
  <1>1. clock = 0 /\ SessInit => SessInv
    BY DEF SessInit, SessInv, SessTypeOK, OpenAsLongAsAnswered, SessionIsTheChain, NoSession, Nil, Never
  <1>2. SessInv /\ [SessNext]_<<clock, sessVars>> => SessInv'
    BY SessInvKept
  <1> QED BY <1>1, <1>2, PTL DEF SessSpec

(* Sessions of a bucket of one token, EVERY any time: as long as no event  *)
(* is late, the events that follow one another within that time are told   *)
(* the session that began with the first of them, and a longer gap begins  *)
(* a new one (sessionizeLua.ts).                                           *)
THEOREM SessionsAreChains == SessSpec => []SessionIsTheChain
  <1>1. SessInv => SessionIsTheChain
    BY DEF SessInv
  <1> QED BY <1>1, SessionConsistent, PTL

=============================================================================
