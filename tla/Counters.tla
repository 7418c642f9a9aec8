------------------------------- MODULE Counters -------------------------------
(***************************************************************************)
(* One counter, count() or countUnique(): the events of a window are kept  *)
(* in buckets, one redis key each, that are dropped when the window has    *)
(* passed them. An execution that mutates bumps the bucket of its event in *)
(* each window the ruleset asks for: INCRBY or PFADD, then EXPIRE.         *)
(*                                                                         *)
(* A bucket is the set of the events in it; the number redis holds for     *)
(* count() is the sum of their amounts, the set it holds for countUnique() *)
(* that of their elements. The ruleset counts over one unit of time and    *)
(* over two (DAY OVER DAY subtracts one from the other), or without a      *)
(* window (TOTAL).                                                         *)
(***************************************************************************)
EXTENDS Redis, FiniteSets, FiniteSetsExt, Functions

CONSTANTS
  Bumps,       (* the executions that bump the counter                       *)
  Amount,      (* by how much: 1, or the SUM feature of each                 *)
  Element,     (* the unique element each of them counts                     *)
  Short,       (* LAST DAY, say                                              *)
  NumBuckets,  (* NUM_BUCKETS                                                *)
  Second,      (* expiries are in whole seconds                              *)
  TotalTtl     (* TOTAL_COUNT_EXPIRY_SEC                                     *)

Long == 2 * Short
Total == 0

(* The windows of DAY OVER DAY, and of TOTAL. *)
Rulesets == {{Short, Long}, {Total}}
Windows == UNION Rulesets

ASSUME CountersAssumption ==
  /\ IsFiniteSet(Bumps)
  /\ Amount \in [Bumps -> Nat \ {0}]
  /\ NumBuckets \in Nat \ {0} /\ Second \in Nat \ {0} /\ TotalTtl \in Nat
  /\ Short \in Nat \ {0} /\ Short % NumBuckets = 0

(* What EXPIRE grants outlasts the late events (see the README).           *)
ASSUME LagAssumption == MaxLag < Short \div NumBuckets

VARIABLES
  asked,     (* the windows the ruleset counts over                          *)
  bumpAt,    (* SqrlClock of each execution                                  *)
  stage,     (* how far each execution's bump of each window is              *)
  inBucket,  (* the events in each key                                       *)
  keyTill,   (* when each key is dropped                                     *)
  bumped     (* history: the events whose bump took effect                   *)

countVars == <<asked, bumpAt, stage, inBucket, keyTill, bumped>>

BucketSize(w) == w \div NumBuckets

(* getBucketTimeForTimeMs(); the count without a window has one key. *)
BucketOf(w, t) == IF w = Total THEN 0 ELSE t - (t % BucketSize(w))

WindowStart(w, t) == t - w

(* Faulty variant of BucketLife: a key lives as long as its window.        *)
BucketLife_Window(w) == IF w = Total THEN TotalTtl ELSE w

(* getCurrentBucketExpirySeconds(), in units of the clock. *)
BucketLife(w) ==
  IF w = Total THEN TotalTtl
  ELSE ((w + BucketSize(w) + Second - 1) \div Second) * Second

Keys == {<<w, BucketOf(w, t)>> : w \in Windows, t \in 0..Horizon}

(* getAllBucketKeys(): one more than NUM_BUCKETS. *)
BucketsOf(w, t) ==
  IF w = Total THEN {0}
  ELSE {BucketOf(w, WindowStart(w, t)) + i * BucketSize(w) : i \in 0..NumBuckets}

CountInit ==
  /\ asked \in Rulesets
  /\ bumpAt = [e \in Bumps |-> Never]
  /\ stage = [e \in Bumps |-> [w \in Windows |-> "idle"]]
  /\ inBucket = [k \in Keys |-> {}]
  /\ keyTill = [k \in Keys |-> Never]
  /\ bumped = [w \in Windows |-> {}]

-----------------------------------------------------------------------------
KeyOf(e, w) == <<w, BucketOf(w, bumpAt[e])>>

(* The execution has ended and its callbacks run; where WHERE does not     *)
(* hold _bumpCount() registers none.                                       *)
Mutate(e) ==
  /\ bumpAt[e] = Never
  /\ \E at \in EventTimes : bumpAt' = [bumpAt EXCEPT ![e] = at]
  /\ stage' = [stage EXCEPT ![e] = [w \in Windows |-> IF w \in asked THEN "bump" ELSE "idle"]]
  /\ UNCHANGED <<clock, asked, inBucket, keyTill, bumped>>

(* INCRBY or PFADD; a new key has no expiry yet. *)
Bump(e, w) ==
  /\ stage[e][w] = "bump"
  /\ inBucket' = [inBucket EXCEPT ![KeyOf(e, w)] = @ \union {e}]
  /\ bumped' = [bumped EXCEPT ![w] = @ \union {e}]
  /\ stage' = [stage EXCEPT ![e][w] = "expire"]
  /\ UNCHANGED <<clock, asked, bumpAt, keyTill>>

(* Faulty variant of ExpireKey: only the first bump of a key sets it.      *)
ExpireKey_IfFirst(e, w) ==
  LET k == KeyOf(e, w)
  IN /\ stage[e][w] = "expire"
     /\ keyTill' = IF inBucket[k] # {e} THEN keyTill
                   ELSE [keyTill EXCEPT ![k] = clock + BucketLife(w)]
     /\ stage' = [stage EXCEPT ![e][w] = "done"]
     /\ UNCHANGED <<clock, asked, bumpAt, inBucket, bumped>>

(* EXPIRE; it does nothing to a key that was dropped meanwhile. *)
ExpireKey(e, w) ==
  LET k == KeyOf(e, w)
  IN /\ stage[e][w] = "expire"
     /\ keyTill' = IF inBucket[k] = {} THEN keyTill
                   ELSE [keyTill EXCEPT ![k] = clock + BucketLife(w)]
     /\ stage' = [stage EXCEPT ![e][w] = "done"]
     /\ UNCHANGED <<clock, asked, bumpAt, inBucket, bumped>>

(* A command is not answered, and was not executed. count() sends both      *)
(* without waiting for the first, so that the EXPIRE may come alone.       *)
BumpFails(e, w) ==
  /\ stage[e][w] \in {"bump", "expire"}
  /\ \E to \in (IF stage[e][w] = "bump" THEN {"done", "expire"} ELSE {"failed"}) :
       stage' = [stage EXCEPT ![e][w] = to]
  /\ UNCHANGED <<clock, asked, bumpAt, inBucket, keyTill, bumped>>

(* A command is answered in time: redis hears of an event within MaxLag,   *)
(* and the EXPIRE follows within a moment.                                 *)
InTime(e, w) ==
  /\ stage[e][w] = "bump" => clock < bumpAt[e] + MaxLag
  /\ stage[e][w] = "expire" => clock <= bumpAt[e] + MaxLag

(* A key that is empty is none. *)
CountTick ==
  /\ PassTime
  /\ \A e \in Bumps, w \in asked : InTime(e, w)
  /\ LET due == {k \in Keys : Dropped(keyTill[k])}
     IN /\ inBucket' = [k \in Keys |-> IF k \in due THEN {} ELSE inBucket[k]]
        /\ keyTill' = [k \in Keys |-> IF k \in due THEN Never ELSE keyTill[k]]
  /\ UNCHANGED <<asked, bumpAt, stage, bumped>>

CountNext ==
  \/ CountTick
  \/ \E e \in Bumps :
       \/ Mutate(e)
       \/ \E w \in Windows : Bump(e, w) \/ ExpireKey(e, w) \/ BumpFails(e, w)

-----------------------------------------------------------------------------
(* What an execution at time t reads.                                      *)
Held(w, b) == IF <<w, b>> \in Keys THEN inBucket[<<w, b>>] ELSE {}

Sum(S) == SumFunctionOnSet(Amount, S)

(* The part of the first bucket that is before the window. *)
Excluded(w, t) == WindowStart(w, t) - BucketOf(w, WindowStart(w, t))

(* RedisCountService.fetch(): the first bucket is reduced in proportion to *)
(* the part of it that is in the window, and the sum rounded.              *)
Estimate(w, t) ==
  IF w = Total THEN Sum(Held(w, 0))
  ELSE LET size  == BucketSize(w)
           first == BucketOf(w, WindowStart(w, t))
           rest  == Sum(UNION {Held(w, b) : b \in BucketsOf(w, t) \ {first}})
       IN (2 * (Sum(Held(w, first)) * (size - Excluded(w, t)) + size * rest) + size) \div (2 * size)

(* count() LAST w: with the event itself if it is being classified. *)
ClassifyCount(w, t, own) == own + Max({0, Estimate(w, t)})

(* The count of the window before: previousLastDay, null if negative. *)
NoCount == -1
PreviousCount(t, own) ==
  LET previous == ClassifyCount(Long, t, own) - ClassifyCount(Short, t, own)
  IN IF previous < 0 THEN NoCount ELSE previous

(* RedisApproxCountUnique.fetchCounts(): the union of all the buckets. *)
UniqueElements(w, t) ==
  {Element[e] : e \in UNION {Held(w, b) : b \in BucketsOf(w, t)}}

(* RedisCountUnique.getHashes(): a list with the exact times. *)
ListedElements(w, windowStart) ==
  {Element[e] : e \in {d \in bumped[w] : bumpAt[d] >= windowStart}}

-----------------------------------------------------------------------------
(* The types of the variables. *)
CountTypeOK ==
  /\ asked \in Rulesets
  /\ bumpAt \in [Bumps -> -1..clock]
  /\ stage \in [Bumps -> [Windows -> {"idle", "bump", "expire", "done", "failed"}]]
  /\ inBucket \in [Keys -> SUBSET Bumps]
  /\ keyTill \in [Keys -> Int]
  /\ bumped \in [Windows -> SUBSET Bumps]

(* The events of the buckets that are wholly in the window at time t, and  *)
(* of those that are at least partly in it.                                *)
InWholeBuckets(w, t) ==
  {e \in bumped[w] : BucketOf(w, bumpAt[e]) \in WindowStart(w, t)..BucketOf(w, t)}
InAnyBucket(w, t) ==
  {e \in bumped[w] :
     BucketOf(w, bumpAt[e]) \in (WindowStart(w, t) - BucketSize(w) + 1)..BucketOf(w, t)}

(* A sliding count is right up to the bucket the window begins in, however *)
(* bumps race with one another, fail between their two commands or come    *)
(* late, and wherever the keys expire meanwhile: no event of the rest of   *)
(* the window is missing, none from before that bucket is counted.         *)
CountWithinABucket ==
  \A w \in asked \ {Total}, t \in EventTimes :
    Estimate(w, t) \in Sum(InWholeBuckets(w, t))..Sum(InAnyBucket(w, t))

(* The approximate unique count of an execution that is on time misses no  *)
(* element the exact one counts, and counts none that was last seen more   *)
(* than a bucket before the window.                                        *)
UniqueCoversList ==
  \A w \in asked \ {Total} :
    /\ ListedElements(w, WindowStart(w, clock)) \subseteq UniqueElements(w, clock)
    /\ UniqueElements(w, clock)
         \subseteq ListedElements(w, WindowStart(w, clock) - BucketSize(w))

(* DAY OVER DAY and its like: the count of the window before, got by       *)
(* subtracting two counts whose buckets are of different size, is the      *)
(* number of events in it when buckets begin where the windows do and no   *)
(* event has reached only one of the two counts.                           *)
PreviousIsExact ==
  /\ asked = {Short, Long}
  /\ clock % BucketSize(Long) = 0
  /\ bumped[Short] = bumped[Long]
  =>
  \A own \in {0, 1} :
    PreviousCount(clock, own) =
      Sum({e \in bumped[Long] : bumpAt[e] \in (clock - Long)..(clock - Short - 1)})

(* What executions read of a counter is right, in all three ways of        *)
(* reading it.                                                             *)
CountersAreRight == CountWithinABucket /\ UniqueCoversList /\ PreviousIsExact

(* No counter stays in redis for ever: a key without an expiry belongs to  *)
(* a bump that is between its two commands, or failed there.               *)
KeysExpire ==
  \A k \in Keys :
    inBucket[k] # {} /\ keyTill[k] = Never =>
      \E e \in Bumps : KeyOf(e, k[1]) = k /\ stage[e][k[1]] \in {"expire", "failed"}

=============================================================================
