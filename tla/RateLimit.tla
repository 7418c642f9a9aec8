------------------------------ MODULE RateLimit ------------------------------
(***************************************************************************)
(* One token bucket of the rate limiter: the script redis runs for         *)
(* rateLimitFetch (rateLimitFetchLua.ts), the key that expires, and what   *)
(* rateLimited() makes of the answer.                                      *)
(*                                                                         *)
(* A script runs at one moment of the clock of redis, but for an event of  *)
(* an earlier one: SqrlClock is taken when the execution starts or comes   *)
(* with the event, so that events arrive late and out of order. A bucket   *)
(* is refilled only when it does not hold what is asked for.               *)
(***************************************************************************)
EXTENDS TokenBucket, Sequences, FiniteSets

VARIABLES
  bucket,    (* the value of the key, or NoBucket                            *)
  dies,      (* when the key is dropped                                      *)
  since,     (* history: the event that created the bucket                   *)
  taken,     (* history: the event of every token taken from the bucket      *)
  refusedAt, (* history: the last event that found the bucket empty              *)
  answer     (* history: the last call and what it was told                  *)

rateVars == <<args, bucket, dies, since, taken, refusedAt, answer>>

NoBucket == [tokens |-> -1, lastRefill |-> -1]
NoAnswer == [take |-> 0, at |-> Never, before |-> MaxAmount]

(* What the script works with: a key that is missing is a full bucket. *)
Opened(at) ==
  IF bucket = NoBucket THEN [tokens |-> MaxAmount, lastRefill |-> at] ELSE bucket

(* Faulty variant of Clamped: an event may be older than the last refill.  *)
Clamped_Off(at) == at

(* if lastRefill > at then at = lastRefill *)
Clamped(at) ==
  IF Opened(at).lastRefill > at THEN Opened(at).lastRefill ELSE at

(* Faulty variant of Refilled: the bucket overflows.                       *)
Refilled_Overflows(take, at) ==
  LET b == Opened(at)
      refills == Refills(b.lastRefill, Clamped(at))
  IN IF b.tokens >= take THEN b
     ELSE [tokens     |-> b.tokens + refills * RefillAmount,
           lastRefill |-> b.lastRefill + refills * RefillTime]

(* Faulty variant of Refilled: what is left of a period is lost.           *)
Refilled_FromNow(take, at) ==
  LET b == Opened(at)
      refills == Refills(b.lastRefill, Clamped(at))
  IN IF b.tokens >= take THEN b
     ELSE [tokens     |-> Lesser(MaxAmount, b.tokens + refills * RefillAmount),
           lastRefill |-> Clamped(at)]

(* The bucket with the refills that are due, unless it holds enough. *)
Refilled(take, at) ==
  LET b == Opened(at)
      refills == Refills(b.lastRefill, Clamped(at))
  IN IF b.tokens >= take THEN b
     ELSE [tokens     |-> Lesser(MaxAmount, b.tokens + refills * RefillAmount),
           lastRefill |-> b.lastRefill + refills * RefillTime]

(* Faulty variant of Emptied: STRICT does not start the period anew.       *)
Emptied_Lenient(b, at) == IF args.strict THEN b ELSE bucket

(* An empty bucket: STRICT starts its period anew, otherwise nothing is    *)
(* written (what was due had been added, so that nothing was due).         *)
Emptied(b, at) == IF args.strict THEN [b EXCEPT !.lastRefill = at] ELSE bucket

Taken(b, take) == [b EXCEPT !.tokens = IF @ > take THEN @ - take ELSE 0]

RateInit ==
  /\ args \in Arguments
  /\ bucket = NoBucket
  /\ dies = Never
  /\ since = Never
  /\ taken = << >>
  /\ refusedAt = Never
  /\ answer = NoAnswer

-----------------------------------------------------------------------------
(* take == 0: the tokens are reported as they are stored. *)
Peek(at) ==
  /\ answer' = [take |-> 0, at |-> Clamped(at), before |-> Opened(at).tokens]
  /\ UNCHANGED <<clock, args, bucket, dies, since, taken, refusedAt>>

(* rateLimited() compares what was there with what was asked for. *)
Grants(before, take) == before >= take

(* The script for take > 0. *)
Take(take, at) ==
  LET b   == Refilled(take, at)
      now == Clamped(at)
  IN /\ bucket' = IF b.tokens = 0 THEN Emptied(b, now) ELSE Taken(b, take)
     /\ dies' = IF b.tokens = 0 /\ ~args.strict THEN dies
                ELSE clock + Lifetime(bucket'.tokens)
     /\ since' = IF bucket = NoBucket THEN at ELSE since
     /\ taken' = (IF bucket = NoBucket THEN << >> ELSE taken)
                   \o [i \in 1..(b.tokens - bucket'.tokens) |-> now]
     /\ refusedAt' = IF b.tokens = 0 THEN now ELSE refusedAt
     /\ answer' = [take |-> take, at |-> now, before |-> b.tokens]
     /\ UNCHANGED <<clock, args>>

RateFetch(take, at) == IF take = 0 THEN Peek(at) ELSE Take(take, at)

RateTick ==
  /\ PassTime
  /\ IF Dropped(dies)
       THEN bucket' = NoBucket /\ dies' = Never
       ELSE UNCHANGED <<bucket, dies>>
  /\ UNCHANGED <<args, since, taken, refusedAt, answer>>

RateNext ==
  \/ RateTick
  \/ \E take \in Takes, at \in EventTimes : RateFetch(take, at)

-----------------------------------------------------------------------------
(* The types of the fields. *)
RateTypeOK ==
  /\ args \in Arguments
  /\ bucket \in [tokens : 0..MaxAmount, lastRefill : 0..clock] \union {NoBucket}
  /\ dies \in Int
  /\ bucket = NoBucket <=> dies = Never
  /\ since \in -1..clock
  /\ taken \in Seq(0..clock)
  /\ refusedAt \in -1..clock
  /\ answer \in [take : Nat, at : -1..clock, before : 0..MaxAmount]

(* However late and in whatever order events arrive, a bucket never gives  *)
(* more than it was filled with and the refills since then; the tokens that*)
(* a refused call takes are gone as well.                                  *)
RateWithinBucket ==
  bucket # NoBucket =>
    Len(taken) + bucket.tokens
      <= MaxAmount + RefillAmount * Refills(since, bucket.lastRefill)

(* A key is dropped by the clock of redis, its tokens come by the clocks of*)
(* the events; still a key is dropped only when the bucket was to be full. *)
ExpiryIsHarmless ==
  bucket # NoBucket =>
    bucket.tokens + RefillAmount * Refills(bucket.lastRefill, dies) >= MaxAmount

(* Nobody is limited without cause (ratelimit.md:20, "the first three      *)
(* events will not be ratelimited"): when one token is refused, as many as *)
(* a refill adds were taken less than a refill time before.                *)
LimitedForACause ==
  ~args.strict /\ answer.take = 1 /\ answer.before = 0 =>
    Cardinality({i \in 1..Len(taken) : taken[i] > answer.at - RefillTime}) >= RefillAmount

(* STRICT (ratelimit.md:113): whoever was refused is refused until a whole *)
(* refill time has passed without another attempt, whatever events come    *)
(* late and although the key expires meanwhile. (Refused with an empty  *)
(* bucket: a call that asks for more than is left empties it, and does not *)
(* start the time anew.)                                                   *)
StrictHolds ==
  args.strict /\ refusedAt # Never /\ answer.take > 0 /\ Grants(answer.before, answer.take) =>
    clock >= refusedAt + RefillTime

(* ratelimit.md:20 says MAX is "the maximum number of actions allowed      *)
(* during the time period": the periods are those the bucket is reset in.  *)
MaxPerPeriod ==
  \A k \in 0..Horizon :
    Cardinality({i \in 1..Len(taken) : (taken[i] - since) \div RefillTime = k}) <= MaxAmount

=============================================================================
