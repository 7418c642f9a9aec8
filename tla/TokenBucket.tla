----------------------------- MODULE TokenBucket -----------------------------
(***************************************************************************)
(* The arithmetic the scripts rateLimitFetch and sessionize share: a key   *)
(* holds a number of tokens and the time of its last refill; a key that is *)
(* missing is a full bucket, and a key is kept no longer than it takes its *)
(* bucket to become full.                                                  *)
(***************************************************************************)
EXTENDS Redis

CONSTANT Arguments  (* what rulesets may ask for, see ArgumentsAssumption *)

(* MAX tokens, EVERY so long REFILL of them are added; TAKE some: none     *)
(* where WHERE does not hold or SqrlMutate is false.                       *)
ASSUME ArgumentsAssumption ==
  \A a \in Arguments :
    /\ a.max \in Nat \ {0} /\ a.every \in Nat \ {0} /\ a.refill \in 1..a.max
    /\ a.takes \subseteq Nat
    /\ a.strict \in BOOLEAN

VARIABLE args  (* what the ruleset does ask for *)

MaxAmount    == args.max
RefillTime   == args.every
RefillAmount == args.refill
Takes        == args.takes

Lesser(m, n) == IF m < n THEN m ELSE n

(* The whole periods from the last refill to now; fewer than none if now   *)
(* is earlier.                                                             *)
Refills(lastRefill, now) == (now - lastRefill) \div RefillTime

(* Faulty variant of Lifetime: rounds down.                                *)
Lifetime_Floor(tokens) == ((MaxAmount - tokens) \div RefillAmount) * RefillTime

(* The time in which a bucket becomes full, in whole refills. *)
Lifetime(tokens) ==
  ((MaxAmount - tokens + RefillAmount - 1) \div RefillAmount) * RefillTime

=============================================================================
