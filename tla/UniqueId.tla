------------------------------- MODULE UniqueId -------------------------------
(***************************************************************************)
(* How an entity gets its id (RedisUniqueIdService): any number of fetches,*)
(* in any number of processes, look the entity up, make a new id of the    *)
(* current millisecond and a counter redis keeps for it, and save it       *)
(* unless somebody else was faster.                                        *)
(*                                                                         *)
(* A redis command takes effect at one moment between being sent and being *)
(* answered; the moments of other fetches fall in between. Its answer may  *)
(* be lost after it took effect: the client gives up, or it sends the      *)
(* command again.                                                          *)
(***************************************************************************)
EXTENDS Redis, FiniteSets

CONSTANTS
  Fetches,        (* the calls of fetch()                                    *)
  Entities,       (* the (type, key) pairs                                   *)
  Wants,          (* the entity each call asks for                           *)
  Unreliable,     (* the calls whose connection to redis may break           *)
  Skew,           (* how far the clock of each caller is ahead of redis      *)
  MaxDelay,       (* how long an INCR may be under way                       *)
  Ttl,            (* the seconds expire() gives the counters                 *)
  RemainderSize   (* REMAINDER_SIZE                                          *)

ASSUME UniqueIdAssumption ==
  /\ Wants \in [Fetches -> Entities]
  /\ Unreliable \subseteq Fetches
  /\ Skew \in [Fetches -> Int]
  /\ MaxDelay \in Nat /\ Ttl \in Nat /\ RemainderSize \in Nat

(* The last INCR of a millisecond arrives before the first one's TTL ends. *)
ASSUME ClocksAgree ==
  \A f, g \in Fetches : Skew[f] - Skew[g] + MaxDelay < Ttl

VARIABLES
  at,       (* where each fetch is                                           *)
  timeMs,   (* the millisecond each fetch took for its id                    *)
  own,      (* the id each fetch made                                        *)
  result,   (* the id each fetch returned                                    *)
  saved,    (* the ids in redis                                              *)
  counter,  (* the counters in redis, 0 where there is none                  *)
  expires   (* when a counter is dropped                                     *)

idVars == <<clock, at, timeMs, own, result, saved, counter, expires>>

NoId  == [timeMs |-> 0, remainder |-> 0]

Stages ==
  {"start", "create", "increment", "expire", "set", "answer", "reread", "done", "failed"}

(* The milliseconds a clock can show. *)
Times == {c + s : c \in 0..Horizon, s \in {Skew[f] : f \in Fetches}}

(* An id is the pair that is stored; the remainder is never zero. *)
Ids == [timeMs : Times, remainder : 1..RemainderSize - 1]

Init ==
  /\ clock = 0
  /\ at = [f \in Fetches |-> "start"]
  /\ timeMs = [f \in Fetches |-> 0]
  /\ own = [f \in Fetches |-> NoId]
  /\ result = [f \in Fetches |-> NoId]
  /\ saved = [e \in Entities |-> NoId]
  /\ counter = [t \in Times |-> 0]
  /\ expires = [t \in Times |-> Never]

-----------------------------------------------------------------------------
Return(f, id) ==
  /\ at' = [at EXCEPT ![f] = "done"]
  /\ result' = [result EXCEPT ![f] = id]

(* GET of a saved id. *)
Find(f) ==
  /\ at[f] = "start"
  /\ saved[Wants[f]] # NoId
  /\ Return(f, saved[Wants[f]])
  /\ UNCHANGED <<clock, timeMs, own, saved, counter, expires>>

(* GET found nothing. *)
Miss(f) ==
  /\ at[f] = "start"
  /\ saved[Wants[f]] = NoId
  /\ at' = [at EXCEPT ![f] = "create"]
  /\ UNCHANGED <<clock, timeMs, own, result, saved, counter, expires>>

(* Its answer arrives: getTimeMs() is called and the INCR is sent. *)
Create(f) ==
  /\ at[f] = "create"
  /\ at' = [at EXCEPT ![f] = "increment"]
  /\ timeMs' = [timeMs EXCEPT ![f] = clock + Skew[f]]
  /\ UNCHANGED <<clock, own, result, saved, counter, expires>>

(* Faulty variant of Increment: the id takes the time from a second call.  *)
Increment_SecondClock(f) ==
  LET t == timeMs[f]
  IN /\ at[f] = "increment"
     /\ counter[t] + 1 < RemainderSize
     /\ counter' = [counter EXCEPT ![t] = @ + 1]
     /\ own' = [own EXCEPT ![f] = [timeMs |-> clock + Skew[f], remainder |-> counter[t] + 1]]
     /\ at' = [at EXCEPT ![f] = "expire"]
     /\ UNCHANGED <<clock, timeMs, result, saved, expires>>

(* INCR of the counter of the millisecond; an id that does not fit fails   *)
(* the invariant in the constructor of SimpleId.                           *)
Increment(f) ==
  LET t == timeMs[f]
  IN /\ at[f] = "increment"
     /\ counter' = [counter EXCEPT ![t] = @ + 1]
     /\ IF counter[t] + 1 < RemainderSize
          THEN /\ own' = [own EXCEPT ![f] = [timeMs |-> t, remainder |-> counter[t] + 1]]
               /\ at' = [at EXCEPT ![f] = "expire"]
          ELSE /\ at' = [at EXCEPT ![f] = "failed"]
               /\ UNCHANGED own
     /\ UNCHANGED <<clock, timeMs, result, saved, expires>>

(* EXPIRE, sent together with the INCR and awaited together with it. *)
Expire(f) ==
  /\ at[f] = "expire"
  /\ at' = [at EXCEPT ![f] = "set"]
  /\ expires' = IF counter[timeMs[f]] = 0 THEN expires
                ELSE [expires EXCEPT ![timeMs[f]] = clock + Ttl]
  /\ UNCHANGED <<clock, timeMs, own, result, saved, counter>>

(* Faulty variant of Save: the answer of SET NX is not looked at. *)
Save_KeepsOwn(f) ==
  /\ at[f] = "set"
  /\ saved' = IF saved[Wants[f]] = NoId THEN [saved EXCEPT ![Wants[f]] = own[f]] ELSE saved
  /\ at' = [at EXCEPT ![f] = "answer"]
  /\ UNCHANGED <<clock, timeMs, own, result, counter, expires>>

(* SET NX: the first one to save an id for the entity wins. From now on    *)
(* the id is the entity's, though the fetch does not know it yet.          *)
Save(f) ==
  /\ at[f] = "set"
  /\ IF saved[Wants[f]] = NoId
       THEN /\ saved' = [saved EXCEPT ![Wants[f]] = own[f]]
            /\ at' = [at EXCEPT ![f] = "answer"]
       ELSE /\ at' = [at EXCEPT ![f] = "reread"]
            /\ UNCHANGED saved
  /\ UNCHANGED <<clock, timeMs, own, result, counter, expires>>

(* The answer of the SET NX that won. *)
Saved(f) ==
  /\ at[f] = "answer"
  /\ Return(f, own[f])
  /\ UNCHANGED <<clock, timeMs, own, saved, counter, expires>>

(* That answer is lost and the client sends the command again: it finds    *)
(* the key set, by itself. (An INCR that is sent again counts twice, which *)
(* to the others is the INCR of one more fetch, one that fails.)           *)
Resend(f) ==
  /\ f \in Unreliable
  /\ at[f] = "answer"
  /\ at' = [at EXCEPT ![f] = "reread"]
  /\ UNCHANGED <<clock, timeMs, own, result, saved, counter, expires>>

(* GET of the id of whoever was faster, or of the fetch's own SET NX if    *)
(* that was sent twice.                                                    *)
Reread(f) ==
  /\ at[f] = "reread"
  /\ Return(f, saved[Wants[f]])
  /\ UNCHANGED <<clock, timeMs, own, saved, counter, expires>>

(* A command that is not answered rejects the fetch, wherever it is. It    *)
(* may have been executed: the counter is counted up, and after the SET NX *)
(* ("answer") the entity has an id that nobody was told.                   *)
Fail(f) ==
  /\ f \in Unreliable
  /\ at[f] \in Stages \ {"done", "failed"}
  /\ at' = [at EXCEPT ![f] = "failed"]
  /\ UNCHANGED <<clock, timeMs, own, result, saved, counter, expires>>

(* Time passes, and redis drops the counters that are due; an INCR that is *)
(* under way arrives within MaxDelay.                                      *)
Tick ==
  /\ clock < Horizon
  /\ \A f \in Fetches : at[f] = "increment" => clock - (timeMs[f] - Skew[f]) < MaxDelay
  /\ clock' = clock + 1
  /\ LET due == {t \in Times : expires[t] # Never /\ expires[t] <= clock'}
     IN /\ counter' = [t \in Times |-> IF t \in due THEN 0 ELSE counter[t]]
        /\ expires' = [t \in Times |-> IF t \in due THEN Never ELSE expires[t]]
  /\ UNCHANGED <<at, timeMs, own, result, saved>>

Step(f) ==
  \/ Find(f) \/ Miss(f) \/ Create(f) \/ Increment(f) \/ Expire(f)
  \/ Save(f) \/ Saved(f) \/ Reread(f) \/ Resend(f) \/ Fail(f)

Next == Tick \/ \E f \in Fetches : Step(f)

Spec == Init /\ [][Next]_idVars

-----------------------------------------------------------------------------
(* The types of the variables. *)
IdTypeOK ==
  /\ clock \in 0..Horizon
  /\ at \in [Fetches -> Stages]
  /\ timeMs \in [Fetches -> Times \union {0}]
  /\ own \in [Fetches -> Ids \union {NoId}]
  /\ result \in [Fetches -> Ids \union {NoId}]
  /\ saved \in [Entities -> Ids \union {NoId}]
  /\ counter \in [Times -> Nat]
  /\ expires \in [Times -> Int]

(* Every reference to an entity gets the same id (unique.md:33), whichever *)
(* fetch saved it and however the others raced with it: what a fetch       *)
(* returned is what redis holds. In particular the second GET of a fetch   *)
(* that lost the race finds an id ("Set failed - expected race condition"),*)
(* and a fetch whose SET NX won finds its own when it is answered.         *)
SameIdForAll ==
  \A f \in Fetches :
    /\ at[f] = "done" => result[f] = saved[Wants[f]] /\ result[f] # NoId
    /\ at[f] = "answer" => own[f] = saved[Wants[f]]
    /\ at[f] \in {"answer", "reread"} => saved[Wants[f]] # NoId

(* The id of an entity is stable: once saved it never changes. *)
IdIsStable == [][\A e \in Entities : saved[e] # NoId => saved'[e] = saved[e]]_idVars

(* No two entities share an id, although the counters that tell apart the  *)
(* ids of one millisecond are dropped after a second and callers read      *)
(* different clocks.                                                       *)
IdsAreUnique ==
  \A d, e \in Entities : saved[d] = saved[e] /\ saved[d] # NoId => d = e

(* Redis, counters and clocks implement an allocator that gives an entity  *)
(* its id at one moment (the SET NX that wins), known to the caller or not,*)
(* and tells it to every call that is answered: an id that nobody had,     *)
(* once, and never another one.                                            *)
Allocator == INSTANCE IdAllocator WITH Calls <- Fetches, idOf <- saved, told <- result

ImplementsAllocator == Allocator!Spec

(***************************************************************************)
(* What the proofs need beyond that: what each stage of a fetch knows.     *)
(***************************************************************************)
(* A fetch has an id from its INCR on, and took the time no later than now.*)
StageOK(f) ==
  /\ at[f] \in {"start", "create", "increment"} => own[f] = NoId
  /\ at[f] \in {"expire", "set"} => own[f] # NoId
  /\ at[f] \in {"increment", "expire"} => timeMs[f] \in Times /\ timeMs[f] <= clock + Skew[f]
  /\ at[f] = "increment" => clock <= timeMs[f] - Skew[f] + MaxDelay

(* An INCR of millisecond t may still arrive. *)
Open(t) == \E f \in Fetches : clock <= t - Skew[f] + MaxDelay

(* The counter of an open millisecond has counted every id made in it; it  *)
(* is dropped only when the millisecond is over for every caller.          *)
Counted(f) ==
  own[f] # NoId /\ Open(own[f].timeMs) => own[f].remainder <= counter[own[f].timeMs]

Lasts(t) ==
  expires[t] # Never => \E f \in Fetches : expires[t] >= t - Skew[f] + Ttl

CounterOK == (\A f \in Fetches : Counted(f)) /\ (\A t \in Times : Lasts(t))

(* The ids that are saved were made by fetches of the entity, and no two   *)
(* fetches made the same one.                                              *)
OwnOK ==
  /\ \A f, g \in Fetches : own[f] = own[g] /\ own[f] # NoId => f = g
  /\ \A e \in Entities :
       saved[e] # NoId => \E f \in Fetches : Wants[f] = e /\ own[f] = saved[e]

(* The ids of all fetches fit together at every moment of every race: no   *)
(* id is made twice, whoever drops, recreates or counts up a counter.      *)
IdsConsistent ==
  IdTypeOK /\ (\A f \in Fetches : StageOK(f)) /\ CounterOK /\ OwnOK /\ SameIdForAll

=============================================================================
