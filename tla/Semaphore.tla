------------------------------ MODULE Semaphore ------------------------------
(***************************************************************************)
(* The semaphore of sqrl/src/jslib/Semaphore.ts: a count of permits taken, *)
(* a maximum that may change, a queue of resolvers of those who wait, and  *)
(* a promise for the moment the count is back at zero.                     *)
(*                                                                         *)
(* A request is one call of increment(). Its promise can be given up by    *)
(* the timer of increment() while its resolver is still in the queue, or   *)
(* after its resolver was called but before bluebird ran the continuation. *)
(***************************************************************************)
EXTENDS Naturals, Sequences, FiniteSets

CONSTANTS
  Requests,   (* the calls of increment() that are made                      *)
  Limits,     (* the values setMax() may be called with                      *)
  NoMax,      (* max = null: no limit                                        *)
  Impatient   (* the requests whose timer may run out                        *)

ASSUME SemaphoreAssumption ==
  /\ IsFiniteSet(Requests)
  /\ NoMax \notin Nat
  /\ Limits \subseteq (Nat \ {0}) \union {NoMax}
  /\ Impatient \subseteq Requests

VARIABLES
  count,      (* the permits taken                                           *)
  max,        (* how many may be taken                                       *)
  resolvers,  (* the queue of requests whose resolver was not called yet     *)
  status,     (* where each request stands                                   *)
  zeroPending (* somebody holds the unresolved promise of waitForZero()      *)

semVars == <<count, max, resolvers, status, zeroPending>>

Statuses == {"idle", "waiting", "passed", "holding", "refused", "done"}

HasRoom == max = NoMax \/ count < max

(* Who has, or is about to learn that it has, a permit. *)
Holders == {r \in Requests : status[r] \in {"passed", "holding"}}

(* Calling the resolver of a promise that was given up has no effect. *)
Passed(st, granted) ==
  [r \in Requests |-> IF r \in granted /\ st[r] = "waiting" THEN "passed" ELSE st[r]]

SemInit ==
  /\ count = 0
  /\ max \in Limits
  /\ resolvers = << >>
  /\ status = [r \in Requests |-> "idle"]
  /\ zeroPending = FALSE

-----------------------------------------------------------------------------
Increment(r) ==
  /\ status[r] = "idle"
  /\ IF HasRoom
       THEN /\ count' = count + 1
            /\ status' = [status EXCEPT ![r] = "holding"]
            /\ UNCHANGED resolvers
       ELSE /\ resolvers' = Append(resolvers, r)
            /\ status' = [status EXCEPT ![r] = "waiting"]
            /\ UNCHANGED count
  /\ UNCHANGED <<max, zeroPending>>

(* The continuation of a promise whose resolver was called. *)
Resume(r) ==
  /\ status[r] = "passed"
  /\ status' = [status EXCEPT ![r] = "holding"]
  /\ UNCHANGED <<count, max, resolvers, zeroPending>>

(* promise.timeout(): the request fails; its resolver stays in the queue. *)
TimeOut(r) ==
  /\ r \in Impatient
  /\ status[r] \in {"waiting", "passed"}
  /\ status' = [status EXCEPT ![r] = "refused"]
  /\ UNCHANGED <<count, max, resolvers, zeroPending>>

(* Faulty variant of Decrement: the permit goes to the newest waiter. *)
Decrement_Newest(r) ==
  LET released == [status EXCEPT ![r] = "done"]
  IN /\ IF resolvers # << >> /\ (max = NoMax \/ count <= max)
          THEN /\ resolvers' = SubSeq(resolvers, 1, Len(resolvers) - 1)
               /\ status' = Passed(released, {resolvers[Len(resolvers)]})
               /\ UNCHANGED <<count, zeroPending>>
          ELSE /\ count' = count - 1
               /\ status' = released
               /\ zeroPending' = (zeroPending /\ count' # 0)
               /\ UNCHANGED resolvers
     /\ UNCHANGED max

(* Faulty variant of Decrement: nothing is passed on. *)
Decrement_ForgetsQueue(r) ==
  /\ count' = count - 1
  /\ status' = [status EXCEPT ![r] = "done"]
  /\ zeroPending' = (zeroPending /\ count' # 0)
  /\ UNCHANGED <<max, resolvers>>

(* Faulty variant of Decrement: zero is announced before the count drops.  *)
Decrement_ZeroTooLate(r) ==
  LET released == [status EXCEPT ![r] = "done"]
  IN /\ IF resolvers # << >> /\ (max = NoMax \/ count <= max)
          THEN /\ resolvers' = Tail(resolvers)
               /\ status' = Passed(released, {Head(resolvers)})
               /\ UNCHANGED <<count, zeroPending>>
          ELSE /\ count' = count - 1
               /\ status' = released
               /\ zeroPending' = (zeroPending /\ count # 0)
               /\ UNCHANGED resolvers
     /\ UNCHANGED max

(* A permit goes to the request that waited longest, if the maximum still  *)
(* allows that many, and otherwise back.                                   *)
Decrement(r) ==
  LET released == [status EXCEPT ![r] = "done"]
  IN /\ IF resolvers # << >> /\ (max = NoMax \/ count <= max)
          THEN /\ resolvers' = Tail(resolvers)
               /\ status' = Passed(released, {Head(resolvers)})
               /\ UNCHANGED <<count, zeroPending>>
          ELSE /\ count' = count - 1
               /\ status' = released
               /\ zeroPending' = (zeroPending /\ count' # 0)
               /\ UNCHANGED resolvers
     /\ UNCHANGED max

(* release() of a request that has its permit. *)
Release(r) == status[r] = "holding" /\ Decrement(r)

(* The number of resolvers the loop of setMax(m) calls. *)
Admitted(m) ==
  IF m = NoMax THEN Len(resolvers)
  ELSE IF count >= m THEN 0
  ELSE IF m - count < Len(resolvers) THEN m - count ELSE Len(resolvers)

(* Faulty variant of SetMax: the queue is left to the next release. *)
SetMax_Lazy(m) ==
  /\ m \in Limits \ {max}
  /\ max' = m
  /\ UNCHANGED <<count, resolvers, status, zeroPending>>

(* Faulty variant of SetMax: one more is admitted than fits. *)
SetMax_OneTooMany(m) ==
  LET k == IF m # NoMax /\ Admitted(m) < Len(resolvers) THEN Admitted(m) + 1 ELSE Admitted(m)
  IN /\ m \in Limits \ {max}
     /\ max' = m
     /\ count' = count + k
     /\ resolvers' = SubSeq(resolvers, k + 1, Len(resolvers))
     /\ status' = Passed(status, {resolvers[i] : i \in 1..k})
     /\ UNCHANGED zeroPending

(* Faulty variant of SetMax: those admitted are not counted. *)
SetMax_Uncounted(m) ==
  LET k == Admitted(m)
  IN /\ m \in Limits \ {max}
     /\ max' = m
     /\ resolvers' = SubSeq(resolvers, k + 1, Len(resolvers))
     /\ status' = Passed(status, {resolvers[i] : i \in 1..k})
     /\ UNCHANGED <<count, zeroPending>>

SetMax(m) ==
  LET k == Admitted(m)
  IN /\ m \in Limits \ {max}
     /\ max' = m
     /\ count' = count + k
     /\ resolvers' = SubSeq(resolvers, k + 1, Len(resolvers))
     /\ status' = Passed(status, {resolvers[i] : i \in 1..k})
     /\ UNCHANGED zeroPending

(* With a count of zero the promise returned is resolved already. *)
WaitForZero ==
  /\ zeroPending' = (count # 0)
  /\ UNCHANGED <<count, max, resolvers, status>>

SemNext ==
  \/ \E r \in Requests : Increment(r) \/ Resume(r) \/ TimeOut(r) \/ Release(r)
  \/ \E m \in Limits : SetMax(m)
  \/ WaitForZero

(* Continuations run, and who holds a permit returns it. *)
SemFairness ==
  \A r \in Requests : WF_semVars(Resume(r)) /\ WF_semVars(Release(r))

SemSpec == SemInit /\ [][SemNext]_semVars /\ SemFairness

-----------------------------------------------------------------------------
(* The types of the fields. *)
SemTypeOK ==
  /\ count \in Nat
  /\ max \in Limits
  /\ resolvers \in Seq(Requests)
  /\ status \in [Requests -> Statuses]
  /\ zeroPending \in BOOLEAN

(* No permit is idle while somebody waits for it: every request that waits *)
(* is in the queue, once, and decrement() and setMax() leave nobody there  *)
(* who could be admitted.                                                  *)
NoIdlePermit ==
  /\ SemTypeOK
  /\ \A i, j \in 1..Len(resolvers) : resolvers[i] = resolvers[j] => i = j
  /\ \A i \in 1..Len(resolvers) : status[resolvers[i]] \in {"waiting", "refused"}
  /\ \A r \in Requests : status[r] = "waiting" => \E i \in 1..Len(resolvers) : resolvers[i] = r
  /\ resolvers # << >> => ~HasRoom

(* Where no timer ran out, and only there. *)
NobodyRefused == \A r \in Requests : status[r] # "refused"

(* Mutual exclusion: never more requests hold a permit than the count      *)
(* says, and a timer never makes room for one more. Until the first timer  *)
(* runs out the count is exactly the permits that are out: handing one on  *)
(* neither loses nor invents one. Zero is told to nobody too early, and a  *)
(* pending waitForZero() is not forgotten: permits are still out.          *)
HoldersAreCounted ==
  /\ Cardinality(Holders) <= count
  /\ NobodyRefused => count = Cardinality(Holders)
  /\ zeroPending => count > 0

(* The count grows only within the maximum, however often and in whatever  *)
(* direction setMax() moved it while permits were out.                     *)
GrowsWithinMax == [][count' > count => max' = NoMax \/ count' <= max']_semVars

Granted(r) == status[r] \in {"idle", "waiting"} /\ status'[r] \in {"passed", "holding"}

Before(q, r) ==
  \/ status[r] = "idle"
  \/ \E i, j \in 1..Len(resolvers) : i < j /\ resolvers[i] = q /\ resolvers[j] = r

(* First come, first served: no request, and no new caller of increment(), *)
(* gets a permit ahead of one that was waiting before it.                  *)
ServedInOrder ==
  [][\A q, r \in Requests :
       Granted(r) /\ status[q] = "waiting" /\ Before(q, r) => Granted(q)]_semVars

(* As long as no timer runs out every request is served, through any       *)
(* changes of the maximum, if holders release their permits.               *)
EveryRequestServed ==
  []NobodyRefused => \A r \in Requests : status[r] = "waiting" ~> status[r] = "holding"

(* As long as no timer runs out, whoever waits for zero is told once the   *)
(* permits that are out, and those handed on meanwhile, were returned.     *)
ZeroIsAnnounced == []NobodyRefused => (zeroPending ~> ~zeroPending)

(* What both rest on: as long as no timer runs out, nobody waits for a     *)
(* permit, or for zero, that nobody is left to return.                     *)
SomebodyServes ==
  NobodyRefused /\ (zeroPending \/ \E r \in Requests : status[r] = "waiting") => Holders # {}

(* Semaphore.ts:88 says of decrement() that the permit is passed on "if    *)
(* something is waiting for this": the request at the head still waits.    *)
PassedToAWaiter ==
  [][Len(resolvers') < Len(resolvers) => status[Head(resolvers)] = "waiting"]_semVars

=============================================================================
