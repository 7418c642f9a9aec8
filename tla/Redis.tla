-------------------------------- MODULE Redis --------------------------------
(***************************************************************************)
(* What the services of sqrl-redis-functions share: one redis, whose clock *)
(* drops the keys that have expired, and events that bring a time of their *)
(* own (SqrlClock), which may be earlier than the moment redis hears of    *)
(* them, in any order.                                                     *)
(***************************************************************************)
EXTENDS Integers

CONSTANTS
  MaxLag,   (* how late an event may arrive                                  *)
  Horizon   (* bound on the clock                                            *)

ASSUME RedisAssumption == MaxLag \in Nat /\ Horizon \in Nat

VARIABLE clock  (* the clock of redis *)

(* A key without expiry, and a moment that never was. *)
Never == -1

(* The times an event that is handled now can have happened at. *)
EventTimes == {at \in 0..clock : at + MaxLag >= clock}

PassTime == clock < Horizon /\ clock' = clock + 1

(* Redis drops a key when its time has come. *)
Dropped(moment) == moment # Never /\ moment <= clock'

=============================================================================
