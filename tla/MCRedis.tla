------------------------------- MODULE MCRedis -------------------------------
(***************************************************************************)
(* The services on redis, each by itself: they share its clock and keep    *)
(* keys of different prefixes, so that one step of a behaviour is one of   *)
(* the service chosen at the beginning.                                    *)
(***************************************************************************)
EXTENDS RateLimit, Sessionize, Counters, Labels, UniqueId, TLC

CONSTANTS
  f1, f2, f3, e1, e2, b1, b2, c1, c2, c3,
  Asks  (* the services there are, and the arguments each may be given *)

VARIABLE service

(* How long each of them is watched. *)
Watched == [rateLimit |-> 6, session |-> 9, counter |-> 8, label |-> 6, entityId |-> 3]

RateArguments ==
  {[max |-> 3, every |-> 3, refill |-> 2, takes |-> {0, 1, 2}, strict |-> s] : s \in BOOLEAN}
SessionArguments ==
  {[max |-> m, every |-> 3, refill |-> m, takes |-> {0, 1, 2}, strict |-> FALSE] : m \in 1..2}
NoArguments == {[max |-> 1, every |-> 1, refill |-> 1, takes |-> {}, strict |-> FALSE]}

AllAsks ==
  [rateLimit |-> RateArguments, session |-> SessionArguments,
   counter |-> NoArguments, label |-> NoArguments, entityId |-> NoArguments]

(* MAX 3 EVERY 3, all refilled; and a session EVERY 3, as in session.md. *)
PeriodAsks ==
  [rateLimit |-> {[max |-> 3, every |-> 3, refill |-> 3, takes |-> {1}, strict |-> FALSE]}]
HourAsks ==
  [session |-> {[max |-> 1, every |-> 3, refill |-> 1, takes |-> {1}, strict |-> FALSE]}]

ArgumentsDef == UNION {Asks[s] : s \in DOMAIN Asks}

FetchesDef == {f1, f2, f3}
EntitiesDef == {e1, e2}

(* Two fetches race for the same entity; the clocks of their processes     *)
(* differ by a millisecond.                                                *)
WantsDef == [f \in FetchesDef |-> IF f = f3 THEN e2 ELSE e1]
SkewDef == [f \in FetchesDef |-> IF f \in {f2, f3} THEN 1 ELSE 0]

(* The connection of one of the two that race may break at every command.  *)
UnreliableDef == {f1}

(* Two executions that differ in nothing but their element. *)
BumpsDef == {b1, b2}
AmountDef == [b \in BumpsDef |-> 1]
ElementDef == [b \in BumpsDef |-> b]
Symmetry == Permutations(BumpsDef)

AddsDef == {c1, c2}
RemovesDef == {c3}

mcVars == <<clock, service, rateVars, sessVars, countVars, labelVars, idVars>>

MCInit ==
  /\ Init /\ RateInit /\ SessInit /\ CountInit /\ LabelInit
  /\ service \in DOMAIN Asks
  /\ args \in Asks[service]
  /\ service # "counter" => asked = {Total}

(* What a fetch of an id changes, beside the clock. *)
fetchVars == <<at, timeMs, own, result, saved, counter, expires>>

MCNext ==
  /\ \/ /\ service = "rateLimit" /\ RateNext
        /\ UNCHANGED <<sessVars, countVars, labelVars, fetchVars>>
     \/ /\ service = "session" /\ SessNext
        /\ UNCHANGED <<rateVars, countVars, labelVars, fetchVars>>
     \/ /\ service = "counter" /\ CountNext
        /\ UNCHANGED <<rateVars, sessVars, labelVars, fetchVars>>
     \/ /\ service = "label" /\ LabelNext
        /\ UNCHANGED <<rateVars, sessVars, countVars, fetchVars>>
     \/ /\ service = "entityId" /\ Next
        /\ UNCHANGED <<rateVars, sessVars, countVars, labelVars>>
  /\ clock' <= Watched[service]
  /\ UNCHANGED service

MCSpec == MCInit /\ [][MCNext]_mcVars

(* The types of all services' variables. *)
RedisTypeOK == RateTypeOK /\ SessTypeOK /\ CountTypeOK /\ LabelTypeOK

=============================================================================
