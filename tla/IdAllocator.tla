----------------------------- MODULE IdAllocator -----------------------------
(***************************************************************************)
(* What the id service promises, with no redis, clocks or counters: an     *)
(* entity gets an id of its own at one moment, on behalf of a call that    *)
(* asks for it, and the calls that are told an id, that one and others,    *)
(* are told later: a call may fail after it brought the id about.          *)
(***************************************************************************)
CONSTANTS
  Calls,      (* the calls of fetch()                                        *)
  Entities,   (* what ids are for                                            *)
  Wants,      (* the entity each call asks for                               *)
  Ids,        (* what can be an id                                           *)
  NoId        (* none                                                        *)

VARIABLES
  idOf,       (* the id of each entity                                       *)
  told        (* the id each call was told                                   *)

Init ==
  /\ idOf = [e \in Entities |-> NoId]
  /\ told = [f \in Calls |-> NoId]

(* An entity that a call still waits for gets an id that nobody has.       *)
Allocate(f) ==
  /\ told[f] = NoId
  /\ idOf[Wants[f]] = NoId
  /\ idOf'[Wants[f]] \in Ids \ {idOf[e] : e \in Entities}
  /\ idOf' = [idOf EXCEPT ![Wants[f]] = idOf'[Wants[f]]]
  /\ UNCHANGED told

(* A call is told the id of its entity, once. *)
Tell(f) ==
  /\ told[f] = NoId
  /\ idOf[Wants[f]] # NoId
  /\ told' = [told EXCEPT ![f] = idOf[Wants[f]]]
  /\ UNCHANGED idOf

Next == \E f \in Calls : Allocate(f) \/ Tell(f)

Spec == Init /\ [][Next]_<<idOf, told>>

=============================================================================
