-------------------------------- MODULE Labels --------------------------------
(***************************************************************************)
(* One label of one entity (RedisLabelService): actions of any process add *)
(* it, with SET and then EXPIRE, or remove it, with DEL. The callbacks run *)
(* when their executions have ended, and nothing orders those of different *)
(* executions; a process may die, or redis not answer, between commands.   *)
(***************************************************************************)
EXTENDS Redis

CONSTANTS
  Adds,        (* the calls of addLabel()                                    *)
  Removes,     (* the calls of removeLabel()                                 *)
  LabelExpiry  (* EXPIRY                                                     *)

ASSUME LabelsAssumption == Adds \intersect Removes = {} /\ LabelExpiry \in Nat \ {0}

VARIABLES
  label,      (* the key is in redis                                         *)
  labelTill,  (* when it is dropped                                          *)
  callback,   (* how far the callback of each call is                        *)
  lastSet     (* history: when the label was added, unless it was removed    *)

labelVars == <<label, labelTill, callback, lastSet>>

LabelInit ==
  /\ label = FALSE
  /\ labelTill = Never
  /\ callback = [c \in Adds \union Removes |-> "waiting"]
  /\ lastSet = Never

-----------------------------------------------------------------------------
(* Faulty variant of SetLabel: SET NX.                                     *)
SetLabel_NX(c) ==
  /\ callback[c] = "waiting"
  /\ label' = TRUE
  /\ lastSet' = clock
  /\ callback' = [callback EXCEPT ![c] = "set"]
  /\ UNCHANGED <<clock, labelTill>>

(* SET, which clears the expiry of a label that is there. *)
SetLabel(c) ==
  /\ callback[c] = "waiting"
  /\ label' = TRUE
  /\ labelTill' = Never
  /\ lastSet' = clock
  /\ callback' = [callback EXCEPT ![c] = "set"]
  /\ UNCHANGED clock

(* EXPIRE, once the SET was answered. *)
ExpireLabel(c) ==
  /\ callback[c] = "set"
  /\ labelTill' = IF label THEN clock + LabelExpiry ELSE labelTill
  /\ callback' = [callback EXCEPT ![c] = "done"]
  /\ UNCHANGED <<clock, label, lastSet>>

DeleteLabel(c) ==
  /\ callback[c] = "waiting"
  /\ label' = FALSE
  /\ labelTill' = Never
  /\ lastSet' = Never
  /\ callback' = [callback EXCEPT ![c] = "done"]
  /\ UNCHANGED clock

CallbackFails(c) ==
  /\ callback[c] \in {"waiting", "set"}
  /\ callback' = [callback EXCEPT ![c] = IF @ = "set" THEN "failed" ELSE "done"]
  /\ UNCHANGED <<clock, label, labelTill, lastSet>>

LabelTick ==
  /\ PassTime
  /\ IF Dropped(labelTill)
       THEN label' = FALSE /\ labelTill' = Never
       ELSE UNCHANGED <<label, labelTill>>
  /\ UNCHANGED <<callback, lastSet>>

LabelNext ==
  \/ LabelTick
  \/ \E c \in Adds : SetLabel(c) \/ ExpireLabel(c)
  \/ \E c \in Removes : DeleteLabel(c)
  \/ \E c \in Adds \union Removes : CallbackFails(c)

-----------------------------------------------------------------------------
(* The types of the variables. *)
LabelTypeOK ==
  /\ label \in BOOLEAN
  /\ labelTill \in Int
  /\ callback \in [Adds \union Removes -> {"waiting", "set", "done", "failed"}]
  /\ lastSet \in -1..clock

(* Of executions that add and remove a label at the same time: a label that*)
(* was added and not removed since is there for EXPIRY at least, whichever *)
(* expiry an earlier execution had given it; and it is there for ever only *)
(* while an execution is between SET and EXPIRE, or if one failed there.   *)
LabelLasts ==
  /\ lastSet # Never /\ clock < lastSet + LabelExpiry => label
  /\ label /\ labelTill = Never => \E c \in Adds : callback[c] \in {"set", "failed"}

=============================================================================
