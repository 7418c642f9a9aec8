---------------------------- MODULE RequestOutcome ----------------------------
(***************************************************************************)
(* What a request comes to, with no slots, promises or handler: the        *)
(* verdict and what has to be written are decided together, at one moment; *)
(* nothing is written before, nothing is added after, and the client is    *)
(* told of success only when all of it was written. A request that failed  *)
(* may have written a part, and may still write more of it.                *)
(***************************************************************************)
CONSTANT
  Mutations   (* what a request may write                                    *)

VARIABLES
  verdict,    (* "none" until it is decided, then "allow" or "block"         *)
  due,        (* what has to be written                                      *)
  written,    (* what has been                                               *)
  reply       (* "none", "success" or "failure"                              *)

Init ==
  /\ verdict = "none" /\ reply = "none"
  /\ due = {} /\ written = {}

Decide ==
  /\ verdict = "none" /\ reply = "none"
  /\ verdict' \in {"allow", "block"}
  /\ due' \in SUBSET Mutations
  /\ UNCHANGED <<written, reply>>

Write(m) ==
  /\ verdict # "none"
  /\ m \in due \ written
  /\ written' = written \union {m}
  /\ UNCHANGED <<verdict, due, reply>>

Succeed ==
  /\ verdict # "none" /\ written = due
  /\ reply = "none" /\ reply' = "success"
  /\ UNCHANGED <<verdict, due, written>>

Fail ==
  /\ reply = "none" /\ reply' = "failure"
  /\ UNCHANGED <<verdict, due, written>>

Next == Decide \/ Succeed \/ Fail \/ \E m \in Mutations : Write(m)

Spec == Init /\ [][Next]_<<verdict, due, written, reply>>

=============================================================================
