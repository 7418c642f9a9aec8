------------------------------ MODULE SlotGraph ------------------------------
(***************************************************************************)
(* What the SQRL compiler hands to the runtime: a finite set of slots, one *)
(* expression per slot, and the slots each expression loads.               *)
(*                                                                         *)
(* A nested expression is represented with one slot per node, and the data *)
(* flowing through the slots is abstracted to what the control flow tells  *)
(* apart (SqrlObject.isTruthy and the null checks): "true" is any truthy   *)
(* value, "false" any falsy value that is not null.                        *)
(***************************************************************************)
EXTENDS Naturals, Sequences

CONSTANTS
  Slots,      (* the slots of the executable                                 *)
  Kind,       (* the shape of the expression compiled into each slot         *)
  Deps,       (* the slots each expression refers to, in evaluation order    *)
  NullOk,     (* the slots whose function was registered with allowNull      *)
  Rank,       (* a topological order of the slots                            *)
  Results,    (* the values an input, or the function of a slot, can have    *)
  Roots       (* the slots fetched from outside (fetchFeature, tryWait)      *)

Kinds == {"input", "sync", "async", "if", "and", "or", "not", "wait"}

Values == {"true", "false", "null"}
Unset  == "unset"

(* An "if" refers to its condition and two branches, "_not" to its         *)
(* argument; the compiler refuses programs whose slots form a loop.        *)
ASSUME GraphAssumption ==
  /\ Kind \in [Slots -> Kinds]
  /\ Deps \in [Slots -> Seq(Slots)]
  /\ NullOk \subseteq Slots
  /\ Roots \subseteq Slots
  /\ Results \in [Slots -> SUBSET Values]
  /\ Rank \in [Slots -> Nat]
  /\ \A s \in Slots :
       /\ Kind[s] = "input" => Deps[s] = << >>
       /\ Kind[s] = "if" => Len(Deps[s]) = 3
       /\ Kind[s] = "not" => Len(Deps[s]) = 1
       /\ Kind[s] \in {"and", "or"} => Len(Deps[s]) >= 1
       /\ \A i \in 1..Len(Deps[s]) : Rank[Deps[s][i]] < Rank[s]

InputSlots == {s \in Slots : Kind[s] = "input"}

(* The slots a slot refers to. *)
DepSet(s) == {Deps[s][i] : i \in 1..Len(Deps[s])}

(* The branch an "if" slot takes on the value of its condition. *)
Branch(s, condition) == IF condition = "true" THEN Deps[s][2] ELSE Deps[s][3]

(***************************************************************************)
(* Three-valued logic, without any evaluation order.                       *)
(***************************************************************************)
KleeneAnd(vs) ==
  IF "false" \in vs THEN "false" ELSE IF "null" \in vs THEN "null" ELSE "true"

KleeneOr(vs) ==
  IF "true" \in vs THEN "true" ELSE IF "null" \in vs THEN "null" ELSE "false"

KleeneNot(v) ==
  CASE v = "true" -> "false" [] v = "false" -> "true" [] OTHER -> "null"

=============================================================================
