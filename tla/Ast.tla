--------------------------------- MODULE Ast ---------------------------------
(***************************************************************************)
(* The syntax trees the SQRL compiler works on, as records told apart by   *)
(* "type", and the constructors that simplify while they build (AstBuilder *)
(* and SqrlAst). Locations, documentation and descriptions are left out.   *)
(*                                                                         *)
(* Every constant is a string: "null", "false" and "true" stand for those  *)
(* values, any other string for itself, which is truthy.                   *)
(***************************************************************************)
EXTENDS SequencesExt

Const(v)        == [type |-> "constant", value |-> v]
Feature(f)      == [type |-> "feature", value |-> f]
Equals(f, c)    == [type |-> "eq", feature |-> f, constant |-> c]
Differs(f, c)   == [type |-> "neq", feature |-> f, constant |-> c]
Not(e)          == [type |-> "not", expr |-> e]
BothOf(l, r)    == [type |-> "and", left |-> l, right |-> r]
EitherOf(l, r)  == [type |-> "or", left |-> l, right |-> r]
Call(f, args)   == [type |-> "call", func |-> f, args |-> args]
SlotRef(n)      == [type |-> "slot", slot |-> n]
ListOf(exprs)   == [type |-> "list", exprs |-> exprs]

(* A switchCase keeps its WHERE twice: as the slot the code will test, and *)
(* as the combined condition later cases are compared with.                *)
Case(e, w, combined) == [expr |-> e, where |-> w, combined |-> combined]
Switch(cases, default) ==
  [type |-> "switch", cases |-> cases, default |-> default]

(* The name of the slot of a feature, a rule or a statement feature. *)
F(f) == [feature |-> f]

NoAst == [type |-> "none"]
True  == Const("true")
Null  == Const("null")

Truthy(v) == v \notin {"false", "null"}

(* SqrlAst.isConstantTrue, which looks through switches of one such case.  *)
RECURSIVE IsConstantTrue(_)
IsConstantTrue(ast) ==
  IF ast.type = "switch"
    THEN /\ Len(ast.cases) = 1
         /\ IsConstantTrue(ast.cases[1].where)
         /\ IsConstantTrue(ast.cases[1].expr)
    ELSE ast = True

(* AstBuilder.and: constants are dropped, or decide the conjunction.       *)
And(l, r) ==
  CASE {l, r} \cap {Const("false"), Null} # {} -> Const("false")
    [] l.type = "constant" /\ r.type = "constant" -> True
    [] l.type = "constant" /\ r.type # "constant" -> r
    [] l.type # "constant" /\ r.type = "constant" -> l
    [] OTHER -> BothOf(l, r)

(* SqrlAst.branch. *)
Branch(condition, true, false) ==
  IF condition.type = "constant"
    THEN IF Truthy(condition.value) THEN true ELSE false
    ELSE [type |-> "if", condition |-> condition, true |-> true, false |-> false]

(* bool(ast), which folds on a constant (a function of the registry that is *)
(* not allowed nulls answers null for null).                               *)
Bool(ast) ==
  CASE ast.type # "constant" -> Call("bool", <<ast>>)
    [] ast = Null -> Null
    [] OTHER -> IF Truthy(ast.value) THEN True ELSE Const("false")

RegisterCall(call) == [call EXCEPT !.type = "registered"]

=============================================================================
