------------------------------- MODULE Meaning -------------------------------
(***************************************************************************)
(* What an SQRL program means, read from its statements and not from the   *)
(* table the compiler makes of them. Including a file puts its statements  *)
(* in place, each under one more condition; a feature has the value of the *)
(* LET whose WHERE holds, else of its DEFAULT, else what it was before the *)
(* features were reset; a statement runs when all its conditions hold. A   *)
(* feature that two of them define at once has no meaning.                 *)
(***************************************************************************)
EXTENDS Compiler

(* The statements of a program, files included, with their conditions. *)
RECURSIVE Flat(_, _)
Flat(stmts, conditions) ==
  LET Expanded(stmt) ==
        CASE stmt.type = "include" ->
               Flat(Files[stmt.file], conditions \union {stmt.where})
          [] stmt.type = "includeDirectory" ->
               FlattenSeq([i \in 1..Len(Directory) |->
                 Flat(Directory[i].statements,
                      conditions \union {Equals(stmt.feature, Directory[i].value)})])
          [] OTHER -> <<[stmt |-> stmt, conditions |-> conditions]>>
  IN FlattenSeq([i \in 1..Len(stmts) |-> Expanded(stmts[i])])

And3(a, b) ==
  IF "false" \in {a, b} THEN "false" ELSE IF "null" \in {a, b} THEN "null" ELSE "true"
Or3(a, b) ==
  IF "true" \in {a, b} THEN "true" ELSE IF "null" \in {a, b} THEN "null" ELSE "false"
Not3(a) == CASE a = "true" -> "false" [] a = "false" -> "true" [] a = "null" -> "null"
Bool3(v) == IF v \in {"false", "null"} THEN v ELSE "true"

RECURSIVE ExprValue(_, _, _)
RECURSIVE FeatureValue(_, _, _)

(* The value of an expression of program `flat` under some inputs. *)
ExprValue(ast, flat, inputs) ==
  LET V(e) == ExprValue(e, flat, inputs)
      Compare(f, c, same) ==
        LET v == FeatureValue(f, flat, inputs)
        IN IF v = "null" THEN "null" ELSE Truth((v = c) = same)
  IN CASE ast.type = "constant" -> ast.value
       [] ast.type = "feature" -> FeatureValue(ast.value, flat, inputs)
       [] ast.type = "eq"  -> Compare(ast.feature, ast.constant, TRUE)
       [] ast.type = "neq" -> Compare(ast.feature, ast.constant, FALSE)
       [] ast.type = "not" -> Not3(Bool3(V(ast.expr)))
       [] ast.type = "and" -> And3(Bool3(V(ast.left)), Bool3(V(ast.right)))
       [] ast.type = "or"  -> Or3(Bool3(V(ast.left)), Bool3(V(ast.right)))

Holds(ast, flat, inputs) == Truthy(ExprValue(ast, flat, inputs))
Included(entry, flat, inputs) == \A c \in entry.conditions : Holds(c, flat, inputs)

(* The LETs of a feature, in layers that end where features are reset.     *)
Lets(f, flat) ==
  {i \in 1..Len(flat) : flat[i].stmt.type = "let" /\ flat[i].stmt.feature = f}
LayerOf(i, flat) == Cardinality({j \in 1..i : flat[j].stmt.type = "reset"})

The(is) == CHOOSE i \in is : TRUE

RECURSIVE LayerValue(_, _, _, _)
LayerValue(layer, f, flat, inputs) ==
  LET lets == {i \in Lets(f, flat) : LayerOf(i, flat) = layer}
      defaults == {i \in lets : flat[i].stmt.default}
      cases == {i \in lets \ defaults :
                  /\ Holds(flat[i].stmt.where, flat, inputs)
                  /\ Included(flat[i], flat, inputs)}
      Value(is) == ExprValue(flat[The(is)].stmt.expr, flat, inputs)
  IN CASE cases # {} -> Value(cases)
       [] cases = {} /\ defaults # {} -> Value(defaults)
       [] OTHER -> IF layer = 0 THEN "null" ELSE LayerValue(layer - 1, f, flat, inputs)

FeatureValue(f, flat, inputs) ==
  LET Of(type) == {i \in 1..Len(flat) : flat[i].stmt.type = type}
      rules == {i \in Of("rule") : flat[i].stmt.name = f}
      rule == flat[The(rules)]
  IN CASE Lets(f, flat) # {} -> LayerValue(Cardinality(Of("reset")), f, flat, inputs)
       [] Lets(f, flat) = {} /\ rules # {} ->
            IF Included(rule, flat, inputs)
              THEN Bool3(ExprValue(rule.stmt.where, flat, inputs))
              ELSE "null"
       [] Lets(f, flat) = {} /\ rules = {} /\ f \in DOMAIN inputs -> inputs[f]
       [] OTHER -> Defaults[f]

-----------------------------------------------------------------------------
(* The rules of a WHEN that fire, and those with a reason that is missing. *)
Fired(when, flat, inputs) ==
  {r \in Range(when.rules) : FeatureValue(r, flat, inputs) = "true"}

Reasoned(r, flat, inputs) ==
  \A i \in 1..Len(flat) :
    flat[i].stmt.type = "rule" /\ flat[i].stmt.name = r =>
      \A f \in Range(flat[i].stmt.reasons) : FeatureValue(f, flat, inputs) # "null"

Argued(call, flat, inputs) ==
  <<call.func, [i \in 1..Len(call.args) |-> ExprValue(call.args[i], flat, inputs)]>>

(* The calls of statement functions a program makes; `Effective` tells     *)
(* which of the WHENs with a rule that fires run their block.              *)
Statements(flat, inputs, Effective(_)) ==
  LET entries == {e \in Range(flat) : Included(e, flat, inputs)}
      Of(type) == {e.stmt : e \in {x \in entries : x.stmt.type = type}}
      Conditional(s) == Unnested(s, True)
      Caused(c) == [c EXCEPT !.args = <<Const("cause")>> \o @]
  IN {Argued(s, flat, inputs) : s \in Of("call")}
       \union {Argued(Conditional(s)[2], flat, inputs) :
                 s \in {t \in Of("if") : Holds(Conditional(t)[1], flat, inputs)}}
       \union UNION {{Argued(Caused(c), flat, inputs) : c \in Range(s.calls)} :
                       s \in {t \in Of("when") :
                                Fired(t, flat, inputs) # {} /\ Effective(t)}}

-----------------------------------------------------------------------------
CONSTANT Inputs   (* the values the features that are inputs may have        *)

(* The pairs of definitions of a feature in one layer of which one too     *)
(* many may hold: two cases, or two DEFAULTs.                              *)
Rivals(flat) ==
  {p \in (1..Len(flat)) \X (1..Len(flat)) :
     LET d == flat[p[1]].stmt
         e == flat[p[2]].stmt
     IN /\ p[1] < p[2] /\ d.type = "let" /\ e.type = "let"
        /\ d.feature = e.feature /\ d.default = e.default
        /\ LayerOf(p[1], flat) = LayerOf(p[2], flat)}

(* A feature is defined twice where the conditions of two rivals hold.     *)
DefinedTwice(flat, Held(_)) ==
  \E p \in Rivals(flat) : \A i \in {p[1], p[2]} :
    \A c \in flat[i].conditions \union {flat[i].stmt.where} : Held(c)

(* As the statements are read one by one: the features of a condition may  *)
(* have any values, whatever defines them.                                 *)
MayBeDefinedTwice(flat) ==
  \E inputs \in Inputs :
    LET Held(c) == Holds(c, << >>, inputs)
    IN DefinedTwice(flat, Held)

(* In an execution. *)
IsDefinedTwice(flat, inputs) ==
  LET Held(c) == Holds(c, flat, inputs)
  IN DefinedTwice(flat, Held)

(* The inputs an execution may get: the features given to the compiler are *)
(* inputs no longer.                                                       *)
RunInputs ==
  {i \in Inputs : \A f \in DOMAIN given.inputs : i[f] = given.inputs[f]}

(* Those under which a program means something. *)
ClearInputs(flat) == {i \in RunInputs : ~IsDefinedTwice(flat, i)}

=============================================================================
