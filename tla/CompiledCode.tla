---------------------------- MODULE CompiledCode ----------------------------
(***************************************************************************)
(* What the compiled slots do when they are executed, and the properties   *)
(* that relate it to what the program says. The order in which an          *)
(* execution evaluates slots is another module's subject (SqrlExecution):  *)
(* here every slot has the value its expression has, given the values of   *)
(* the slots it refers to.                                                 *)
(***************************************************************************)
EXTENDS Meaning

(* The WHEN cause: the rules that fired, each with its reason. A rule that *)
(* did not is null in the list the expression is made from; a feature that *)
(* is null in a reason makes the function throw, which its safety net      *)
(* turns into null.                                                        *)
NotFired == {"not fired"}

RECURSIVE Reasons(_, _)
Reasons(expr, values) ==
  LET Value(e) == IF e.type = "value" THEN values[e.slot] ELSE e.value
      Condition(e) == IF e.type = "load" THEN Value(e.exprs[1]) ELSE Value(e)
  IN CASE expr.type = "load" -> Reasons(expr.exprs[1], values)
       [] expr.type = "if" ->
            Reasons(expr.exprs[IF Truthy(Condition(expr.exprs[1])) THEN 2 ELSE 3], values)
       [] expr.type = "list" -> {Value(expr.exprs[i]) : i \in 1..Len(expr.exprs)}
       [] OTHER -> NotFired

BuildWhenCause(list, values) ==
  LET rules == {Reasons(list.exprs[i], values) : i \in 1..Len(list.exprs)} \ {NotFired}
  IN IF rules = {} \/ \E r \in rules : "null" \in r THEN "null" ELSE "cause"

(* The value of an expression. *)
RECURSIVE Run(_, _)
Run(expr, values) ==
  LET args == [i \in 1..Len(expr.exprs) |-> Run(expr.exprs[i], values)]
  IN CASE expr.type = "constant" -> expr.value
       [] expr.type = "value" -> values[expr.slot]
       [] expr.type = "load" -> Run(expr.exprs[1], values)
       [] expr.type = "if" ->
            Run(expr.exprs[IF Truthy(Run(expr.exprs[1], values)) THEN 2 ELSE 3], values)
       [] expr.type = "call" /\ expr.func = "_buildWhenCause" ->
            BuildWhenCause(expr.exprs[1], values)
       [] expr.type = "call" /\ expr.func = "_andSequential" ->
            FoldSeq(LAMBDA v, w : And3(Bool3(v), w), "true", args)
       [] expr.type = "call" /\ expr.func = "_orSequential" ->
            FoldSeq(LAMBDA v, w : Or3(Bool3(v), w), "false", args)
       [] expr.type = "call" /\ expr.func \in Pure -> Apply(expr.func, args)
       [] OTHER -> "null"

RECURSIVE RunAll(_, _)
RunAll(values, inputs) ==
  IF DOMAIN values = DOMAIN code
    THEN values
    ELSE LET n == CHOOSE m \in DOMAIN code \ DOMAIN values :
                    code[m].loads \subseteq DOMAIN values
             v == IF code[n].expr = InputExpr
                    THEN inputs[n.feature]
                    ELSE Run(code[n].expr, values)
         IN RunAll((n :> v) @@ values, inputs)

SlotValues(inputs) == RunAll(<< >>, inputs)

(* The calls of statement functions an expression makes. *)
RECURSIVE Effects(_, _)
Effects(expr, values) ==
  CASE expr.type = "load" -> Effects(expr.exprs[1], values)
    [] expr.type = "if" ->
         Effects(expr.exprs[IF Truthy(Run(expr.exprs[1], values)) THEN 2 ELSE 3], values)
    [] expr.type = "call" /\ expr.func \in DOMAIN StatementFeature ->
         {<<expr.func, [i \in 1..Len(expr.exprs) |-> Run(expr.exprs[i], values)]>>}
    [] OTHER -> {}

(* Those an execution makes that fetches SqrlExecutionComplete. *)
AllEffects(values) ==
  UNION {Effects(code[n].expr, values) : n \in code[Completion].loads}

-----------------------------------------------------------------------------
(* A program is compiled to what it says: under any inputs that leave no   *)
(* feature defined twice, every feature and every rule has the value its   *)
(* statements give it, whatever the order of files, layers and defaults;   *)
(* and a feature is refused as defined twice only if two of its            *)
(* definitions can hold at once.                                           *)
CompiledAsWritten ==
  LET flat == Flat(program, {})
      named == {F(e.stmt.feature) : e \in {x \in Range(flat) : x.stmt.type = "let"}}
                 \union {F(e.stmt.name) : e \in {x \in Range(flat) : x.stmt.type = "rule"}}
  IN /\ outcome = "compiled" =>
          \A inputs \in ClearInputs(flat) :
            LET values == SlotValues(inputs)
            IN \A n \in named : values[n] = FeatureValue(n.feature, flat, inputs)
     /\ outcome = "multiple definitions" => MayBeDefinedTwice(flat)

(* "make sure we don't add conflicting where clauses"                      *)
(* (SqrlFeatureSlot.ts:225), "Feature already has a default case set"      *)
(* (:207): a program of which an execution can find two cases of a feature *)
(* to hold, or that has two DEFAULTs for it, is refused.                   *)
DefinedOnce ==
  outcome = "compiled" =>
    LET flat == Flat(program, {})
    IN \A inputs \in RunInputs : ~IsDefinedTwice(flat, inputs)

(* Fetching SqrlExecutionComplete makes exactly the calls of statement     *)
(* functions whose conditions hold: of the files they are in, of their IF, *)
(* and of their WHEN, if no rule of it that fires lacks a reason.          *)
EffectsAsWritten ==
  LET flat == Flat(program, {})
  IN outcome = "compiled" =>
       \A inputs \in ClearInputs(flat) :
         LET Caused(when) == \A r \in Fired(when, flat, inputs) : Reasoned(r, flat, inputs)
         IN AllEffects(SlotValues(inputs)) = Statements(flat, inputs, Caused)

(* Generated code reads the promise of a slot only below a load of it, and *)
(* no slot loads itself: what an execution relies on (GraphAssumption).    *)
RECURSIVE Covered(_, _)
Covered(expr, loaded) ==
  CASE expr.type = "value" -> expr.slot \in loaded
    [] expr.type = "load" -> Covered(expr.exprs[1], loaded \union expr.load)
    [] OTHER -> \A i \in 1..Len(Children(expr)) : Covered(Children(expr)[i], loaded)

LoadsAreComplete ==
  outcome = "compiled" =>
    \A n \in DOMAIN code :
      /\ Covered(code[n].expr, {})
      /\ code[n].loads \subseteq DOMAIN code \ {n}

(* "A `WHEN` block ORs together a set of rules, and runs a side effect     *)
(* when one or more of those rules fire."                                  *)
FiredRulesTakeEffect ==
  LET flat == Flat(program, {})
      Always(when) == TRUE
  IN outcome = "compiled" =>
       \A inputs \in ClearInputs(flat) :
         Statements(flat, inputs, Always) \subseteq AllEffects(SlotValues(inputs))

=============================================================================
