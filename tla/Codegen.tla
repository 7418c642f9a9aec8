------------------------------- MODULE Codegen -------------------------------
(***************************************************************************)
(* AstExpr and SqrlCompiledOutput: the expression every slot compiles to.  *)
(* A slot is fetched at most once and only on demand, so the generated     *)
(* code says what it loads: each node first carries the slots it needs,    *)
(* constants are folded away, and _exprExtractLoad() puts a load node      *)
(* above the nodes that need slots nobody above them loaded.               *)
(*                                                                         *)
(* The argument `state` is left out; every function costs the same, as it  *)
(* does when no cost was measured.                                         *)
(***************************************************************************)
EXTENDS Ast

Constant(v, load)       == [type |-> "constant", value |-> v, load |-> load]
ValueOf(n)              == [type |-> "value", slot |-> n, load |-> {n}]
CallOf(f, exprs, load)  == [type |-> "call", func |-> f, exprs |-> exprs, load |-> load]
Load(load, expr)        == [type |-> "load", exprs |-> <<expr>>, load |-> load]
ListExpr(exprs, load)   == [type |-> "list", exprs |-> exprs, load |-> load]
InputExpr               == [type |-> "input", load |-> {}]

Children(expr) == IF "exprs" \in DOMAIN expr THEN expr.exprs ELSE << >>
IsConstant(expr) == expr.type = "constant"
LoadOf(exprs) == UNION {exprs[i].load : i \in 1..Len(exprs)}

(* What a slot holds once it is read (finalizedAst of each kind of slot).  *)
FinalizedAst(slot) ==
  CASE slot.kind \in {"fixed", "feature"} -> slot.ast
    [] slot.kind = "rule" -> Branch(slot.where, slot.ast, Null)
    [] slot.kind = "constant" -> Const(slot.value)
    [] slot.kind = "input" -> Null
    [] slot.kind = "statement" ->
         Call("_slotWait", SetToSeq({SlotRef(n) : n \in slot.waits}))

(* The slots an expression refers to, wherever they stand in it. *)
RECURSIVE References(_)
References(ast) ==
  CASE ast.type = "feature" -> {F(ast.value)}
    [] ast.type \in {"eq", "neq"} -> {F(ast.feature)}
    [] ast.type = "slot" -> {ast.slot}
    [] ast.type = "not" -> References(ast.expr)
    [] ast.type \in {"and", "or"} -> References(ast.left) \union References(ast.right)
    [] ast.type \in {"call", "registered"} ->
         UNION {References(ast.args[i]) : i \in 1..Len(ast.args)}
    [] ast.type = "list" -> UNION {References(ast.exprs[i]) : i \in 1..Len(ast.exprs)}
    [] ast.type = "if" ->
         References(ast.condition) \union References(ast.true) \union References(ast.false)
    [] ast.type = "switch" ->
         References(ast.default) \union
           UNION {References(ast.cases[i].expr) \union References(ast.cases[i].where) :
                    i \in 1..Len(ast.cases)}
    [] OTHER -> {}

(* Do some slots refer to themselves? (exprForSlot() would meet a slot     *)
(* whose expression it is still building.)                                 *)
RECURSIVE Circular(_, _)
Circular(names, refs) ==
  LET free == {n \in names : refs[n] \intersect names = {}}
  IN IF free = {} THEN names # {} ELSE Circular(names \ free, refs)

-----------------------------------------------------------------------------
(* Functions the compiler may call itself (registered as pure): none takes *)
(* null, and _not answers null for it.                                     *)
Pure == {"bool", "_not", "_cmpE", "_cmpNE"}

Truth(b) == IF b THEN "true" ELSE "false"

Apply(func, args) ==
  CASE \E i \in 1..Len(args) : args[i] = "null" -> "null"
    [] OTHER ->
         CASE func = "bool"   -> Truth(Truthy(args[1]))
           [] func = "_not"   -> Truth(~Truthy(args[1]))
           [] func = "_cmpE"  -> Truth(args[1] = args[2])
           [] func = "_cmpNE" -> Truth(args[1] # args[2])

(* slotExpr(): a slot that is constant is replaced by its value. *)
SlotExpr(n, known) ==
  IF IsConstant(known[n].expr) THEN Constant(known[n].expr.value, {}) ELSE ValueOf(n)

IfExpr(condition, true, false) ==
  IF IsConstant(condition)
    THEN IF Truthy(condition.value) THEN true ELSE false
    ELSE [type |-> "if", exprs |-> <<condition, true, false>>, load |-> condition.load]

CallExpr(func, exprs) ==
  IF func \in Pure /\ \A i \in 1..Len(exprs) : IsConstant(exprs[i])
    THEN Constant(Apply(func, [i \in 1..Len(exprs) |-> exprs[i].value]), {})
    ELSE CallOf(func, exprs, LoadOf(exprs))

(* A wait is the constant true, behind a load of what it waits for. *)
WaitExpr(exprs) == Constant("true", LoadOf(exprs))

(* sortExprsByCostAsc(): the cost of a slot is that of the calls of all    *)
(* the slots it loads.                                                     *)
RecursiveCost(n, known) ==
  known[n].cost + FoldSet(LAMBDA m, sum : known[m].cost + sum, 0, known[n].loads)
CostOf(expr, known) ==
  IF expr.type = "value" THEN RecursiveCost(expr.slot, known) ELSE 1
ByCost(exprs, known) ==
  LET Cheaper(i, j) ==
        \/ CostOf(exprs[i], known) < CostOf(exprs[j], known)
        \/ CostOf(exprs[i], known) = CostOf(exprs[j], known) /\ i < j
      order == SetToSortSeq(1..Len(exprs), Cheaper)
  IN [i \in 1..Len(exprs) |-> exprs[order[i]]]

(* andExpr() and orExpr(): constants are dropped, or decide; the operands  *)
(* are tried from the cheapest on, and only the first is loaded upfront.   *)
Sequential(func, operands, known) ==
  LET exprs == ByCost(operands, known)
  IN CallOf(func, exprs, exprs[1].load)

AndExpr(exprs, known) ==
  LET rest == SelectSeq(exprs, LAMBDA e : ~(IsConstant(e) /\ Truthy(e.value)))
      constants == {rest[i].value : i \in {j \in 1..Len(rest) : IsConstant(rest[j])}}
  IN CASE constants \ {"null"} # {} -> Constant("false", {})
       [] constants = {"null"} -> Constant("null", {})
       [] constants = {} /\ rest = << >> -> Constant("true", {})
       [] constants = {} /\ Len(rest) = 1 -> CallOf("bool", rest, rest[1].load)
       [] OTHER -> Sequential("_andSequential", rest, known)

OrExpr(exprs, known) ==
  LET rest == SelectSeq(exprs, LAMBDA e : ~(IsConstant(e) /\ ~Truthy(e.value)))
      hadTrue == \E i \in 1..Len(rest) : IsConstant(rest[i])
      hadNull == \E i \in 1..Len(exprs) : IsConstant(exprs[i]) /\ exprs[i].value = "null"
  IN CASE hadTrue -> Constant("true", {})
       [] ~hadTrue /\ rest = << >> -> Constant(IF hadNull THEN "null" ELSE "false", {})
       [] ~hadTrue /\ rest # << >> /\ hadNull ->
            Sequential("_orSequential", Append(rest, Constant("null", {})), known)
       [] ~hadTrue /\ Len(rest) = 1 /\ ~hadNull -> CallOf("bool", rest, rest[1].load)
       [] OTHER -> Sequential("_orSequential", rest, known)

(* The operands of a chain of the same operator. *)
RECURSIVE Operands(_, _)
Operands(ast, operator) ==
  IF ast.type = operator
    THEN <<ast.left>> \o Operands(ast.right, operator)
    ELSE <<ast>>

(* _astToExpr() *)
RECURSIVE ToExpr(_, _)
ToExpr(ast, known) ==
  LET All(asts) == [i \in 1..Len(asts) |-> ToExpr(asts[i], known)]
      SwitchUpTo[i \in 0..(IF ast.type = "switch" THEN Len(ast.cases) ELSE 0)] ==
        IF i = 0
          THEN IF ast.default = NoAst THEN Constant("null", {}) ELSE ToExpr(ast.default, known)
          ELSE IF IsConstantTrue(ast.cases[i].where)
                 THEN ToExpr(ast.cases[i].expr, known)
                 ELSE IfExpr(ToExpr(ast.cases[i].where, known),
                             ToExpr(ast.cases[i].expr, known), SwitchUpTo[i - 1])
  IN CASE ast.type = "constant" -> Constant(ast.value, {})
       [] ast.type = "feature" -> SlotExpr(F(ast.value), known)
       [] ast.type = "slot" -> SlotExpr(ast.slot, known)
       [] ast.type = "eq"  -> CallExpr("_cmpE", All(<<Feature(ast.feature), Const(ast.constant)>>))
       [] ast.type = "neq" -> CallExpr("_cmpNE", All(<<Feature(ast.feature), Const(ast.constant)>>))
       [] ast.type = "not" -> CallExpr("_not", All(<<ast.expr>>))
       [] ast.type = "and" -> AndExpr(All(Operands(ast, "and")), known)
       [] ast.type = "or"  -> OrExpr(All(Operands(ast, "or")), known)
       [] ast.type = "if"  ->
            IfExpr(ToExpr(ast.condition, known), ToExpr(ast.true, known),
                   ToExpr(ast.false, known))
       [] ast.type = "switch" -> SwitchUpTo[Len(ast.cases)]
       [] ast.type = "list" -> ListExpr(All(ast.exprs), LoadOf(All(ast.exprs)))
       [] ast.type = "call" /\ ast.func = "_slotWait" -> WaitExpr(All(ast.args))
       [] OTHER -> CallExpr(ast.func, All(ast.args))

(* Faulty variant of ExtractLoad: what a node loads counts as loaded for   *)
(* the nodes after it too.                                                 *)
RECURSIVE ExtractLoad_Shared(_, _)
ExtractLoad_Shared(expr, loaded) ==
  LET missing == expr.load \ loaded
      own == [expr EXCEPT !.load = {}]
      Before(i) == LoadOf(SubSeq(Children(expr), 1, i - 1))
  IN CASE missing # {} -> Load(missing, ExtractLoad_Shared(own, loaded \union missing))
       [] missing = {} /\ "exprs" \in DOMAIN expr ->
            [own EXCEPT !.exprs = [i \in 1..Len(expr.exprs) |->
               ExtractLoad_Shared(expr.exprs[i], loaded \union Before(i))]]
       [] OTHER -> own

(* _exprExtractLoad() *)
RECURSIVE ExtractLoad(_, _)
ExtractLoad(expr, loaded) ==
  LET missing == expr.load \ loaded
      own == [expr EXCEPT !.load = {}]
  IN CASE missing # {} -> Load(missing, ExtractLoad(own, loaded \union missing))
       [] missing = {} /\ "exprs" \in DOMAIN expr ->
            [own EXCEPT !.exprs = [i \in 1..Len(expr.exprs) |->
               ExtractLoad(expr.exprs[i], loaded)]]
       [] OTHER -> own

-----------------------------------------------------------------------------
(* recurseSlot(): the calls of an expression, and the slots it loads. *)
RECURSIVE Calls(_)
Calls(expr) ==
  (IF expr.type = "call" THEN 1 ELSE 0)
    + FoldSeq(LAMBDA child, sum : Calls(child) + sum, 0, Children(expr))

RECURSIVE Loads(_)
Loads(expr) ==
  expr.load \union UNION {Loads(Children(expr)[i]) : i \in 1..Len(Children(expr))}

(* exprForSlot(), for a slot whose references are all known. *)
Compiled(slot, known) ==
  LET expr == IF slot.kind = "input"
                THEN InputExpr
                ELSE ExtractLoad(ToExpr(FinalizedAst(slot), known), {})
  IN [expr |-> expr, cost |-> Calls(expr),
      loads |-> Loads(expr) \union UNION {known[n].loads : n \in Loads(expr)}]

RECURSIVE TranslateAll(_, _)
TranslateAll(slots, known) ==
  IF DOMAIN known = DOMAIN slots
    THEN known
    ELSE LET n == CHOOSE m \in DOMAIN slots \ DOMAIN known :
                    References(FinalizedAst(slots[m])) \subseteq DOMAIN known
         IN TranslateAll(slots, (n :> Compiled(slots[n], known)) @@ known)

Translation(slots) == TranslateAll(slots, << >>)

=============================================================================
