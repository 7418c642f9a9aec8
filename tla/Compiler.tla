------------------------------ MODULE Compiler ------------------------------
(***************************************************************************)
(* SqrlParserState: the compiler reads a program one statement at a time   *)
(* and builds a table of slots, one for every feature, rule and statement  *)
(* feature and for every expression it gives a slot of its own. Files that *)
(* are included contribute their statements in place, under a WHERE; the   *)
(* table becomes code once the program is read.                            *)
(*                                                                         *)
(* A slot is named by a feature, by a truth table (the slots that hold a   *)
(* WHERE), or by the expression it holds: the hash that names such a slot  *)
(* is taken to be injective.                                               *)
(***************************************************************************)
EXTENDS WhereClause, Codegen

CONSTANTS
  Programs,          (* the programs to compile                              *)
  Files,             (* the statements of each source file                   *)
  Directory,         (* the files of a directory, each with the value it is for*)
  Givens,            (* the inputs that may be given to the compiler         *)
  Defaults,          (* the features every program starts with               *)
  StatementFeature   (* the statement feature of each statement function     *)

VARIABLES
  program,    (* the statements of the main file                             *)
  given,      (* the inputs given, and whether LET may replace an input      *)
  todo,       (* the statements to push, each with its globalWhere           *)
  slots,      (* the table                                                   *)
  code,       (* what every slot compiles to, once it did                    *)
  outcome     (* "reading", "compiled", or the reason of the refusal         *)

compilerVars == <<program, given, todo, slots, code, outcome>>

Completion == F("SqrlExecutionComplete")

InputSlot     == [kind |-> "input"]
ConstantSlot(v) == [kind |-> "constant", value |-> v]
FixedSlot(ast, replaceable) ==
  [kind |-> "fixed", ast |-> ast, replaceable |-> replaceable]
StatementSlot(waits) == [kind |-> "statement", waits |-> waits]
NewFeatureSlot ==
  [kind |-> "feature", ast |-> NoAst, replaceable |-> TRUE, final |-> FALSE]

HasSlot(n) == n \in DOMAIN slots
Put(table, n, slot) == (n :> slot) @@ table

(* The statement being pushed, and the conditions it is pushed under. *)
Statement   == todo[1].stmt
GlobalWhere == todo[1].where
Pushing(type) == outcome = "reading" /\ todo # << >> /\ Statement.type = type
Under(stmts, where) == [i \in 1..Len(stmts) |-> [stmt |-> stmts[i], where |-> where]]

Done(table) ==
  /\ slots' = table
  /\ todo' = Tail(todo)
  /\ UNCHANGED <<program, given, code, outcome>>

(* An exception ends the compilation. *)
Refuse(reason) ==
  /\ outcome' = reason
  /\ todo' = << >>
  /\ UNCHANGED <<program, given, slots, code>>

-----------------------------------------------------------------------------
(* newGlobal(): the expression gets a slot of its own, under the WHERE of  *)
(* the file, unless the same one has a slot already.                       *)
GlobalName(where, ast) == [ast |-> Branch(where, ast, Null)]
NewGlobal(table, where, ast) ==
  LET n == GlobalName(where, ast)
  IN IF n \in DOMAIN table THEN table ELSE Put(table, n, FixedSlot(n.ast, FALSE))

(* Faulty variant of AddStatement: the WHERE of the file is forgotten. *)
AddStatement_Unconditional(table, where, feature, ast) ==
  LET n == GlobalName(True, ast)
      added == NewGlobal(table, True, ast)
  IN [added EXCEPT ![F(feature)].waits = @ \union {n}]

(* addStatement(): the statement feature waits for the slot of the call. *)
AddStatement(table, where, feature, ast) ==
  LET n == GlobalName(where, ast)
      added == NewGlobal(table, where, ast)
  IN [added EXCEPT ![F(feature)].waits = @ \union {n}]

(* combineWithProvidedGlobalWhere(): clauses with the same truth table     *)
(* share the slot of the first. The slot of true holds true.               *)
WithWhereSlot(table, combined) ==
  IF WhereName(combined) \in DOMAIN table
    THEN table
    ELSE Put(table, WhereName(combined), FixedSlot(Bool(combined), FALSE))

-----------------------------------------------------------------------------
(* LET x := input() *)
PushInput ==
  /\ Pushing("input")
  /\ LET n == F(Statement.feature)
     IN IF HasSlot(n)
          THEN Refuse("input already defined")
          ELSE Done(Put(slots, n,
                 IF Statement.feature \in DOMAIN given.inputs
                   THEN ConstantSlot(given.inputs[Statement.feature])
                   ELSE InputSlot))

(* _resetReplaceableFeatures(): the next LET of a feature starts over. *)
PushReset ==
  /\ Pushing("reset")
  /\ Done([n \in DOMAIN slots |->
             IF slots[n].kind = "feature"
               THEN [slots[n] EXCEPT !.replaceable = TRUE]
               ELSE slots[n]])

(* The slot a LET merges its case into. *)
Redefined(n) ==
  \/ ~HasSlot(n)
  \/ slots[n].kind = "input" /\ given.replace
  \/ slots[n].kind = "fixed" /\ slots[n].replaceable

(* Faulty variant of Carried: only the default of the old cases is kept. *)
Carried_DefaultOnly(slot) ==
  CASE slot.ast = NoAst -> Switch(<< >>, NoAst)
    [] slot.ast # NoAst /\ slot.replaceable -> Switch(<< >>, slot.ast.default)
    [] OTHER -> slot.ast

(* What a LET keeps of the definitions before it: a feature that may be    *)
(* replaced keeps them all as its default.                                 *)
Carried(slot) ==
  CASE slot.ast = NoAst -> Switch(<< >>, NoAst)
    [] slot.ast # NoAst /\ slot.replaceable -> Switch(<< >>, slot.ast)
    [] OTHER -> slot.ast

Merged(slot, switch) ==
  [slot EXCEPT !.ast = switch, !.replaceable = FALSE, !.final = Statement.final]

(* A second DEFAULT replaces the first: defaultCaseReplaceable is set by   *)
(* the first LET of a feature and never reset.                             *)
MergeDefault(n, slot) ==
  IF GlobalWhere # True
    THEN Refuse("default under where")
    ELSE Done(Put(slots, n, Merged(slot, Switch(Carried(slot).cases, Statement.expr))))

(* The clauses of all cases must be disjoint; a case that is always true   *)
(* replaces the others.                                                    *)
MergeCase(n, slot) ==
  LET combined == And(GlobalWhere, Statement.where)
      this     == Case(Statement.expr, SlotRef(WhereName(combined)), combined)
      cases    == Append(Carried(slot).cases, this)
      clauses  == [i \in 1..Len(cases) |-> cases[i].combined]
      always   == IsConstantTrue(this.where)
  IN CASE ~Reducible(combined) -> Refuse("invalid where")
       [] Reducible(combined) /\ Incomparable(clauses) -> Refuse("invalid where")
       [] Reducible(combined) /\ ~Incomparable(clauses) /\ Intersects(clauses) ->
            Refuse("multiple definitions")
       [] OTHER ->
            Done(Put(WithWhereSlot(slots, combined), n, Merged(slot,
              IF always THEN Switch(<<this>>, NoAst)
                        ELSE Switch(cases, Carried(slot).default))))

PushLet ==
  /\ Pushing("let")
  /\ LET n == F(Statement.feature)
         slot == IF Redefined(n) THEN NewFeatureSlot ELSE slots[n]
     IN CASE slot.kind # "feature" -> Refuse("previously defined")
          [] slot.kind = "feature" /\ slot.final -> Refuse("final")
          [] slot.kind = "feature" /\ ~slot.final /\ Statement.default ->
               MergeDefault(n, slot)
          [] OTHER -> MergeCase(n, slot)

(* CREATE RULE *)
PushRule ==
  /\ Pushing("rule")
  /\ LET n == F(Statement.name)
     IN IF HasSlot(n)
          THEN Refuse("previously defined")
          ELSE Done(Put(slots, n,
                 [kind |-> "rule", ast |-> Call("bool", <<Statement.where>>),
                  where |-> GlobalWhere, reasons |-> Statement.reasons]))

-----------------------------------------------------------------------------
(* A call of a statement function. *)
PushCall ==
  /\ Pushing("call")
  /\ IF Statement.func \notin DOMAIN StatementFeature
       THEN Refuse("not a statement")
       ELSE Done(AddStatement(slots, GlobalWhere, StatementFeature[Statement.func],
                              RegisterCall(Statement)))

(* IF c1 THEN IF c2 THEN ... a call: the call, and the conditions on it.   *)
RECURSIVE Unnested(_, _)
Unnested(ast, condition) ==
  CASE ast.type = "if" /\ ast.false = Null ->
         Unnested(ast.true, And(condition, ast.condition))
    [] ast.type = "call" /\ ast.func \in DOMAIN StatementFeature ->
         <<condition, ast>>
    [] OTHER -> << >>

PushIf ==
  /\ Pushing("if")
  /\ LET parts == Unnested(Statement, True)
     IN IF parts = << >>
          THEN Refuse("not a statement")
          ELSE Done(AddStatement(slots, GlobalWhere, StatementFeature[parts[2].func],
                                 Branch(parts[1], RegisterCall(parts[2]), Null)))

(* compileWhenBlock(): the cause of the block gets a slot, and each of its *)
(* statements is pushed as an if on that slot.                             *)
WhenCause(rules) ==
  Call("_buildWhenCause", <<ListOf([i \in 1..Len(rules) |->
    Branch(Feature(rules[i]),
           ListOf([j \in 1..Len(slots[F(rules[i])].reasons) |->
                     Feature(slots[F(rules[i])].reasons[j])]),
           Null)])>>)

PushWhen ==
  /\ Pushing("when")
  /\ IF \E i \in 1..Len(Statement.rules) :
          \/ ~HasSlot(F(Statement.rules[i]))
          \/ slots[F(Statement.rules[i])].kind # "rule"
       THEN Refuse("unknown rule")
       ELSE LET cause == WhenCause(Statement.rules)
                ref   == SlotRef(GlobalName(GlobalWhere, cause))
                Block(call) == Branch(ref, [call EXCEPT !.args = <<ref>> \o @], Null)
            IN /\ slots' = NewGlobal(slots, GlobalWhere, cause)
               /\ todo' = Under([i \in 1..Len(Statement.calls) |-> Block(Statement.calls[i])],
                                GlobalWhere) \o Tail(todo)
               /\ UNCHANGED <<program, given, code, outcome>>

-----------------------------------------------------------------------------
(* INCLUDE: the statements of the file take the place of the INCLUDE.      *)
PushInclude ==
  /\ Pushing("include")
  /\ IF ~Reducible(Statement.where)
       THEN Refuse("invalid where")
       ELSE /\ todo' = Under(Files[Statement.file], And(GlobalWhere, Statement.where))
                         \o Tail(todo)
            /\ UNCHANGED <<program, given, slots, code, outcome>>

(* INCLUDE "dir/${Feature}.sqrl": every file of the directory, each under  *)
(* the condition that the feature has the value the file is named for.     *)
PushIncludeDirectory ==
  /\ Pushing("includeDirectory")
  /\ LET Included(file) ==
           Under(file.statements, And(GlobalWhere, Equals(Statement.feature, file.value)))
     IN todo' = FlattenSeq([i \in 1..Len(Directory) |-> Included(Directory[i])])
                  \o Tail(todo)
  /\ UNCHANGED <<program, given, slots, code, outcome>>

-----------------------------------------------------------------------------
(* SqrlCompiledOutput: no slot may refer to a feature nobody defined, or   *)
(* to itself; the others compile. Which refusal comes first depends on the *)
(* order of the slots.                                                     *)
Compile ==
  /\ outcome = "reading" /\ todo = << >>
  /\ LET refs == [n \in DOMAIN slots |-> References(FinalizedAst(slots[n]))]
         undefined == UNION {refs[n] : n \in DOMAIN refs} \ DOMAIN slots
         loop == Circular(DOMAIN slots, refs)
     IN IF undefined = {} /\ ~loop
          THEN /\ code' = Translation(slots)
               /\ outcome' = "compiled"
          ELSE /\ \/ undefined # {} /\ outcome' = "undefined feature"
                  \/ loop /\ outcome' = "depends on itself"
               /\ UNCHANGED code
  /\ UNCHANGED <<program, given, todo, slots>>

Init ==
  /\ program \in Programs
  /\ given \in Givens
  /\ todo = Under(program, True)
  /\ slots = [n \in {F(f) : f \in DOMAIN Defaults} |->
               FixedSlot(Const(Defaults[n.feature]), TRUE)]
             @@ [n \in {F(StatementFeature[f]) : f \in DOMAIN StatementFeature} |->
                   StatementSlot({})]
             @@ Completion :>
                  StatementSlot({F(StatementFeature[f]) : f \in DOMAIN StatementFeature})
  /\ code = << >>
  /\ outcome = "reading"

Next ==
  \/ PushInput \/ PushReset \/ PushLet \/ PushRule
  \/ PushCall \/ PushIf \/ PushWhen
  \/ PushInclude \/ PushIncludeDirectory
  \/ Compile

Spec == Init /\ [][Next]_compilerVars

=============================================================================
