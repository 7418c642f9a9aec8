----------------------------- MODULE WhereClause -----------------------------
(***************************************************************************)
(* What the compiler decides about WHERE clauses at compile time           *)
(* (SqrlTruthTable and astIntersects): which it accepts, the truth table   *)
(* that names the slot two equal clauses share, and whether two clauses    *)
(* may hold together.                                                      *)
(***************************************************************************)
EXTENDS Ast

(* ensureValidAst(). *)
RECURSIVE ValidWhere(_)
ValidWhere(ast) ==
  CASE ast.type \in {"feature", "eq", "neq"} -> TRUE
    [] ast.type = "not" -> ValidWhere(ast.expr)
    [] ast.type \in {"and", "or"} -> ValidWhere(ast.left) /\ ValidWhere(ast.right)
    [] OTHER -> FALSE

(* reduceTruthTable() accepts no constant but true. *)
Reducible(ast) == ast = True \/ ValidWhere(ast)

(* The propositions of a clause: a feature, or a feature with one of the   *)
(* strings it is compared with.                                            *)
RECURSIVE Propositions(_)
Propositions(ast) ==
  CASE ast.type = "feature" -> {<<ast.value>>}
    [] ast.type \in {"eq", "neq"} -> {<<ast.feature, ast.constant>>}
    [] ast.type = "not" -> Propositions(ast.expr)
    [] ast.type \in {"and", "or"} -> Propositions(ast.left) \union Propositions(ast.right)
    [] OTHER -> {}

(* calculate() of both files: does the clause hold when the propositions   *)
(* in `holds` are true and the others false?                               *)
RECURSIVE Satisfied(_, _)
Satisfied(ast, holds) ==
  CASE ast = True -> TRUE
    [] ast.type = "feature" -> <<ast.value>> \in holds
    [] ast.type = "eq"  -> <<ast.feature, ast.constant>> \in holds
    [] ast.type = "neq" -> <<ast.feature, ast.constant>> \notin holds
    [] ast.type = "not" -> ~Satisfied(ast.expr, holds)
    [] ast.type = "and" -> Satisfied(ast.left, holds) /\ Satisfied(ast.right, holds)
    [] ast.type = "or"  -> Satisfied(ast.left, holds) \/ Satisfied(ast.right, holds)

(* The truth table of a clause, as the set of its rows that are 1. *)
TruthTable(ast) == {holds \in SUBSET Propositions(ast) : Satisfied(ast, holds)}

(* The name bool(<features>:<truth table>) of the slot that holds a clause. *)
WhereName(ast) == [where |-> Propositions(ast), truth |-> TruthTable(ast)]

-----------------------------------------------------------------------------
(* extractFeatureValueSets() and setCombinations(): a feature used as a    *)
(* condition is true or false, one that is compared has one of the strings *)
(* it is compared with, and nothing else.                                  *)
Booleans(props) == {p \in props : Len(p) = 1}
Compared(props) == {p[1] : p \in {q \in props : Len(q) = 2}}
Mixed(props)    == \E p \in Booleans(props) : p[1] \in Compared(props)

Situations(props) ==
  LET Strings(f)  == {<<f, p[2]>> : p \in {q \in props : Len(q) = 2 /\ q[1] = f}}
      Valuations == {c \in [Compared(props) -> props] :
                    \A f \in Compared(props) : c[f] \in Strings(f)}
  IN {yes \union {c[f] : f \in DOMAIN c} : yes \in SUBSET Booleans(props), c \in Valuations}

(* A feature both used as a condition and compared, in clauses that are    *)
(* checked against each other, is refused.                                 *)
Incomparable(clauses) ==
  /\ Len(clauses) > 1
  /\ \A i \in 1..Len(clauses) : clauses[i] # True
  /\ Mixed(UNION {Propositions(clauses[i]) : i \in 1..Len(clauses)})

(* astIntersects(). *)
Intersects(clauses) ==
  /\ Len(clauses) > 1
  /\ \/ \E i \in 1..Len(clauses) : clauses[i] = True
     \/ \E s \in Situations(UNION {Propositions(clauses[i]) : i \in 1..Len(clauses)}) :
          \E i, j \in 1..Len(clauses) :
            i # j /\ Satisfied(clauses[i], s) /\ Satisfied(clauses[j], s)

=============================================================================
