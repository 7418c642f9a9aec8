------------------------------ MODULE MCCompile ------------------------------
(***************************************************************************)
(* Programs for TLC: every sequence of up to MaxStatements statements of a *)
(* catalogue, after a prelude that declares two inputs and, in one of two  *)
(* cases, definitions an earlier release might have made.                  *)
(***************************************************************************)
EXTENDS CompiledCode

CONSTANT MaxStatements

LetWhere(f, e, where) ==
  [type |-> "let", feature |-> f, expr |-> e, where |-> where,
   default |-> FALSE, final |-> FALSE]
Let(f, e) == LetWhere(f, e, True)
LetDefault(f, e) == [Let(f, e) EXCEPT !.default = TRUE]
LetFinal(f, e) == [Let(f, e) EXCEPT !.final = TRUE]
Input(f) == [type |-> "input", feature |-> f]
Rule(r, where, reasons) ==
  [type |-> "rule", name |-> r, where |-> where, reasons |-> reasons]
When(rules, calls) == [type |-> "when", rules |-> rules, calls |-> calls]
Include(file, where) == [type |-> "include", file |-> file, where |-> where]
Reset == [type |-> "reset"]

B == Feature("B")
SIs(c) == Equals("S", c)

Inputs_ ==
  <<Input("B"), Input("S")>>

Release ==
  <<Let("A", Const("old")), LetWhere("D", Const("some"), SIs("b")),
    Rule("R", SIs("a"), <<"A">>), Rule("Q", EitherOf(B, Differs("S", "b")), <<"D">>), Reset>>

MCFiles ==
  [ more |-> <<LetWhere("A", Const("more"), SIs("b")),
               Call("note", <<Feature("A")>>),
               Branch(SIs("a"), Branch(Not(B), Call("note", <<Const("if")>>), Null), Null)>>,
    defaults |-> <<LetDefault("A", Const("included"))>> ]

MCDirectory ==
  <<[value |-> "a", statements |-> <<Let("E", Const("in a")), Rule("P", B, << >>)>>],
    [value |-> "b", statements |-> <<Let("E", Const("in b")), Call("note", <<B>>)>>]>>

Catalogue ==
  { Let("A", Const("one")),
    LetWhere("A", Const("two"), B),
    LetWhere("A", Const("three"), BothOf(Not(B), SIs("a"))),
    LetWhere("A", Feature("S"), Differs("S", "a")),
    LetDefault("A", Const("none")),
    LetWhere("A", Const("four"), Equals("B", "b")),
    LetFinal("C", Feature("A")),
    Let("A", Feature("C")),
    LetWhere("A", Const("bad"), BothOf(B, Const("x"))),
    Let("Clock", Const("later")),
    Let("B", Feature("S")),
    Input("S"),
    Reset,
    Rule("T", BothOf(Not(Feature("A")), EitherOf(B, SIs("a"))), <<"A">>),
    When(<<"R", "Q">>, <<Call("block", <<Const("w")>>)>>),
    When(<<"T">>, <<Call("block", <<Feature("A")>>)>>),
    Branch(B, Branch(SIs("b"), Call("note", <<Const("deep")>>), Null), Null),
    Include("more", Not(B)),
    Include("defaults", True),
    Include("defaults", B),
    [type |-> "includeDirectory", feature |-> "S"],
    Call("count", << >>) }

MCPrograms ==
  {p \o s : p \in {Inputs_, Inputs_ \o Release},
            s \in UNION {[1..n -> Catalogue] : n \in 0..MaxStatements}}

MCGivens ==
  {[inputs |-> << >>, replace |-> TRUE], [inputs |-> [B |-> "true"], replace |-> FALSE]}
MCDefaults == [Clock |-> "now"]
MCStatementFeature == [note |-> "NoteStatements", block |-> "BlockStatements"]
MCInputs == [B : {"true", "false", "null", "b"}, S : {"a", "b", "c", "null"}]

=============================================================================
