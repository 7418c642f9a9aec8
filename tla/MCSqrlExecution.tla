--------------------------- MODULE MCSqrlExecution ---------------------------
(***************************************************************************)
(* A small program for TLC. `score` and `label` are asynchronous functions *)
(* (`label` takes null arguments), `strict` and `guard` are rules sharing  *)
(* both of them, `pick` chooses between them lazily, `text` is a           *)
(* synchronous function of the input and `all` a statement feature.        *)
(*                                                                         *)
(*   LET User := input();                                                  *)
(*   CREATE RULE strict WHERE text AND score AND label;                    *)
(*   CREATE RULE guard WHERE NOT text OR score;                            *)
(***************************************************************************)
EXTENDS SqrlExecution

MCSlots == {"user", "text", "score", "label", "strict", "nottext", "guard", "pick", "all"}

MCKind == [
  user |-> "input", text |-> "sync", score |-> "async", label |-> "async",
  strict |-> "and", nottext |-> "not", guard |-> "or", pick |-> "if", all |-> "wait"]

MCDeps == [
  user    |-> << >>,
  text    |-> <<"user">>,
  score   |-> <<"user">>,
  label   |-> <<"user">>,
  strict  |-> <<"text", "score", "label">>,
  nottext |-> <<"text">>,
  guard   |-> <<"nottext", "score">>,
  pick    |-> <<"guard", "label", "text">>,
  all     |-> <<"strict", "pick">>]

MCRank == [
  user |-> 0, text |-> 1, score |-> 1, label |-> 1, strict |-> 2,
  nottext |-> 2, guard |-> 3, pick |-> 4, all |-> 5]

MCNullOk == {"label"}

MCResults == [s \in MCSlots |->
  CASE s = "user" -> {"true", "null"}
    [] s \in {"text", "score"} -> {"true", "false"}
    [] s = "label" -> {"false", "null"}
    [] OTHER -> {"null"}]

MCRoots == {"all", "guard"}

=============================================================================
