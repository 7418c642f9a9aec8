----------------------------- MODULE MCServerRun -----------------------------
(***************************************************************************)
(* A small ruleset for TLC, with one statement of each sort:               *)
(*                                                                         *)
(*   LET Ip := input();                                                    *)
(*   CREATE RULE limited WHERE rateLimited(BY Ip ...);                     *)
(*   CREATE RULE trusted WHERE regexTest("^10[.]", Ip);                    *)
(*   WHEN limited THEN blockAction(), addLabel(Ip, "seen");                *)
(*   WHEN trusted THEN whitelistAction();                                  *)
(*   LET Total := count(BY Ip);   (the statement bump, the feature total)  *)
(***************************************************************************)
EXTENDS ServerRun

MCSlots == {"now", "ip", "nil", "limited", "trusted", "block", "white",
            "onLimited", "onTrusted", "label", "onSeen", "bump", "total", "complete"}

MCKind == [s \in MCSlots |->
  CASE s \in {"ip", "nil"} -> "input"
    [] s \in {"now", "trusted"} -> "sync"
    [] s \in {"onLimited", "onTrusted", "onSeen"} -> "if"
    [] s = "complete" -> "wait"
    [] OTHER -> "async"]

MCDeps == [
  now |-> << >>, ip |-> << >>, nil |-> << >>,
  limited |-> <<"ip">>, trusted |-> <<"ip">>, total |-> <<"ip">>,
  block |-> << >>, white |-> << >>, label |-> <<"ip">>, bump |-> <<"ip">>,
  onLimited |-> <<"limited", "block", "nil">>,
  onTrusted |-> <<"trusted", "white", "nil">>,
  onSeen |-> <<"limited", "label", "nil">>,
  complete |-> <<"onLimited", "onTrusted", "onSeen", "bump">>]

MCRank == [s \in MCSlots |->
  CASE s \in {"now", "ip", "nil"} -> 0
    [] s \in {"onLimited", "onTrusted", "onSeen"} -> 2
    [] s = "complete" -> 3
    [] OTHER -> 1]

MCNullOk == {"block", "white", "label", "bump"}

(* regexTest() says yes or fails, which is as good as no to a condition.   *)
MCResults == [s \in MCSlots |->
  CASE s = "now" -> {"true", "null"}
    [] s = "ip" -> {"true"}
    [] s = "limited" -> {"true", "false"}
    [] s \in {"trusted", "total"} -> {"true"}
    [] OTHER -> {"null"}]

MCWishes == {{}, {"total"}, {"total", "Oops"}}

MCCause == [block |-> "limited", white |-> "trusted", label |-> "limited", bump |-> "ip"]

=============================================================================
