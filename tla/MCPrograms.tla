----------------------------- MODULE MCPrograms -----------------------------
(***************************************************************************)
(* The programs that run for long, for TLC, one in each behaviour: the     *)
(* stream of `sqrl run --stream`, the recompilations beside it (its        *)
(* actions read the current executable and nothing else of them),          *)
(* `sqrl repl`, and the demonstration page.                                *)
(*                                                                         *)
(* The stream has five lines, one of them no JSON and one blocked, two     *)
(* actions at a time and tables of two rows. The sources are edited four   *)
(* times. The inputs of the REPL define, redefine and assert A and B. The  *)
(* text of the page is edited four times, or twice with one move of the    *)
(* playhead, or there are two moves; where a move disturbs a chain, three, *)
(* or one with one move.                                                   *)
(***************************************************************************)
EXTENDS CliStream, Recompile, Repl, StreamPage

CONSTANTS
  Programs,            (* the programs to check *)
  good, bad, lacking   (* texts of the page *)

VARIABLE program

allVars == <<program, cliVars, recompileVars, replVars, pageVars>>

ValidDef == {1, 2, 4, 5}
BlockedDef == {4}

Item(sort, feature, repeat) == [sort |-> sort, feature |-> feature, repeat |-> repeat]

(* LET A := .. WHERE ..; ASSERT ..; LET A := ..  (and the value of A)      *)
(* LET B := ..; ASSERT ..; ASSERT ..; EXECUTE 2; CREATE RULE ..            *)
(* A                                                                       *)
(* LET A := ..; LET B := ..                                                *)
InputsDef == <<
  [wish |-> TRUE, list |-> <<Item("letWhere", "A", 0), Item("assert", "A", 0),
                             Item("let", "A", 0)>>],
  [wish |-> FALSE, list |-> <<Item("let", "B", 0), Item("assert", "A", 0),
                              Item("assert", "B", 0), Item("execute", "", 2),
                              Item("other", "", 0)>>],
  [wish |-> TRUE, list |-> << >>],
  [wish |-> FALSE, list |-> <<Item("let", "A", 0), Item("let", "B", 0)>>]>>

TextsDef == {good, bad, lacking}
EventsInDef == [w \in 0..2 |-> IF w = 1 THEN 2 ELSE 1]

MCInit == program \in Programs /\ StreamInit /\ RecompileInit /\ ReplInit /\ PageInit

MCNext ==
  /\ \/ /\ program = "stream" /\ StreamNext
        /\ UNCHANGED <<recompileVars, replVars, pageVars>>
     \/ /\ program = "watch" /\ RecompileNext
        /\ UNCHANGED <<cliVars, replVars, pageVars>>
     \/ /\ program = "repl" /\ ReplNext
        /\ UNCHANGED <<cliVars, recompileVars, pageVars>>
     \/ /\ program = "page" /\ PageNext
        /\ typed' + 2 * moves' <= IF calm' THEN 4 ELSE 3
        /\ UNCHANGED <<cliVars, recompileVars, replVars>>
  /\ UNCHANGED program

(* The stream emits what it has, executions end (their functions have      *)
(* timers) and the callbacks of mutate() are answered or fail.             *)
StreamFairness ==
  LET runs == program = "stream"
  IN /\ WF_cliVars(runs /\ (SkipLine \/ StartAction \/ EndOfInput))
     /\ WF_cliVars(runs /\ AwaitZero) /\ WF_cliVars(runs /\ Close)
     /\ \A l \in Lines : WF_cliVars(runs /\ Executed(l)) /\ WF_cliVars(runs /\ Settle(l))

(* Continuations run, executions end, the commands of mutations are        *)
(* answered, and the user leaves in the end.                               *)
ReplFairness ==
  LET runs == program = "repl" /\ console # "gone"
  IN /\ WF_replVars(runs /\ Exit) /\ WF_replVars(runs /\ Gone)
     /\ \A j \in InputIds : WF_replVars(runs /\ GetTurn(j)) /\ WF_replVars(runs /\ Evaluate(j))

(* Messages are delivered and timers fire, fetches and executions end, and *)
(* time goes on.                                                           *)
PageFairness ==
  LET runs == program = "page"
  IN /\ WF_pageVars(runs /\ ReceiveAnswer) /\ WF_pageVars(runs /\ WorkerStep)
     /\ WF_pageVars(runs /\ NextWindow)
     /\ \A c \in 1..(NumMoves + 1) : WF_pageVars(runs /\ c \in Chains /\ ChainStep(c))

MCSpec ==
  /\ MCInit /\ [][MCNext]_allVars
  /\ StreamFairness /\ ReplFairness /\ PageFairness

(* A stream whose input does not fail is processed to its end: no pause is *)
(* forever and the end of the last action is not missed. A REPL that is    *)
(* left ends after its inputs, unless a wait for the turn has timed out.   *)
(* The page plays all events there are, unless it is disturbed.            *)
ProgramsFinish ==
  /\ program = "stream" => <>(run \in {"closed", "failed"})
  /\ program = "repl" /\ []Turn!NobodyRefused => <>(console = "gone")
  /\ program = "page" => StreamGoesOn

=============================================================================
