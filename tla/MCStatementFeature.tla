-------------------------- MODULE MCStatementFeature --------------------------
(***************************************************************************)
(* The example of website/source/functions/statement.md: writeFile() is a  *)
(* statement that awaits the disk, SqrlFileStatements its feature.         *)
(***************************************************************************)
EXTENDS SqrlExecution

MCSlots == {"Username", "writeFile", "SqrlFileStatements", "SqrlExecutionComplete"}

MCKind == [
  Username |-> "input", writeFile |-> "async",
  SqrlFileStatements |-> "wait", SqrlExecutionComplete |-> "wait"]

MCDeps == [
  Username |-> << >>, writeFile |-> <<"Username">>,
  SqrlFileStatements |-> <<"writeFile">>,
  SqrlExecutionComplete |-> <<"SqrlFileStatements">>]

MCRank == [
  Username |-> 0, writeFile |-> 1, SqrlFileStatements |-> 2,
  SqrlExecutionComplete |-> 3]

MCResults == [s \in MCSlots |-> IF s = "Username" THEN {"true"} ELSE {"null"}]

=============================================================================
