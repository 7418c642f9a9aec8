--------------------------------- MODULE Repl ---------------------------------
(***************************************************************************)
(* The interactive program (SqrlRepl) on top of the list of statements     *)
(* that SqrlTest keeps between inputs. Inputs may arrive while an earlier  *)
(* one is evaluated: a semaphore evaluates one at a time. The runner works *)
(* off the statements of an input: assertions are collected and checked in *)
(* an execution of their own before the next statement is added, EXECUTE   *)
(* runs everything so far, and an execution that fails takes back what the *)
(* input has added.                                                        *)
(*                                                                         *)
(* A statement is <<input, index>>; what it says is in Inputs.             *)
(***************************************************************************)
EXTENDS Integers, Sequences, FiniteSets, Functions

CONSTANTS
  Inputs       (* what is entered, in order: statements and a wish           *)

(* A statement is an assertion, an EXECUTE, a LET of a feature with or     *)
(* without WHERE, or any other; a wish asks for the value of a feature.    *)
Sorts == {"assert", "execute", "let", "letWhere", "other"}
InputIds == DOMAIN Inputs

ASSUME ReplAssumption ==
  Inputs \in Seq([wish : BOOLEAN,
                  list : Seq([sort : Sorts, feature : STRING, repeat : Nat])])

VARIABLES
  statements,  (* SqrlTest.statements                                        *)
  at,          (* how far the evaluation of each input has come              *)
  next,        (* the statement of the input the loop is at                  *)
  round,       (* the executions of the EXECUTE it is at                     *)
  assertions,  (* the assertions collected, by index                         *)
  executions,  (* the executions that succeeded                              *)
  previous,    (* prevStatements                                             *)
  checks,      (* what each execution checked, and which statements it saw   *)
  console,     (* "open", "exiting" or "gone"                                *)
  busyCount, busyMax, busyQueue, busyOf, busyZero    (* the semaphore busy   *)

turnVars == <<busyCount, busyMax, busyQueue, busyOf, busyZero>>
listVars == <<next, round, assertions, executions, previous, checks>>
replVars == <<statements, at, listVars, console, turnVars>>

Turn == INSTANCE Semaphore WITH
  Requests <- InputIds, NoMax <- -1, Limits <- {1}, Impatient <- InputIds,
  count <- busyCount, max <- busyMax, resolvers <- busyQueue,
  status <- busyOf, zeroPending <- busyZero

List(j) == Inputs[j].list
Said(s) == List(s[1])[s[2]]
IsLet(s) == Said(s).sort \in {"let", "letWhere"}

ReplInit ==
  /\ statements = << >>
  /\ at = [j \in InputIds |-> "idle"]
  /\ next = [j \in InputIds |-> 1]
  /\ round = [j \in InputIds |-> 0]
  /\ assertions = [j \in InputIds |-> << >>]
  /\ executions = [j \in InputIds |-> 0]
  /\ previous = [j \in InputIds |-> << >>]
  /\ checks = [j \in InputIds |-> << >>]
  /\ console = "open"
  /\ Turn!SemInit

(* Input j moves on to place p. *)
Go(j, p) == at' = [at EXCEPT ![j] = p]

-----------------------------------------------------------------------------
(* eval(): an input asks for its turn. *)
Enter(j) ==
  /\ console = "open"
  /\ \A i \in InputIds : i < j => busyOf[i] # "idle"
  /\ Turn!Increment(j)
  /\ UNCHANGED <<statements, at, listVars, console>>

GetTurn(j) == Turn!Resume(j) /\ UNCHANGED <<statements, at, listVars, console>>

(* increment() rejects before the try block: nothing is decremented. *)
GiveUpTurn(j) == Turn!TimeOut(j) /\ UNCHANGED <<statements, at, listVars, console>>

(* Faulty variant of HasTurn: increment() is not awaited. *)
HasTurn_Always(j) == busyOf[j] # "idle"

HasTurn(j) == busyOf[j] = "holding"

(* repl(): a feature name runs no statements, nor does what has none. *)
Begin(j) ==
  /\ at[j] = "idle" /\ HasTurn(j)
  /\ Go(j, IF List(j) # << >> THEN "listing"
           ELSE IF Inputs[j].wish THEN "fetching" ELSE "done")
  /\ previous' = [previous EXCEPT ![j] = statements]
  /\ UNCHANGED <<statements, next, round, assertions, executions, checks, console, turnVars>>

(* executeStatements(): compiles what is there and runs it. *)
Execute(j) ==
  /\ Go(j, "executing")
  /\ checks' = [checks EXCEPT ![j] =
       Append(@, [asserted |-> assertions[j], saw |-> statements])]
  /\ UNCHANGED <<statements, next, round, assertions, executions, previous>>

NextIs(j, sorts) ==
  /\ at[j] = "listing"
  /\ next[j] <= Len(List(j)) /\ List(j)[next[j]].sort \in sorts

Collect(j) ==
  /\ NextIs(j, {"assert"})
  /\ assertions' = [assertions EXCEPT ![j] = Append(@, next[j])]
  /\ next' = [next EXCEPT ![j] = @ + 1]
  /\ UNCHANGED <<statements, at, round, executions, previous, checks>>

Repeat(j) ==
  /\ NextIs(j, {"execute"})
  /\ IF round[j] < List(j)[next[j]].repeat
       THEN Execute(j)
       ELSE /\ next' = [next EXCEPT ![j] = @ + 1]
            /\ round' = [round EXCEPT ![j] = 0]
            /\ UNCHANGED <<statements, at, assertions, executions, previous, checks>>

(* A LET without WHERE replaces the first LET of its feature in place. *)
Added(list, s) ==
  LET same == {i \in DOMAIN list : IsLet(list[i]) /\ Said(list[i]).feature = Said(s).feature}
  IN IF Said(s).sort = "let" /\ same # {}
       THEN [list EXCEPT ![CHOOSE i \in same : \A k \in same : i <= k] = s]
       ELSE Append(list, s)

(* Faulty variant of Add: the assertions before it wait for the end.       *)
Add_First(j) ==
  /\ NextIs(j, {"let", "letWhere", "other"})
  /\ statements' = Added(statements, <<j, next[j]>>)
  /\ next' = [next EXCEPT ![j] = @ + 1]
  /\ UNCHANGED <<at, round, assertions, executions, previous, checks>>

Add(j) ==
  /\ NextIs(j, {"let", "letWhere", "other"})
  /\ IF assertions[j] # << >>
       THEN Execute(j)
       ELSE /\ statements' = Added(statements, <<j, next[j]>>)
            /\ next' = [next EXCEPT ![j] = @ + 1]
            /\ UNCHANGED <<at, round, assertions, executions, previous, checks>>

(* After the loop; an input that executed nothing is executed once. *)
EndList(j) ==
  /\ at[j] = "listing" /\ next[j] > Len(List(j))
  /\ IF assertions[j] # << >> \/ executions[j] = 0
       THEN Execute(j)
       ELSE /\ Go(j, IF Inputs[j].wish THEN "fetching" ELSE "done")
            /\ UNCHANGED <<statements, listVars>>

(* The assertions hold; an EXECUTE goes on to the mutations. *)
ExecutionEnds(j) ==
  /\ at[j] = "executing"
  /\ executions' = [executions EXCEPT ![j] = @ + 1]
  /\ assertions' = [assertions EXCEPT ![j] = << >>]
  /\ Go(j, IF next[j] <= Len(List(j)) /\ List(j)[next[j]].sort = "execute"
             THEN "mutating" ELSE "listing")
  /\ UNCHANGED <<statements, next, round, previous, checks>>

(* It does not compile, or an assertion fails: the input is taken back. *)
Reject(j) ==
  /\ at[j] = "executing"
  /\ Go(j, "rejected")
  /\ statements' = previous[j]
  /\ UNCHANGED listVars

Mutated(j) ==
  /\ at[j] = "mutating"
  /\ Go(j, "listing")
  /\ round' = [round EXCEPT ![j] = @ + 1]
  /\ UNCHANGED <<statements, next, assertions, executions, previous, checks>>

(* The error of a mutation ends the list and takes nothing back. *)
MutationFails(j) ==
  /\ at[j] = "mutating"
  /\ Go(j, "stuck")
  /\ UNCHANGED <<statements, listVars>>

(* executeStatements([]) and fetchByName(), which may fail. *)
Fetched(j) ==
  /\ at[j] = "fetching"
  /\ Go(j, "done")
  /\ UNCHANGED <<statements, listVars>>

(* finally { busy.decrement() } *)
Leave(j) ==
  /\ at[j] \in {"done", "rejected", "stuck"}
  /\ Turn!Release(j)
  /\ UNCHANGED <<statements, at, listVars, console>>

Exit ==
  /\ console = "open"
  /\ console' = "exiting"
  /\ Turn!WaitForZero
  /\ UNCHANGED <<statements, at, listVars>>

(* The callback of "exit" ends the program. *)
Gone ==
  /\ console = "exiting" /\ ~busyZero
  /\ console' = "gone"
  /\ UNCHANGED <<statements, at, listVars, turnVars>>

InList(j) ==
  /\ \/ Collect(j) \/ Repeat(j) \/ Add(j) \/ EndList(j) \/ ExecutionEnds(j) \/ Reject(j)
     \/ Mutated(j) \/ MutationFails(j) \/ Fetched(j)
  /\ UNCHANGED <<console, turnVars>>

Evaluate(j) == Begin(j) \/ InList(j) \/ Leave(j)

ReplNext ==
  /\ console # "gone"
  /\ \/ Exit \/ Gone
     \/ \E j \in InputIds : Enter(j) \/ GetTurn(j) \/ GiveUpTurn(j) \/ Evaluate(j)

-----------------------------------------------------------------------------
(* What stands in the list before statement k of input j. *)
Before(j, k) ==
  LET S[i \in 0..(k - 1)] ==
        IF i = 0 THEN previous[j]
        ELSE IF List(j)[i].sort \in {"assert", "execute"} THEN S[i - 1]
        ELSE Added(S[i - 1], <<j, i>>)
  IN S[k - 1]

(* An assertion is checked against the statements that stand before it in  *)
(* its input and those that earlier inputs left, never against later ones; *)
(* and an input that is accepted has had each of its assertions checked,   *)
(* once, however they are batched and however often EXECUTE repeats.       *)
AssertedInPlace ==
  \A j \in InputIds :
    /\ \A c \in Range(checks[j]) : \A k \in Range(c.asserted) :
         List(j)[k].sort = "assert" /\ c.saw = Before(j, k)
    /\ at[j] \in {"fetching", "done"} =>
         \A k \in DOMAIN List(j) : List(j)[k].sort = "assert" =>
           Cardinality({i \in DOMAIN checks[j] : k \in Range(checks[j][i].asserted)}) = 1

Defines(s) == Said(s).sort \notin {"assert", "execute"}

(* Inputs are all or nothing, although they may be entered while another   *)
(* is evaluated: what an accepted input defined stays, unless a later LET  *)
(* of the same feature took its place, whatever happens to other inputs;   *)
(* one that was rejected leaves nothing behind. And the program does not   *)
(* end in the middle of an input.                                          *)
AcceptedOrGone ==
  \A j \in InputIds :
    /\ at[j] \in {"fetching", "done"} =>
         \A k \in DOMAIN List(j) : Defines(<<j, k>>) =>
           \E s \in Range(statements) :
             s = <<j, k>> \/ (IsLet(<<j, k>>) /\ IsLet(s)
                              /\ Said(s).feature = Said(<<j, k>>).feature)
    /\ at[j] = "rejected" => \A s \in Range(statements) : s[1] # j
    /\ console = "gone" /\ busyOf[j] # "refused" => at[j] \in {"idle", "done", "rejected", "stuck"}

(* The evaluation of input j goes on when it is its turn: the guards of    *)
(* GetTurn(j) and Evaluate(j).                                             *)
Proceeds(j) ==
  \/ busyOf[j] = "passed"
  \/ /\ HasTurn(j)
     /\ \/ at[j] \in {"idle", "executing", "mutating", "fetching", "done", "rejected", "stuck"}
        \/ at[j] = "listing" /\ (next[j] > Len(List(j)) \/ NextIs(j, Sorts))

(* Inputs do not wait for one another, nor the end of the program for      *)
(* them, with none of them going on; unless a timer ran out.               *)
ReplNotStuck ==
  Turn!NobodyRefused /\ (console = "exiting" \/ \E j \in InputIds : busyOf[j] = "waiting") =>
    \/ console = "exiting" /\ ~busyZero
    \/ \E j \in InputIds : Proceeds(j)

=============================================================================
