------------------------------ MODULE CliStream ------------------------------
(***************************************************************************)
(* `sqrl run --stream`: the lines of standard input become actions that    *)
(* run concurrently (CliRun.stream), a semaphore without a maximum counts  *)
(* them, the stream is paused while there are as many as --concurrency     *)
(* allows, and the table output (CliTableOutput) prints them in batches.   *)
(***************************************************************************)
EXTENDS Naturals, Sequences, FiniteSets

CONSTANTS
  NumLines,     (* the lines on standard input                               *)
  Valid,        (* those that are valid JSON                                 *)
  Blocked,      (* those whose action is blocked                             *)
  Concurrency,  (* --concurrency, 0 for no limit                             *)
  OnlyBlocked,  (* --only-blocked                                            *)
  MaxTableRows, (* the rows of a full batch                                  *)
  NoMax         (* the semaphore has no maximum                              *)

Lines == 1..NumLines

ASSUME StreamAssumption ==
  /\ NumLines \in Nat /\ Concurrency \in Nat /\ MaxTableRows \in Nat \ {0}
  /\ Valid \subseteq Lines /\ Blocked \subseteq Lines
  /\ OnlyBlocked \in BOOLEAN

VARIABLES
  read,         (* the lines the stream has emitted                          *)
  flowing,      (* the stream is not paused                                  *)
  act,          (* how far the action of each line has come                  *)
  count,        (* the semaphore's count                                     *)
  zeroPending,  (* waitForZero() was called and is not resolved              *)
  max,          (* the semaphore's maximum and queue, which wrap() insists   *)
  resolvers,    (*   are not used                                            *)
  run,          (* how far stream() itself, and its caller, have come        *)
  rows,         (* the rows of the table that is being filled                *)
  printed       (* the rows that were printed, in order                      *)

busyVars == <<count, zeroPending, max, resolvers>>
cliVars == <<read, flowing, act, busyVars, run, rows, printed>>

Acting == {l \in Lines : act[l] \in {"executing", "mutating"}}

(* A request of the semaphore is an action that was started. *)
LockStatus ==
  [l \in Lines |->
    IF act[l] = "unread" THEN "idle" ELSE IF l \in Acting THEN "holding" ELSE "done"]

Busy == INSTANCE Semaphore WITH
  Requests <- Lines, Limits <- {NoMax}, Impatient <- {}, status <- LockStatus

StreamInit ==
  /\ read = 0
  /\ flowing = TRUE
  /\ act = [l \in Lines |-> "unread"]
  /\ count = 0
  /\ zeroPending = FALSE
  /\ max = NoMax
  /\ resolvers = << >>
  /\ run = "reading"
  /\ rows = << >>
  /\ printed = << >>

-----------------------------------------------------------------------------
(* The data event of a line that is no JSON: the error is printed. *)
SkipLine ==
  /\ run = "reading" /\ flowing
  /\ read < NumLines /\ read + 1 \notin Valid
  /\ read' = read + 1
  /\ UNCHANGED <<flowing, act, busyVars, run, rows, printed>>

(* Faulty variant of AtLimit: compares before the action is counted.       *)
AtLimit_Before(n) == Concurrency # 0 /\ n = Concurrency + 1

(* busy.getCount() === concurrency *)
AtLimit(n) == Concurrency # 0 /\ n = Concurrency

(* The data event of any other line: the action starts and is counted,     *)
(* and the stream is paused when that was the last one allowed.            *)
StartAction ==
  LET l == read + 1
  IN /\ run = "reading" /\ flowing
     /\ read < NumLines /\ l \in Valid
     /\ read' = l
     /\ act' = [act EXCEPT ![l] = "executing"]
     /\ Busy!Increment(l)
     /\ flowing' = ~AtLimit(count')
     /\ UNCHANGED <<run, rows, printed>>

(* The features and SqrlExecutionComplete were fetched. *)
Executed(l) ==
  /\ run # "failed"
  /\ act[l] = "executing"
  /\ act' = [act EXCEPT ![l] = "mutating"]
  /\ UNCHANGED <<read, flowing, busyVars, run, rows, printed>>

(* CliTableOutput.action() returns early for a blocked action when only    *)
(* blocked ones are asked for.                                             *)
Shown(l) == ~(OnlyBlocked /\ l \in Blocked)

(* Faulty variant of Show: a full batch is printed before the new row.     *)
Show_FlushFirst(l) ==
  IF ~Shown(l) THEN UNCHANGED <<rows, printed>>
  ELSE IF Len(rows) = MaxTableRows
         THEN rows' = << >> /\ printed' = printed \o rows
         ELSE rows' = Append(rows, l) /\ UNCHANGED printed

(* output.action(): the row joins the batch, a full batch is printed. *)
Show(l) ==
  IF ~Shown(l) THEN UNCHANGED <<rows, printed>>
  ELSE IF Len(rows) + 1 = MaxTableRows
         THEN rows' = << >> /\ printed' = printed \o Append(rows, l)
         ELSE rows' = Append(rows, l) /\ UNCHANGED printed

(* Faulty variant of Finish: only a successful action is counted down.     *)
Finish_ReleaseIfDone(l, how) ==
  /\ act' = [act EXCEPT ![l] = how]
  /\ IF how = "done" THEN Busy!Decrement(l) ELSE UNCHANGED busyVars
  /\ flowing' = TRUE
  /\ UNCHANGED <<read, run>>

(* The promiseFinally() of wrap() and the one around it, which run in the  *)
(* same turn of the event loop: the count goes down and the stream resumes.*)
Finish(l, how) ==
  /\ act' = [act EXCEPT ![l] = how]
  /\ Busy!Decrement(l)
  /\ flowing' = TRUE
  /\ UNCHANGED <<read, run>>

(* The callbacks of manipulator.mutate() succeeded. *)
Complete(l) ==
  /\ run # "failed"
  /\ act[l] = "mutating"
  /\ Show(l)
  /\ Finish(l, "done")

(* The execution or a callback failed: the error is caught and printed. *)
Fail(l) ==
  /\ run # "failed"
  /\ l \in Acting
  /\ Finish(l, "failed")
  /\ UNCHANGED <<rows, printed>>

(* The end event: the stream has emitted everything and is not paused. *)
EndOfInput ==
  /\ run = "reading" /\ flowing /\ read = NumLines
  /\ run' = "draining"
  /\ UNCHANGED <<read, flowing, act, busyVars, rows, printed>>

(* The error event rejects stream(), and the process exits. *)
StreamError ==
  /\ run = "reading"
  /\ run' = "failed"
  /\ UNCHANGED <<read, flowing, act, busyVars, rows, printed>>

AwaitZero ==
  /\ run = "draining"
  /\ run' = "waiting"
  /\ UNCHANGED <<read, flowing, act, rows, printed>>
  /\ Busy!WaitForZero

(* stream() returns and close() prints the rest of the table. *)
Close ==
  /\ run = "waiting" /\ ~zeroPending
  /\ run' = "closed"
  /\ rows' = << >>
  /\ printed' = printed \o rows
  /\ UNCHANGED <<read, flowing, act, busyVars>>

Settle(l) == Complete(l) \/ Fail(l)

StreamNext ==
  \/ SkipLine \/ StartAction \/ EndOfInput \/ StreamError \/ AwaitZero \/ Close
  \/ \E l \in Lines : Executed(l) \/ Settle(l)

-----------------------------------------------------------------------------
(* The types of the variables. *)
CliTypeOK ==
  /\ read \in 0..NumLines
  /\ flowing \in BOOLEAN
  /\ act \in [Lines -> {"unread", "executing", "mutating", "done", "failed"}]
  /\ count \in Nat
  /\ zeroPending \in BOOLEAN
  /\ max = NoMax /\ resolvers = << >>
  /\ run \in {"reading", "draining", "waiting", "closed", "failed"}
  /\ rows \in Seq(Lines) /\ Len(rows) < MaxTableRows
  /\ printed \in Seq(Lines)

(* The stream compares the count with --concurrency for equality only and  *)
(* every end of an action resumes it; still there are never more actions   *)
(* than that, the semaphore's count is the number of them, and the stream  *)
(* is paused only while some action is left to resume it.                  *)
ConcurrencyRespected ==
  /\ CliTypeOK
  /\ count = Cardinality(Acting)
  /\ Concurrency # 0 => count <= Concurrency
  /\ ~flowing => count > 0

(* Nothing that was mutated goes unreported: whatever order actions end in *)
(* and wherever the batches split, each one that is to be shown is printed *)
(* exactly once by the time the program ends; and it ends when every line  *)
(* was read and every action has ended, so that exiting cuts none off.     *)
PrintedOnce ==
  LET all == printed \o rows
  IN /\ {all[i] : i \in 1..Len(all)} = {l \in Lines : act[l] = "done" /\ Shown(l)}
     /\ \A i, j \in 1..Len(all) : all[i] = all[j] => i = j
     /\ run = "closed" => rows = << >> /\ read = NumLines /\ Acting = {}

(* What the end of the stream rests on: until it has ended it emits an     *)
(* event, goes on by itself, or some action is left whose end resumes it   *)
(* and tells it of zero.                                                   *)
StreamNotStuck ==
  \/ run \in {"closed", "failed", "draining"}
  \/ run = "reading" /\ flowing
  \/ run = "waiting" /\ ~zeroPending
  \/ Acting # {}

=============================================================================
