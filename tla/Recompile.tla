------------------------------ MODULE Recompile ------------------------------
(***************************************************************************)
(* `sqrl run --stream` while its sources are edited (cliMain() and         *)
(* CliRun.triggerRecompile()): the program compiles them once before it    *)
(* starts to stream, and again for each change the watcher reports, one    *)
(* compilation at a time behind the lock compilingLock.                    *)
(*                                                                         *)
(* A compilation reads every file and runs to its end in one turn of the   *)
(* event loop; what it returns is adopted in a later one. The sources are  *)
(* numbered by the edits that led to them.                                 *)
(***************************************************************************)
EXTENDS Integers, Sequences, FiniteSets

CONSTANTS
  NumEdits,      (* the edits of the sources                                 *)
  Broken,        (* the sources that do not compile                          *)
  Incomplete     (* those that lack a feature or need an input not given     *)

Sources == 0..NumEdits
Handlers == 1..NumEdits
None == NumEdits + 1

ASSUME RecompileAssumption ==
  /\ NumEdits \in Nat \ {0}
  /\ Broken \subseteq Sources /\ Incomplete \subseteq Sources

VARIABLES
  source,        (* the sources as they are on the disk                      *)
  noticed,       (* the last source the watcher told of                      *)
  main,          (* how far cliMain() has come                               *)
  executable,    (* the source of CliRun.executable                          *)
  handler,       (* how far each handler of a change has come                *)
  compiled,      (* the source it compiled                                   *)
  lockCount, lockMax, lockQueue, lockOf, lockZero   (* compilingLock         *)

lockVars == <<lockCount, lockMax, lockQueue, lockOf, lockZero>>
recompileVars == <<source, noticed, main, executable, handler, compiled, lockVars>>

Lock == INSTANCE Semaphore WITH
  Requests <- Handlers \union {0}, NoMax <- -1, Limits <- {1}, Impatient <- Handlers,
  count <- lockCount, max <- lockMax, resolvers <- lockQueue,
  status <- lockOf, zeroPending <- lockZero

(* cliMain() itself is request 0 of the lock, and takes it at once. *)
RecompileInit ==
  /\ source = 0
  /\ noticed = 0
  /\ main = "loading"
  /\ executable = None
  /\ handler = [h \in Handlers |-> "none"]
  /\ compiled = [h \in Handlers |-> None]
  /\ lockCount = 1
  /\ lockMax = 1
  /\ lockQueue = << >>
  /\ lockOf = [r \in Handlers \union {0} |-> IF r = 0 THEN "holding" ELSE "idle"]
  /\ lockZero = FALSE

-----------------------------------------------------------------------------
(* Somebody saves a file. *)
Edit ==
  /\ source < NumEdits
  /\ source' = source + 1
  /\ UNCHANGED <<noticed, main, executable, handler, compiled, lockVars>>

(* The first loadSource(); reading a file is what makes it watched. *)
FirstLoad ==
  /\ main = "loading"
  /\ noticed' = source
  /\ IF source \in Broken \union Incomplete
       THEN main' = "failed" /\ UNCHANGED executable
       ELSE main' = "loaded" /\ executable' = source
  /\ UNCHANGED <<source, handler, compiled, lockVars>>

(* new CliRun(), and the lock is released for the handlers. *)
StartRun ==
  /\ main = "loaded"
  /\ main' = "running"
  /\ Lock!Release(0)
  /\ UNCHANGED <<source, noticed, executable, handler, compiled>>

(* The watcher polls: edits between two polls are one change event, whose  *)
(* handler asks for the lock.                                              *)
Change ==
  /\ main \in {"loaded", "running"}
  /\ noticed # source
  /\ noticed' = source
  /\ handler' = [handler EXCEPT ![source] = "taking"]
  /\ Lock!Increment(source)
  /\ UNCHANGED <<source, main, executable, compiled>>

(* The timer of the lock: the handler rejects and nobody compiles for it. *)
GiveUp(h) ==
  /\ handler[h] = "taking"
  /\ Lock!TimeOut(h)
  /\ handler' = [handler EXCEPT ![h] = "gone"]
  /\ UNCHANGED <<source, noticed, main, executable, compiled>>

GetLock(h) ==
  /\ Lock!Resume(h)
  /\ UNCHANGED <<source, noticed, main, executable, handler, compiled>>

(* Faulty variant of HasLock: the handler does not wait for the lock. *)
HasLock_Always(h) == TRUE

HasLock(h) == lockOf[h] = "holding"

(* triggerRecompile() calls loadSource() in the turn that got the lock. *)
Compile(h) ==
  /\ handler[h] = "taking" /\ HasLock(h)
  /\ handler' = [handler EXCEPT ![h] = "compiled"]
  /\ compiled' = [compiled EXCEPT ![h] = source]
  /\ UNCHANGED <<source, noticed, main, executable, lockVars>>

(* Its then() and catch(): an error leaves the executable as it is. The    *)
(* inputs and features are not checked again.                              *)
Adopt(h) ==
  /\ handler[h] = "compiled"
  /\ handler' = [handler EXCEPT ![h] = "adopted"]
  /\ executable' = IF compiled[h] \in Broken THEN executable ELSE compiled[h]
  /\ UNCHANGED <<source, noticed, main, compiled, lockVars>>

(* finally { compilingLock.release() } *)
Unlock(h) ==
  /\ handler[h] = "adopted"
  /\ handler' = [handler EXCEPT ![h] = "gone"]
  /\ Lock!Release(h)
  /\ UNCHANGED <<source, noticed, main, executable, compiled>>

Handle(h) == GetLock(h) \/ Compile(h) \/ Adopt(h) \/ Unlock(h)

RecompileNext ==
  \/ Edit \/ FirstLoad \/ StartRun \/ Change
  \/ \E h \in Handlers : Handle(h) \/ GiveUp(h)

-----------------------------------------------------------------------------
(* All that was saved has been told of, and every handler is done. *)
Settled ==
  /\ main = "running" /\ noticed = source
  /\ \A h \in Handlers : handler[h] \in {"none", "gone"}

(* No handler waits for a lock that nobody returns: some other goes on,    *)
(* or cliMain() is about to; unless a timer ran out.                       *)
RecompileNotStuck ==
  Lock!NobodyRefused /\ (\E h \in Handlers : handler[h] = "taking") =>
    \/ main = "loaded"
    \/ \E h \in Handlers :
         \/ lockOf[h] = "passed"
         \/ lockOf[h] = "holding" /\ handler[h] \in {"taking", "compiled", "adopted"}

(* The newest source that compiles among those a handler compiled; edits   *)
(* made in quick succession are compiled together, as the last of them.    *)
Newest ==
  LET tried == {compiled[h] : h \in Handlers} \ (Broken \union {None})
  IN IF \E s \in tried : \A t \in tried : t <= s
       THEN CHOOSE s \in tried : \A t \in tried : t <= s
       ELSE executable

(* Once edits stop and no handler lost its wait for the lock, the stream   *)
(* runs on the newest source if that compiles, and else on the newest that *)
(* was compiled; it never runs on none, and compilations that overlap do   *)
(* not leave an older executable in place of a newer one.                  *)
NewestSourceRuns ==
  /\ main = "running" => executable \in Sources \ Broken
  /\ Settled =>
       /\ executable = Newest
       /\ Lock!NobodyRefused /\ source # 0 /\ source \notin Broken => executable = source

=============================================================================
