------------------------------ MODULE ServerRun ------------------------------
(***************************************************************************)
(* One POST /run of the HTTP server (run() in SqrlServer.ts) around one    *)
(* execution and its manipulator: fetch the clock, fetch                   *)
(* SqrlExecutionComplete, read the verdict, fetch the features the client  *)
(* asked for, run the mutations the statements registered, respond.        *)
(***************************************************************************)
EXTENDS SqrlExecution

CONSTANTS
  Clock,         (* the slot of SqrlClock                                    *)
  Complete,      (* the slot of SqrlExecutionComplete                        *)
  Wishes,        (* the possible values of ?features=                        *)
  UnknownName,   (* a requested name no slot has                             *)
  Blockers,      (* the calls of blockAction()                               *)
  Whitelisters,  (* the calls of whitelistAction()                           *)
  Registrars,    (* the calls of statements that add a mutation callback     *)
  Cause          (* the WHEN cause (a slot) that guards each of these calls  *)

Effectful == Blockers \union Whitelisters \union Registrars

ASSUME RunAssumption ==
  /\ Clock \in Slots /\ Complete \in Slots
  /\ Roots = {}
  /\ UnknownName \notin Slots
  /\ Wishes \subseteq SUBSET (Slots \union {UnknownName})
  /\ Effectful \subseteq {s \in Slots : Kind[s] = "async"} \intersect NullOk
  /\ Cause \in [Effectful -> Slots]

(* The call of a WHEN block is the branch its cause selects, and as part   *)
(* of that expression it is referred to nowhere else and has no name.      *)
GuardedBy(e, w) ==
  /\ Kind[w] = "if" /\ Deps[w][1] = Cause[e] /\ Deps[w][2] = e
  /\ \A p \in Slots : \A i \in 1..Len(Deps[p]) : Deps[p][i] = e => p = w /\ i = 2

(* SqrlExecutionComplete waits for every WHEN block, and for the other     *)
(* statements themselves: their cause is an input that is always true.     *)
ASSUME StatementAssumption ==
  /\ Kind[Complete] = "wait"
  /\ \A e \in Effectful :
       /\ e # Clock /\ \A W \in Wishes : e \notin W
       /\ \/ \E w \in DepSet(Complete) : GuardedBy(e, w)
          \/ e \in DepSet(Complete) /\ Kind[Cause[e]] = "input" /\ Results[Cause[e]] = {"true"}

VARIABLES
  pc,            (* how far run() has got                                    *)
  wishes,        (* the features of the query string                         *)
  blocked,       (* CliManipulator.blocked                                   *)
  whitelisted,   (* CliManipulator.whitelisted                               *)
  callbacks,     (* the callback of each registrar in CliManipulator         *)
  allow          (* the verdict of the response, once it is built            *)

manipulatorVars == <<blocked, whitelisted, callbacks>>
requestVars == <<pc, wishes, allow>>
vars == <<execVars, manipulatorVars, requestVars>>

CallbackStates == {"none", "added", "running", "done", "failed"}
Places == {"start", "clock", "complete", "features", "mutate", "responded", "error"}

(* The two outcomes of a verdict, and the verdict not reached yet. *)
Verdicts == {"allow", "block", "none"}

Ended == pc \in {"responded", "error"}

(* Fetch a set of slots in one go: the synchronous part of several         *)
(* fetchValue() calls.                                                     *)
FetchAll(S) ==
  LET fresh == {s \in S : phase[s] = "unset"}
  IN /\ phase' = [s \in Slots |-> IF s \in fresh THEN "loading" ELSE phase[s]]
     /\ fetches' = [s \in Slots |-> fetches[s] + (IF s \in fresh THEN 1 ELSE 0)]
     /\ UNCHANGED <<value, stage, pos, seenNull, answer, faulted, late>>

RunInit ==
  /\ Init
  /\ pc = "start"
  /\ wishes \in Wishes
  /\ blocked = FALSE
  /\ whitelisted = FALSE
  /\ callbacks = [s \in Registrars |-> "none"]
  /\ allow = "none"

-----------------------------------------------------------------------------
(* startExecution() constructs the state and fetches the clock. *)
FetchClock ==
  /\ pc = "start"
  /\ pc' = "clock"
  /\ FetchAll({Clock})
  /\ UNCHANGED <<wishes, allow, manipulatorVars>>

(* fetchClock() insists on an ISO 8601 string; then run() asks for         *)
(* everything the program does.                                            *)
StartExecution ==
  /\ pc = "clock" /\ phase[Clock] = "set"
  /\ IF value[Clock] = "true"
       THEN pc' = "complete" /\ FetchAll({Complete})
       ELSE pc' = "error" /\ UNCHANGED execVars
  /\ UNCHANGED <<wishes, allow, manipulatorVars>>

(* mutate(): every callback is called before the first one is awaited. *)
RunCallbacks ==
  callbacks' = [s \in Registrars |->
    IF callbacks[s] = "added" THEN "running" ELSE callbacks[s]]

(* Faulty variant of GiveVerdict: the mutations do not wait for features. *)
GiveVerdict_MutatesFirst ==
  /\ allow' = IF blocked /\ ~whitelisted THEN "block" ELSE "allow"
  /\ pc' = IF wishes = {} THEN "mutate" ELSE "features"
  /\ FetchAll(wishes \intersect Slots)
  /\ RunCallbacks
  /\ UNCHANGED <<wishes, blocked, whitelisted>>

(* The verdict is read; without features the mutations follow at once. *)
GiveVerdict ==
  /\ allow' = IF blocked /\ ~whitelisted THEN "block" ELSE "allow"
  /\ IF wishes = {}
       THEN pc' = "mutate" /\ RunCallbacks /\ UNCHANGED execVars
       ELSE /\ pc' = "features"
            /\ FetchAll(wishes \intersect Slots)
            /\ UNCHANGED callbacks
  /\ UNCHANGED <<wishes, blocked, whitelisted>>

(* Faulty variant of ReadVerdict: the statements are not awaited. *)
ReadVerdict_Early == pc = "complete" /\ GiveVerdict

ReadVerdict == pc = "complete" /\ phase[Complete] = "set" /\ GiveVerdict

(* Promise.all() over the requested features: an unknown name rejects it,  *)
(* and nothing is mutated.                                                 *)
FeaturesFail ==
  /\ pc = "features" /\ UnknownName \in wishes
  /\ pc' = "error"
  /\ UNCHANGED <<execVars, wishes, allow, manipulatorVars>>

FeaturesReady ==
  /\ pc = "features" /\ UnknownName \notin wishes
  /\ \A s \in wishes : phase[s] = "set"
  /\ pc' = "mutate"
  /\ RunCallbacks
  /\ UNCHANGED <<execVars, wishes, allow, blocked, whitelisted>>

(* A mutation callback settles. *)
FinishCallback(s) ==
  /\ callbacks[s] = "running"
  /\ \E outcome \in {"done", "failed"} :
       callbacks' = [callbacks EXCEPT ![s] = outcome]
  /\ UNCHANGED <<execVars, requestVars, blocked, whitelisted>>

(* Faulty variant of MutateFails: the rejection is not handled. *)
MutateFails_Unhandled ==
  /\ pc = "mutate" /\ \E s \in Registrars : callbacks[s] = "failed"
  /\ UNCHANGED vars

(* Promise.all() over the callbacks: rejected by the first that fails      *)
(* while others may still be running, fulfilled when all are done.         *)
MutateFails ==
  /\ pc = "mutate" /\ \E s \in Registrars : callbacks[s] = "failed"
  /\ pc' = "error"
  /\ UNCHANGED <<execVars, wishes, allow, manipulatorVars>>

(* Faulty variant of Respond: mutate() is not awaited. *)
Respond_AtOnce ==
  /\ pc = "mutate"
  /\ pc' = "responded"
  /\ UNCHANGED <<execVars, wishes, allow, manipulatorVars>>

Respond ==
  /\ pc = "mutate"
  /\ \A s \in Registrars : callbacks[s] \in {"none", "done"}
  /\ pc' = "responded"
  /\ UNCHANGED <<execVars, wishes, allow, manipulatorVars>>

-----------------------------------------------------------------------------
(* Statement functions act on the manipulator before their first await. *)
InvokeWithEffect(s) ==
  /\ Invoke(s)
  /\ blocked' = (blocked \/ s \in Blockers)
  /\ whitelisted' = (whitelisted \/ s \in Whitelisters)
  /\ callbacks' = [r \in Registrars |-> IF r = s THEN "added" ELSE callbacks[r]]
  /\ UNCHANGED requestVars

Evaluate(s) == Compute(s) /\ UNCHANGED <<manipulatorVars, requestVars>>

FunctionSettles(s) == Settle(s) /\ UNCHANGED <<manipulatorVars, requestVars>>

Handler ==
  \/ FetchClock \/ StartExecution \/ ReadVerdict \/ FeaturesFail
  \/ FeaturesReady \/ MutateFails \/ Respond

RunNext ==
  \/ Handler
  \/ \E s \in Slots : Evaluate(s) \/ InvokeWithEffect(s) \/ FunctionSettles(s)
  \/ \E s \in Registrars : FinishCallback(s)

(* As for the execution: while continuations are ready or timers are due,  *)
(* one of them runs. The handler goes on when what it awaits is there, and *)
(* a database command ends, well or badly.                                 *)
RunFairness ==
  /\ WF_vars(Handler)
  /\ WF_vars(\E s \in Slots : Evaluate(s) \/ InvokeWithEffect(s))
  /\ WF_vars(\E s \in Slots : Timeout(s) /\ UNCHANGED <<manipulatorVars, requestVars>>)
  /\ WF_vars(\E s \in Registrars : FinishCallback(s))

RunSpec == RunInit /\ [][RunNext]_vars /\ RunFairness

-----------------------------------------------------------------------------
(* The types of the request's and the manipulator's variables. *)
RunTypeOK ==
  /\ TypeOK
  /\ pc \in Places
  /\ wishes \in Wishes
  /\ blocked \in BOOLEAN /\ whitelisted \in BOOLEAN
  /\ callbacks \in [Registrars -> CallbackStates]
  /\ allow \in Verdicts

(* The verdict is the one the rules mean: blocked by a WHEN block whose    *)
(* rules fired, unless one that fired whitelists. A function that failed   *)
(* counts as null wherever it is used, however the race with its timer     *)
(* went.                                                                   *)
Fires(s) == Meaning[Cause[s]] = "true"
VerdictMatchesRules ==
  allow # "none" =>
    (allow = "block" <=>
       (\E s \in Blockers : Fires(s)) /\ ~(\E s \in Whitelisters : Fires(s)))

(* The client is told of success only after every mutation of a statement  *)
(* that fired has been applied, and no other: none is registered too late. *)
SuccessMeansMutated ==
  /\ RunTypeOK
  /\ pc = "responded" =>
       \A s \in Registrars : callbacks[s] = IF Fires(s) THEN "done" ELSE "none"

(* No mutation starts before every requested feature has been calculated:  *)
(* a request that fails before that has changed nothing in the databases.  *)
MutationsComeLast ==
  (\E s \in Registrars : callbacks[s] \in {"running", "done", "failed"}) =>
    /\ allow # "none"
    /\ \A s \in wishes : s \in Slots /\ phase[s] = "set"

(* What is to be written once the verdict was read, what was, and what the *)
(* client is told: the request comes to what RequestOutcome says.          *)
Outcome == INSTANCE RequestOutcome WITH
  Mutations <- Registrars,
  verdict <- allow,
  due <- {s \in Registrars : allow # "none" /\ callbacks[s] # "none"},
  written <- {s \in Registrars : callbacks[s] = "done"},
  reply <- IF pc = "responded" THEN "success" ELSE IF pc = "error" THEN "failure" ELSE "none"

(* The verdict and the mutations of a request are decided together, however*)
(* slots, handler and callbacks interleave: no statement that fires later  *)
(* adds to them, and success is never told of a part of them.              *)
ImplementsOutcome == Outcome!Spec

(* What the handler awaits is there.                                       *)
HandlerGoesOn ==
  \/ pc = "start"
  \/ pc = "clock" /\ phase[Clock] = "set"
  \/ pc = "complete" /\ phase[Complete] = "set"
  \/ pc = "features" /\ (UnknownName \in wishes \/ \A s \in wishes : phase[s] = "set")
  \/ pc = "mutate" /\ \/ \E s \in Registrars : callbacks[s] = "failed"
                      \/ \A s \in Registrars : callbacks[s] \in {"none", "done"}

(* What EveryRequestEnds rests on: the handler never waits for a slot      *)
(* nobody calculates or for a callback nobody runs.                        *)
RequestNotStuck ==
  \/ Ended \/ HandlerGoesOn
  \/ \E s \in Slots : CanGoOn(s)
  \/ \E s \in Registrars : callbacks[s] = "running"

(* Every request is answered, whatever functions hang. *)
EveryRequestEnds == (pc = "start") ~> Ended

=============================================================================
