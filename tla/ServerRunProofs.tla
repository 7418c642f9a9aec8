---------------------------- MODULE ServerRunProofs ----------------------------
(***************************************************************************)
(* Proofs about POST /run, for every ruleset, every set of statements and  *)
(* every request. They rest on two facts about the execution. Nothing is   *)
(* calculated that nobody needs, so a call with effects runs only if the   *)
(* cause that guards it is true; and a wait is over only when everything   *)
(* it waits for has a value, so when SqrlExecutionComplete is there, every *)
(* call that had to run has run, and no other will.                        *)
(***************************************************************************)
EXTENDS ServerRun, SqrlExecutionProofs

-----------------------------------------------------------------------------
(* The inductive invariant: the execution.                                 *)

(* The function of statement e has run up to its first await. *)
Called(e) == phase[e] \in {"calling", "set"}

(* What a slot was waiting for is there. *)
Awaited ==
  \A s \in Slots : phase[s] = "set" =>
    /\ Kind[s] = "wait" => \A d \in DepSet(s) : phase[d] = "set"
    /\ Kind[s] = "if" =>
         /\ phase[Deps[s][1]] = "set"
         /\ phase[Branch(s, value[Deps[s][1]])] = "set"

InputsGiven ==
  \A s \in Slots : Kind[s] = "input" =>
    phase[s] = "set" /\ value[s] = answer[s] /\ answer[s] \in Results[s]

(* A statement is asked for only when its cause turned out true. *)
WellCaused == \A e \in Effectful : phase[e] # "unset" => value[Cause[e]] = "true"

ExecutionOK == SlotsConsistent /\ Awaited /\ InputsGiven /\ WellCaused

(* The manipulator shows the effects of the calls made, and no others. *)
EffectsOK ==
  /\ blocked <=> \E e \in Blockers : Called(e)
  /\ whitelisted <=> \E e \in Whitelisters : Called(e)
  /\ \A e \in Registrars : callbacks[e] # "none" <=> Called(e)

(* Where the request stands. *)
RequestOK ==
  /\ pc \in {"start", "clock", "complete"} => allow = "none"
  /\ pc \in {"features", "mutate", "responded"} => allow # "none"
  /\ allow # "none" =>
       phase[Complete] = "set" /\ (allow = "block" <=> blocked /\ ~whitelisted)
  /\ pc \in {"start", "clock", "complete", "features"} =>
       \A e \in Registrars : callbacks[e] \in {"none", "added"}
  /\ pc \in {"mutate", "responded"} => \A e \in Registrars : callbacks[e] # "added"
  /\ pc = "responded" => \A e \in Registrars : callbacks[e] \in {"none", "done"}
  /\ MutationsComeLast

RunInv == RunTypeOK /\ ExecutionOK /\ EffectsOK /\ RequestOK

-----------------------------------------------------------------------------
(* Fetching several slots at once. *)

(* The handler fetches several slots at once: those that were not, begin.  *)
LEMMA FetchAllConsistent ==
  ASSUME SlotsConsistent, NEW S \in SUBSET Slots, FetchAll(S)
  PROVE  /\ SlotsConsistent' /\ Grows /\ Keeps
         /\ \A t \in Slots : phase'[t] = IF t \in S /\ phase[t] = "unset" THEN "loading" ELSE phase[t]
  <1>0. /\ TypeOK
        /\ UNCHANGED <<value, stage, pos, seenNull, answer, faulted, late>>
        /\ \A t \in Slots :
             /\ phase'[t] = IF t \in S /\ phase[t] = "unset" THEN "loading" ELSE phase[t]
             /\ fetches'[t] = fetches[t] + (IF t \in S /\ phase[t] = "unset" THEN 1 ELSE 0)
    BY DEF SlotsConsistent, FetchAll
  <1>1. TypeOK'
    <2>1. \A t \in Slots : phase'[t] \in Phases /\ fetches'[t] \in Nat
      BY <1>0 DEF TypeOK, Phases
    <2>2. phase' \in [Slots -> Phases] /\ fetches' \in [Slots -> Nat]
      BY <2>1 DEF FetchAll
    <2> QED BY <1>0, <2>2 DEF TypeOK
  <1>2. Grows
    BY <1>0 DEF Grows
  <1>3. Keeps
    BY <1>0 DEF Keeps
  <1>4. ASSUME NEW t \in Slots PROVE SlotOK(t)'
    <2>1. CASE t \in S /\ phase[t] = "unset"
      <3>1. phase'[t] = "loading" /\ fetches'[t] = fetches[t] + 1 /\ pos'[t] = pos[t]
        BY <1>0, <2>1
      <3> QED BY <1>0, <2>1, <3>1, CallConsistent
    <2>2. CASE ~(t \in S /\ phase[t] = "unset")
      <3>1. fetches[t] \in Nat
        BY <1>0 DEF TypeOK
      <3>2. SlotOK(t) /\ Untouched(t)
        BY <1>0, <2>2, <3>1 DEF SlotsConsistent, Untouched
      <3> QED BY <1>0, <1>2, <3>2, Bystander
    <2> QED BY <2>1, <2>2
  <1> QED BY <1>0, <1>1, <1>2, <1>3, <1>4 DEF SlotsConsistent

(* What the handler does to the execution. *)
ExecutionStep ==
  \/ [Next]_execVars
  \/ \E S \in SUBSET (Slots \ Effectful) : FetchAll(S)

(* A step of the execution settles one slot or keeps what is settled.      *)
LEMMA ExecutionGrows ==
  ASSUME SlotsConsistent, ExecutionStep
  PROVE  /\ SlotsConsistent' /\ Grows
         /\ (\E s \in Slots, v \in Values : Settles(s, v)) \/ Keeps
  BY StepConsistent, StutterConsistent, StepSettles, FetchAllConsistent DEF ExecutionStep

(* A confluent execution stays so when several slots are fetched at once. *)
LEMMA KeepsConfluent ==
  ASSUME Keeps, Confluent
  PROVE  Confluent'
  <1> SUFFICES ASSUME NEW M, Respects(M)' PROVE AgreesWith(M)'
    BY DEF Confluent
  <1>1. Respects(M)
    BY DEF Respects, Keeps, MeaningIn
  <1> QED BY <1>1 DEF Confluent, AgreesWith, Keeps

(* It keeps the values what the expressions mean.                          *)
LEMMA ExecutionConfluent ==
  ASSUME SlotsConsistent, ExecutionStep, Confluent
  PROVE  Confluent'
  BY StepConfluent, KeepsConfluent, FetchAllConsistent DEF ExecutionStep

-----------------------------------------------------------------------------
(* The four parts of ExecutionOK are kept. *)

(* The branches of an if are among what it depends on.                     *)
LEMMA BranchIsDep ==
  ASSUME NEW s \in Slots, Kind[s] = "if"
  PROVE  /\ Deps[s][1] \in Slots /\ Deps[s][1] \in DepSet(s)
         /\ \A v : Branch(s, v) \in Slots /\ Branch(s, v) \in DepSet(s)
  <1>1. Len(Deps[s]) = 3
    BY Arity
  <1>2. \A i \in 1..3 : Deps[s][i] \in DepSet(s) /\ Deps[s][i] \in Slots
    BY <1>1, DepsAreSlots DEF DepSet
  <1> QED BY <1>2 DEF Branch

(* Whoever is settled has awaited its dependencies, also after a step.     *)
LEMMA AwaitedKept ==
  ASSUME SlotsConsistent, Awaited, ExecutionStep
  PROVE  Awaited'
  <1>0. TypeOK /\ Grows
    BY ExecutionGrows DEF SlotsConsistent
  <1> SUFFICES ASSUME NEW s \in Slots, phase'[s] = "set"
               PROVE  /\ Kind[s] = "wait" => \A d \in DepSet(s) : phase'[d] = "set"
                      /\ Kind[s] = "if" => /\ phase'[Deps[s][1]] = "set"
                                           /\ phase'[Branch(s, value'[Deps[s][1]])] = "set"
    BY DEF Awaited, Branch
  <1>1. ASSUME /\ Kind[s] = "wait" => \A d \in DepSet(s) : phase[d] = "set"
               /\ Kind[s] = "if" => /\ phase[Deps[s][1]] = "set"
                                    /\ phase[Branch(s, value[Deps[s][1]])] = "set"
        PROVE  /\ Kind[s] = "wait" => \A d \in DepSet(s) : phase'[d] = "set"
               /\ Kind[s] = "if" => /\ phase'[Deps[s][1]] = "set"
                                    /\ phase'[Branch(s, value'[Deps[s][1]])] = "set"
    <2>1. CASE Kind[s] = "wait"
      BY <1>0, <1>1, <2>1, DepsAreSlots DEF Grows
    <2>2. CASE Kind[s] = "if"
      BY <1>0, <1>1, <2>2, BranchIsDep DEF Grows
    <2> QED BY <2>1, <2>2
  <1>2. CASE phase[s] = "set"
    BY <1>1, <1>2 DEF Awaited
  <1>3. CASE phase[s] # "set"
    <2>1. PICK t \in Slots, v \in Values : Settles(t, v)
      BY <1>3, ExecutionGrows DEF Keeps
    <2>2. t = s
      BY <1>0, <1>3, <2>1 DEF Settles, Fulfil, TypeOK
    <2>3. Dataflow!Justified(s, v) /\ v # Unset
      BY <2>1, <2>2 DEF Settles, Values, Unset
    <2>4. \A d \in Slots : value[d] # Unset => phase[d] = "set"
      BY DEF SlotsConsistent, SlotOK, CalledOnce
    <2>5. CASE Kind[s] = "wait"
      <3>1. Dataflow!Unset \notin Dataflow!KnownValues(s)
        BY <2>3, <2>5 DEF Dataflow!Justified
      <3>2. \A d \in DepSet(s) : value[d] # Unset /\ d \in Slots
        BY <3>1, SameDeps, DepsAreSlots DEF Dataflow!KnownValues, Unset, Dataflow!Unset
      <3> QED BY <1>1, <2>4, <2>5, <3>2
    <2>6. CASE Kind[s] = "if"
      <3>1. value[Deps[s][1]] # Unset /\ value[Branch(s, value[Deps[s][1]])] # Unset
        BY <2>3, <2>6 DEF Dataflow!Justified, Dataflow!Known, Dataflow!Branch, Branch, Unset, Dataflow!Unset
      <3> QED BY <1>1, <2>4, <2>6, <3>1, BranchIsDep
    <2> QED BY <2>5, <2>6
  <1> QED BY <1>2, <1>3

(* Inputs stay as they were given.                                         *)
LEMMA InputsKept ==
  ASSUME Grows, InputsGiven
  PROVE  InputsGiven'
  BY DEF Grows, InputsGiven

(* Only the WHEN block around a statement prepares it, and only when it    *)
(* needs it: after its cause turned out true.                              *)
LEMMA CausesKept ==
  ASSUME SlotsConsistent, InputsGiven, WellCaused, ExecutionStep
  PROVE  WellCaused'
  <1> SUFFICES ASSUME NEW e \in Effectful, phase'[e] # "unset"
               PROVE  value'[Cause[e]] = "true"
    BY DEF WellCaused
  <1>0. e \in Slots /\ Cause[e] \in Slots /\ Roots = {} /\ Grows
    BY RunAssumption, ExecutionGrows
  <1>1. ASSUME value[Cause[e]] = "true" PROVE value'[Cause[e]] = "true"
    <2>1. phase[Cause[e]] = "set"
      BY <1>0, <1>1 DEF SlotsConsistent, SlotOK, CalledOnce, Unset
    <2> QED BY <1>0, <1>1, <2>1 DEF Grows
  <1>2. CASE phase[e] # "unset"
    BY <1>1, <1>2 DEF WellCaused
  <1>3. CASE phase[e] = "unset" /\ Kind[Cause[e]] = "input" /\ Results[Cause[e]] = {"true"}
    BY <1>0, <1>1, <1>3 DEF InputsGiven
  <1>4. ASSUME phase[e] = "unset", NEW w \in DepSet(Complete), GuardedBy(e, w)
        PROVE  value'[Cause[e]] = "true"
    <2>1. Next
      <3>1. ~UNCHANGED execVars
        BY <1>4 DEF execVars
      <3>2. ASSUME NEW S \in SUBSET (Slots \ Effectful), FetchAll(S) PROVE FALSE
        BY <1>0, <1>4, <3>2, FetchAllConsistent
      <3> QED BY <3>1, <3>2 DEF ExecutionStep
    <2>2. Dataflow!Next
      <3>1. e \in {s \in Slots : phase[s] # "unset"}' /\ e \notin {s \in Slots : phase[s] # "unset"}
        BY <1>0, <1>4
      <3>2. ~UNCHANGED Dataflow!dataVars
        BY <3>1 DEF Dataflow!dataVars
      <3> QED BY <2>1, <3>2, StepImplements
    <2>3. PICK p \in Slots : Dataflow!Needs(p, e)
      BY <1>0, <1>4, <2>2 DEF Dataflow!Next, Dataflow!Demand, Dataflow!Determine
    <2>4. \E i \in 1..Len(Deps[p]) : e = Deps[p][i]
      <3>1. CASE Kind[p] = "if"
        <4>1. e \in DepSet(p)
          BY <2>3, <3>1, BranchIsDep DEF Dataflow!Needs, Dataflow!Branch, Branch
        <4> QED BY <4>1 DEF DepSet
      <3>2. CASE Kind[p] # "if"
        BY <2>3, <3>2 DEF Dataflow!Needs, Dataflow!DepSet
      <3> QED BY <3>1, <3>2
    <2>5. p = w /\ Kind[w] = "if" /\ Deps[w][1] = Cause[e] /\ Len(Deps[w]) = 3
      BY <1>4, <2>3, <2>4, Arity DEF GuardedBy
    <2>6. e # Deps[w][1] /\ e # Deps[w][3]
      BY <1>4, <2>3, <2>5 DEF GuardedBy
    <2>7. value[Deps[w][1]] = "true"
      BY <2>3, <2>5, <2>6 DEF Dataflow!Needs, Dataflow!Branch
    <2> QED BY <1>1, <2>5, <2>7
  <1> QED BY <1>2, <1>3, <1>4, StatementAssumption

(* A step keeps all that is known of the execution.                        *)
LEMMA ExecutionKept ==
  ASSUME ExecutionOK, ExecutionStep
  PROVE  ExecutionOK' /\ Grows
  BY ExecutionGrows, AwaitedKept, InputsKept, CausesKept DEF ExecutionOK

(* When SqrlExecutionComplete is there, every cause is decided, the        *)
(* statements whose cause is true have run, and the others never will.     *)
LEMMA CompleteMeansDone ==
  ASSUME ExecutionOK, phase[Complete] = "set", NEW e \in Effectful
  PROVE  /\ phase[Cause[e]] = "set" /\ phase[e] \in {"unset", "set"}
         /\ phase[e] = "set" <=> value[Cause[e]] = "true"
  <1>0. /\ e \in Slots /\ Cause[e] \in Slots /\ Complete \in Slots
        /\ \A d \in DepSet(Complete) : d \in Slots /\ phase[d] = "set"
    BY RunAssumption, StatementAssumption, DepsAreSlots DEF ExecutionOK, Awaited
  <1>1. phase[e] # "unset" => value[Cause[e]] = "true"
    BY DEF ExecutionOK, WellCaused
  <1>2. CASE e \in DepSet(Complete) /\ Kind[Cause[e]] = "input" /\ Results[Cause[e]] = {"true"}
    BY <1>0, <1>2 DEF ExecutionOK, InputsGiven
  <1>3. ASSUME NEW w \in DepSet(Complete), GuardedBy(e, w)
        PROVE  /\ phase[Cause[e]] = "set" /\ phase[e] \in {"unset", "set"}
               /\ phase[e] = "set" <=> value[Cause[e]] = "true"
    <2>1. phase[Cause[e]] = "set" /\ phase[Branch(w, value[Cause[e]])] = "set"
      BY <1>0, <1>3 DEF GuardedBy, ExecutionOK, Awaited
    <2>2. value[Cause[e]] = "true" => phase[e] = "set"
      BY <1>3, <2>1 DEF GuardedBy, Branch
    <2> QED BY <1>1, <2>1, <2>2
  <1> QED BY <1>2, <1>3, StatementAssumption

-----------------------------------------------------------------------------
(* Which steps call a statement.                                           *)

(* No statement is called, and none is missed: every one allows null.      *)
LEMMA OthersCallNothing ==
  ASSUME SlotsConsistent, NEW e \in Effectful,
         \/ \E s \in Slots : Compute(s) \/ Settle(s)
         \/ \E S \in SUBSET (Slots \ Effectful) : FetchAll(S)
         \/ UNCHANGED execVars
  PROVE  Called(e)' <=> Called(e)
  <1>0. e \in Slots /\ Kind[e] = "async" /\ e \in NullOk /\ TypeOK /\ ~ShortCircuits(e)
    BY RunAssumption DEF SlotsConsistent, ShortCircuits
  <1>1. CASE UNCHANGED execVars
    BY <1>1 DEF execVars, Called
  <1>2. CASE \E S \in SUBSET (Slots \ Effectful) : FetchAll(S)
    BY <1>0, <1>2, FetchAllConsistent DEF Called
  <1>3. ASSUME NEW s \in Slots, Compute(s) PROVE Called(e)' <=> Called(e)
    <2>1. CASE Prepare(s)
      BY <1>0, <2>1 DEF Prepare, Fetch, CallSlot, Called, TypeOK
    <2>2. CASE EvalCondition(s)
      BY <2>2 DEF EvalCondition, Called
    <2>3. CASE EvalWait(s) \/ EvalNot(s) \/ EvalBranch(s) \/ CallSync(s) \/ SkipCall(s)
      <3>1. s # e /\ phase' = [phase EXCEPT ![s] = "set"]
        BY <1>0, <2>3 DEF EvalWait, EvalNot, EvalBranch, CallSync, SkipCall, Fulfil
      <3> QED BY <1>0, <3>1 DEF Called, TypeOK
    <2>4. CASE EvalAnd(s) \/ EvalOr(s)
      <3>1. s # e /\ (phase' = [phase EXCEPT ![s] = "set"] \/ phase' = phase)
        BY <1>0, <2>4 DEF EvalAnd, EvalOr, EvalOperand, Fulfil
      <3> QED BY <1>0, <3>1 DEF Called, TypeOK
    <2> QED BY <1>3, <2>1, <2>2, <2>3, <2>4 DEF Compute
  <1>4. ASSUME NEW s \in Slots, Settle(s) PROVE Called(e)' <=> Called(e)
    BY <1>0, <1>4 DEF Settle, Answer, Throw, Timeout, LateAnswer, Fulfil, Called, TypeOK
  <1> QED BY <1>1, <1>2, <1>3, <1>4

(* The one step that calls a statement's function.                         *)
LEMMA InvokeCalls ==
  ASSUME SlotsConsistent, NEW s \in Slots, Invoke(s), NEW e \in Effectful
  PROVE  /\ Called(e)' <=> Called(e) \/ e = s
         /\ phase[s] = "loading"
  <1>0. e \in Slots /\ TypeOK
    BY RunAssumption DEF SlotsConsistent
  <1> QED BY <1>0 DEF Invoke, Loaded, Called, TypeOK

(* Blockers, whitelisters and registrars are statements with effects.      *)
LEMMA SubsetsOfEffectful ==
  /\ Blockers \subseteq Effectful /\ Whitelisters \subseteq Effectful
  /\ Registrars \subseteq Effectful /\ Effectful \subseteq Slots
  BY RunAssumption DEF Effectful

(* A step that calls nothing leaves the effects as they should be, if it   *)
(* only moves registered callbacks on.                                     *)
LEMMA EffectsKept ==
  ASSUME SlotsConsistent, EffectsOK, UNCHANGED <<blocked, whitelisted>>,
         \A e \in Registrars : callbacks'[e] # "none" <=> callbacks[e] # "none",
         \/ \E s \in Slots : Compute(s) \/ Settle(s)
         \/ \E S \in SUBSET (Slots \ Effectful) : FetchAll(S)
         \/ UNCHANGED execVars
  PROVE  EffectsOK'
  <1>1. \A e \in Effectful : Called(e)' <=> Called(e)
    BY OthersCallNothing
  <1>2. \A e \in Blockers : Called(e)' <=> Called(e)
    BY <1>1, SubsetsOfEffectful
  <1>3. \A e \in Whitelisters : Called(e)' <=> Called(e)
    BY <1>1, SubsetsOfEffectful
  <1>4. \A e \in Registrars : Called(e)' <=> Called(e)
    BY <1>1, SubsetsOfEffectful
  <1> HIDE DEF Called
  <1>5. blocked' <=> \E e \in Blockers : Called(e)'
    BY <1>2 DEF EffectsOK
  <1>6. whitelisted' <=> \E e \in Whitelisters : Called(e)'
    BY <1>3 DEF EffectsOK
  <1>7. \A e \in Registrars : callbacks'[e] # "none" <=> Called(e)'
    BY <1>4 DEF EffectsOK
  <1> QED BY <1>5, <1>6, <1>7 DEF EffectsOK

(* A calculation that goes on disturbs no request, unless it registers a   *)
(* callback or decides the verdict after that was read.                    *)
LEMMA RequestKept ==
  ASSUME RequestOK, RunTypeOK, Grows, UNCHANGED <<requestVars, blocked, whitelisted, callbacks>>
  PROVE  RequestOK'
  <1>0. /\ UNCHANGED <<pc, wishes, allow, blocked, whitelisted, callbacks>>
        /\ Complete \in Slots
    BY RunAssumption DEF requestVars
  <1>1. allow # "none" => phase'[Complete] = "set"
    BY <1>0 DEF RequestOK, Grows
  <1>2. MutationsComeLast'
    BY <1>0 DEF RequestOK, MutationsComeLast, Grows
  <1> QED BY <1>0, <1>1, <1>2 DEF RequestOK

(* The invariant holds when the request arrives,                           *)
LEMMA RunInitOK ==
  ASSUME RunInit
  PROVE  RunInv
  <1>1. Init /\ SlotsConsistent
    BY InitConsistent DEF RunInit
  <1>2. /\ pc = "start" /\ wishes \in Wishes /\ blocked = FALSE /\ whitelisted = FALSE
        /\ callbacks = [s \in Registrars |-> "none"] /\ allow = "none"
    BY DEF RunInit
  <1>3. RunTypeOK
    BY <1>1, <1>2 DEF RunTypeOK, SlotsConsistent, Places, CallbackStates, Verdicts
  <1>4. \A s \in Slots :
          /\ phase[s] = IF Kind[s] = "input" THEN "set" ELSE "unset"
          /\ Kind[s] = "input" => value[s] = answer[s] /\ answer[s] \in Results[s]
    BY <1>1 DEF Init, InputSlots
  <1>5. Awaited /\ InputsGiven
    BY <1>4 DEF Awaited, InputsGiven
  <1>6. \A e \in Effectful : phase[e] = "unset"
    BY <1>4, RunAssumption
  <1>7. WellCaused
    BY <1>6 DEF WellCaused
  <1>8. \A e \in Effectful : ~Called(e)
    BY <1>6 DEF Called
  <1>9. EffectsOK
    BY <1>2, <1>8, SubsetsOfEffectful DEF EffectsOK
  <1>10. RequestOK
    BY <1>2 DEF RequestOK, MutationsComeLast
  <1> QED BY <1>1, <1>3, <1>5, <1>7, <1>9, <1>10 DEF RunInv, ExecutionOK

(* and every step of handler and execution keeps it.                       *)
LEMMA RunStep ==
  ASSUME RunInv, [RunNext]_vars
  PROVE  RunInv'
  <1>0. /\ RunTypeOK /\ TypeOK /\ ExecutionOK /\ EffectsOK /\ RequestOK /\ SlotsConsistent
        /\ wishes \in Wishes /\ callbacks \in [Registrars -> CallbackStates]
        /\ Registrars \subseteq Effectful /\ Effectful \subseteq Slots
    BY SubsetsOfEffectful DEF RunInv, RunTypeOK, ExecutionOK
  <1>1. Clock \in Slots \ Effectful /\ Complete \in Slots \ Effectful
    BY RunAssumption, StatementAssumption
  <1>2. \A W \in Wishes : W \cap Slots \in SUBSET (Slots \ Effectful) /\ W \subseteq Slots \union {UnknownName}
    BY RunAssumption, StatementAssumption
  <1>3. ASSUME ExecutionStep PROVE ExecutionOK' /\ TypeOK' /\ Grows
    BY <1>0, <1>3, ExecutionKept DEF ExecutionOK, SlotsConsistent
  <1>4. ASSUME UNCHANGED execVars PROVE ExecutionStep
    BY <1>4 DEF ExecutionStep
  <1>5. CASE FetchClock
    <2>1. pc = "start" /\ pc' = "clock" /\ FetchAll({Clock}) /\ UNCHANGED <<wishes, allow, manipulatorVars>>
      BY <1>5 DEF FetchClock
    <2>2. {Clock} \in SUBSET (Slots \ Effectful)
      BY <1>1
    <2>3. ExecutionStep
      BY <2>1, <2>2 DEF ExecutionStep
    <2>4. EffectsOK'
      BY <1>0, <2>1, <2>2, EffectsKept DEF manipulatorVars
    <2>5. RunTypeOK'
      BY <1>0, <1>3, <2>1, <2>3 DEF RunTypeOK, manipulatorVars, Places
    <2>6. RequestOK'
      BY <1>0, <2>1 DEF RequestOK, MutationsComeLast, manipulatorVars
    <2> QED BY <1>3, <2>3, <2>4, <2>5, <2>6 DEF RunInv
  <1>6. CASE StartExecution
    <2>1. /\ pc = "clock" /\ pc' \in {"complete", "error"}
          /\ FetchAll({Complete}) \/ UNCHANGED execVars
          /\ UNCHANGED <<wishes, allow, manipulatorVars>>
      BY <1>6 DEF StartExecution
    <2>2. {Complete} \in SUBSET (Slots \ Effectful)
      BY <1>1
    <2>3. ExecutionStep
      BY <1>4, <2>1, <2>2 DEF ExecutionStep
    <2>4. EffectsOK'
      BY <1>0, <2>1, <2>2, EffectsKept DEF manipulatorVars
    <2>5. RunTypeOK'
      BY <1>0, <1>3, <2>1, <2>3 DEF RunTypeOK, manipulatorVars, Places
    <2>6. RequestOK'
      BY <1>0, <2>1 DEF RequestOK, MutationsComeLast, manipulatorVars
    <2> QED BY <1>3, <2>3, <2>4, <2>5, <2>6 DEF RunInv
  <1>7. CASE ReadVerdict
    <2>1. /\ pc = "complete" /\ phase[Complete] = "set"
          /\ allow' = IF blocked /\ ~whitelisted THEN "block" ELSE "allow"
          /\ UNCHANGED <<wishes, blocked, whitelisted>>
          /\ \/ wishes = {} /\ pc' = "mutate" /\ RunCallbacks /\ UNCHANGED execVars
             \/ pc' = "features" /\ FetchAll(wishes \intersect Slots) /\ UNCHANGED callbacks
      BY <1>7 DEF ReadVerdict, GiveVerdict
    <2>2. wishes \intersect Slots \in SUBSET (Slots \ Effectful)
      BY <1>0, <1>2
    <2>3. ExecutionStep
      BY <1>4, <2>1, <2>2 DEF ExecutionStep
    <2>4. /\ \A e \in Registrars : callbacks[e] \in {"none", "added"}
          /\ allow = "none"
      BY <1>0, <2>1 DEF RequestOK
    <2>5. /\ callbacks' \in [Registrars -> CallbackStates]
          /\ \A e \in Registrars : callbacks'[e] # "none" <=> callbacks[e] # "none"
      BY <1>0, <2>1, <2>4 DEF RunCallbacks, CallbackStates
    <2>6. EffectsOK'
      BY <1>0, <2>1, <2>2, <2>5, EffectsKept
    <2>7. RunTypeOK'
      BY <1>0, <1>3, <2>1, <2>3, <2>5 DEF RunTypeOK, Places, Verdicts
    <2>8. phase'[Complete] = "set"
      BY <1>1, <1>3, <2>1, <2>3 DEF Grows
    <2>9. allow' # "none" /\ (allow' = "block" <=> blocked' /\ ~whitelisted')
      BY <2>1
    <2>10. ASSUME pc' = "mutate" PROVE RequestOK'
      <3>1. wishes' = {} /\ RunCallbacks
        BY <2>1, <2>10
      <3>2. \A e \in Registrars : callbacks'[e] # "added"
        BY <1>0, <3>1 DEF RunCallbacks
      <3> QED BY <2>8, <2>9, <2>10, <3>1, <3>2 DEF RequestOK, MutationsComeLast
    <2>11. ASSUME pc' = "features" PROVE RequestOK'
      <3>1. callbacks' = callbacks
        BY <2>1, <2>11
      <3> QED BY <2>4, <2>8, <2>9, <2>11, <3>1 DEF RequestOK, MutationsComeLast
    <2> QED BY <1>3, <2>1, <2>3, <2>6, <2>7, <2>10, <2>11 DEF RunInv
  <1>8. CASE FeaturesFail \/ MutateFails \/ Respond
    <2>1. /\ pc' \in {"error", "responded"} /\ UNCHANGED <<execVars, wishes, allow, manipulatorVars>>
          /\ pc' = "responded" => pc = "mutate" /\ \A s \in Registrars : callbacks[s] \in {"none", "done"}
      BY <1>8 DEF FeaturesFail, MutateFails, Respond
    <2>2. ExecutionStep
      BY <1>4, <2>1
    <2>3. EffectsOK'
      BY <1>0, <2>1, EffectsKept DEF manipulatorVars
    <2>4. RunTypeOK'
      BY <1>0, <1>3, <2>1, <2>2 DEF RunTypeOK, manipulatorVars, Places
    <2>5. RequestOK'
      BY <1>0, <2>1 DEF RequestOK, MutationsComeLast, manipulatorVars, execVars
    <2> QED BY <1>3, <2>2, <2>3, <2>4, <2>5 DEF RunInv
  <1>9. CASE FeaturesReady
    <2>1. /\ pc = "features" /\ pc' = "mutate" /\ RunCallbacks
          /\ \A s \in wishes : phase[s] = "set" /\ s \in Slots
          /\ UNCHANGED <<execVars, wishes, allow, blocked, whitelisted>>
      BY <1>0, <1>2, <1>9 DEF FeaturesReady
    <2>2. ExecutionStep
      BY <1>4, <2>1
    <2>3. /\ callbacks' \in [Registrars -> CallbackStates]
          /\ \A e \in Registrars : callbacks'[e] # "none" <=> callbacks[e] # "none"
          /\ \A e \in Registrars : callbacks'[e] # "added"
      BY <1>0, <2>1 DEF RunCallbacks, CallbackStates
    <2>4. EffectsOK'
      BY <1>0, <2>1, <2>3, EffectsKept
    <2>5. RunTypeOK'
      BY <1>0, <1>3, <2>1, <2>2, <2>3 DEF RunTypeOK, Places
    <2>6. RequestOK'
      BY <1>0, <2>1, <2>3 DEF RequestOK, MutationsComeLast, execVars
    <2> QED BY <1>3, <2>2, <2>4, <2>5, <2>6 DEF RunInv
  <1>10. ASSUME NEW s \in Slots, Evaluate(s) \/ FunctionSettles(s) PROVE RunInv'
    <2>1. (Compute(s) \/ Settle(s)) /\ UNCHANGED <<manipulatorVars, requestVars>>
      BY <1>10 DEF Evaluate, FunctionSettles
    <2>2. ExecutionStep
      BY <2>1 DEF ExecutionStep, Next, SlotStep
    <2>3. EffectsOK'
      BY <1>0, <2>1, EffectsKept DEF manipulatorVars
    <2>4. RunTypeOK'
      BY <1>0, <1>3, <2>1, <2>2 DEF RunTypeOK, manipulatorVars, requestVars
    <2>5. RequestOK'
      BY <1>0, <1>3, <2>1, <2>2, RequestKept DEF manipulatorVars
    <2> QED BY <1>3, <2>2, <2>3, <2>4, <2>5 DEF RunInv
  <1>11. ASSUME NEW s \in Slots, InvokeWithEffect(s) PROVE RunInv'
    <2>1. /\ Invoke(s)
          /\ blocked' = (blocked \/ s \in Blockers)
          /\ whitelisted' = (whitelisted \/ s \in Whitelisters)
          /\ callbacks' = [r \in Registrars |-> IF r = s THEN "added" ELSE callbacks[r]]
          /\ UNCHANGED <<pc, wishes, allow>>
      BY <1>11 DEF InvokeWithEffect, requestVars
    <2>2. ExecutionStep
      BY <2>1 DEF ExecutionStep, Next, SlotStep
    <2>3. \A e \in Effectful : Called(e)' <=> Called(e) \/ e = s
      BY <1>0, <2>1, InvokeCalls
    <2>4. EffectsOK'
      <3>1. blocked' <=> \E e \in Blockers : Called(e)'
        <4>1. blocked' <=> blocked \/ s \in Blockers
          BY <1>0, <2>1 DEF RunTypeOK
        <4>2. \A e \in Blockers : Called(e)' <=> Called(e) \/ e = s
          BY <2>3, SubsetsOfEffectful
        <4>3. blocked <=> \E e \in Blockers : Called(e)
          BY <1>0 DEF EffectsOK
        <4> QED BY <4>1, <4>2, <4>3
      <3>2. whitelisted' <=> \E e \in Whitelisters : Called(e)'
        <4>1. whitelisted' <=> whitelisted \/ s \in Whitelisters
          BY <1>0, <2>1 DEF RunTypeOK
        <4>2. \A e \in Whitelisters : Called(e)' <=> Called(e) \/ e = s
          BY <2>3, SubsetsOfEffectful
        <4>3. whitelisted <=> \E e \in Whitelisters : Called(e)
          BY <1>0 DEF EffectsOK
        <4> QED BY <4>1, <4>2, <4>3
      <3>3. \A e \in Registrars : callbacks'[e] # "none" <=> Called(e)'
        BY <1>0, <2>1, <2>3 DEF EffectsOK
      <3> QED BY <3>1, <3>2, <3>3 DEF EffectsOK
    <2>5. RunTypeOK'
      <3>1. blocked' \in BOOLEAN /\ whitelisted' \in BOOLEAN
        BY <2>1
      <3>2. callbacks' \in [Registrars -> CallbackStates]
        BY <1>0, <2>1 DEF CallbackStates
      <3> QED BY <1>0, <1>3, <2>1, <2>2, <3>1, <3>2 DEF RunTypeOK
    <2>6. CASE allow = "none"
      <3>1. /\ pc' \notin {"features", "mutate", "responded"} /\ allow' = "none"
            /\ \A e \in Registrars : callbacks[e] \notin {"running", "done", "failed"}
        BY <1>0, <2>1, <2>6 DEF RequestOK, MutationsComeLast
      <3>2. \A e \in Registrars : callbacks'[e] \in {"none", "added"}
        BY <1>0, <2>1, <3>1 DEF CallbackStates
      <3>3. RequestOK'
        BY <3>1, <3>2 DEF RequestOK, MutationsComeLast
      <3> QED BY <1>3, <2>2, <2>4, <2>5, <3>3 DEF RunInv
    <2>7. CASE allow # "none"
      <3>1. phase[s] = "loading"
        BY <2>1 DEF Invoke, Loaded
      <3>2. s \notin Effectful
        BY <1>0, <2>7, <3>1, CompleteMeansDone DEF RequestOK
      <3>3. s \notin Blockers /\ s \notin Whitelisters /\ s \notin Registrars
        BY <3>2, SubsetsOfEffectful
      <3>4. blocked' = blocked /\ whitelisted' = whitelisted
        BY <1>0, <2>1, <3>3, Zenon DEF RunTypeOK
      <3>5. callbacks' = callbacks
        BY <1>0, <2>1, <3>3
      <3>6. RequestOK'
        BY <1>0, <1>3, <2>1, <2>2, <3>4, <3>5, RequestKept DEF requestVars
      <3> QED BY <1>3, <2>2, <2>4, <2>5, <3>6 DEF RunInv
    <2> QED BY <2>6, <2>7
  <1>12. ASSUME NEW s \in Registrars, FinishCallback(s) PROVE RunInv'
    <2>1. PICK outcome \in {"done", "failed"} :
            /\ callbacks[s] = "running" /\ callbacks' = [callbacks EXCEPT ![s] = outcome]
            /\ UNCHANGED <<execVars, pc, wishes, allow, blocked, whitelisted>>
      BY <1>12 DEF FinishCallback, requestVars
    <2>2. ExecutionStep
      BY <1>4, <2>1
    <2>3. /\ callbacks' \in [Registrars -> CallbackStates]
          /\ \A e \in Registrars : callbacks'[e] # "none" <=> callbacks[e] # "none"
          /\ \A e \in Registrars : callbacks'[e] = "added" => callbacks[e] = "added"
      BY <1>0, <2>1 DEF CallbackStates
    <2>4. EffectsOK'
      BY <1>0, <2>1, <2>3, EffectsKept
    <2>5. RunTypeOK'
      BY <1>0, <1>3, <2>1, <2>2, <2>3 DEF RunTypeOK
    <2>6. /\ pc \notin {"start", "clock", "complete", "features", "responded"}
          /\ allow # "none" /\ \A t \in wishes : t \in Slots /\ phase[t] = "set"
      BY <1>0, <2>1 DEF RequestOK, MutationsComeLast
    <2>7. RequestOK'
      BY <1>0, <2>1, <2>3, <2>6 DEF RequestOK, MutationsComeLast, execVars
    <2> QED BY <1>3, <2>2, <2>4, <2>5, <2>7 DEF RunInv
  <1>13. CASE UNCHANGED vars
    <2>1. UNCHANGED <<execVars, pc, wishes, allow, blocked, whitelisted, callbacks>>
      BY <1>13 DEF vars, manipulatorVars, requestVars
    <2>2. ExecutionStep
      BY <1>4, <2>1
    <2>3. EffectsOK' /\ RequestOK'
      BY <1>0, <1>3, <2>1, <2>2, EffectsKept, RequestKept DEF requestVars
    <2>4. RunTypeOK'
      BY <1>0, <1>3, <2>1, <2>2 DEF RunTypeOK
    <2> QED BY <1>3, <2>2, <2>3, <2>4 DEF RunInv
  <1> QED BY <1>5, <1>6, <1>7, <1>8, <1>9, <1>10, <1>11, <1>12, <1>13 DEF RunNext, Handler

-----------------------------------------------------------------------------
(* Confluence holds of the execution inside a request as well.             *)

(* Every step of the request is one of the execution, or several fetches.  *)
LEMMA RunIsExecutionStep ==
  ASSUME RunInv, [RunNext]_vars
  PROVE  ExecutionStep
  <1>0. wishes \intersect Slots \in SUBSET (Slots \ Effectful)
    BY StatementAssumption DEF RunInv, RunTypeOK
  <1>1. {Clock} \in SUBSET (Slots \ Effectful) /\ {Complete} \in SUBSET (Slots \ Effectful)
    BY RunAssumption, StatementAssumption
  <1>2. \/ FetchAll({Clock}) \/ FetchAll({Complete}) \/ FetchAll(wishes \intersect Slots)
        \/ UNCHANGED execVars
        \/ \E s \in Slots : Compute(s) \/ Invoke(s) \/ Settle(s)
    BY DEF RunNext, Handler, FetchClock, StartExecution, ReadVerdict, GiveVerdict, FeaturesFail,
       FeaturesReady, MutateFails, Respond, Evaluate, InvokeWithEffect, FunctionSettles,
       FinishCallback, vars
  <1> QED BY <1>0, <1>1, <1>2 DEF ExecutionStep, Next, SlotStep

(* The request and its execution are consistent in every state. *)
THEOREM RequestConsistent == RunSpec => [](RunInv /\ Confluent)
  <1>1. RunInit => RunInv /\ Confluent
    BY RunInitOK, InitConfluent DEF RunInit
  <1>2. RunInv /\ Confluent /\ [RunNext]_vars => (RunInv /\ Confluent)'
    BY RunStep, RunIsExecutionStep, ExecutionConfluent DEF RunInv, ExecutionOK
  <1> QED BY <1>1, <1>2, PTL DEF RunSpec

(* When the statements are over, the cause of each has its meaning.        *)
LEMMA CausesMean ==
  ASSUME RunInv, Confluent, phase[Complete] = "set", NEW e \in Effectful
  PROVE  Called(e) <=> Fires(e)
  <1>1. /\ ExecutionOK /\ TypeOK /\ Cause[e] \in Slots
    BY RunAssumption DEF RunInv, RunTypeOK
  <1>2. phase[Cause[e]] = "set" /\ (Called(e) <=> value[Cause[e]] = "true")
    BY <1>1, CompleteMeansDone DEF Called
  <1>3. value[Cause[e]] = Meaning[Cause[e]]
    BY <1>1, <1>2, MeaningIsMeaning DEF Confluent, IsMeaning, Respects, AgreesWith
  <1> QED BY <1>2, <1>3 DEF Fires

(* The response says "block" exactly if the rules of a blocking statement  *)
(* fired and those of no whitelisting one, whatever functions failed or    *)
(* timed out and however the calculations interleaved.                     *)
THEOREM VerdictRight == RunSpec => []VerdictMatchesRules
  <1>1. RunInv /\ Confluent => VerdictMatchesRules
    <2> SUFFICES ASSUME RunInv, Confluent, allow # "none" PROVE
          allow = "block" <=> (\E s \in Blockers : Fires(s)) /\ ~(\E s \in Whitelisters : Fires(s))
      BY DEF VerdictMatchesRules
    <2>1. phase[Complete] = "set" /\ (allow = "block" <=> blocked /\ ~whitelisted) /\ EffectsOK
      BY DEF RunInv, RequestOK
    <2>2. \A e \in Effectful : Called(e) <=> Fires(e)
      BY <2>1, CausesMean
    <2>3. blocked <=> \E s \in Blockers : Fires(s)
      BY <2>1, <2>2, SubsetsOfEffectful, Zenon DEF EffectsOK
    <2>4. whitelisted <=> \E s \in Whitelisters : Fires(s)
      BY <2>1, <2>2, SubsetsOfEffectful, Zenon DEF EffectsOK
    <2> QED BY <2>1, <2>3, <2>4
  <1> QED BY <1>1, RequestConsistent, PTL

(* The client is told of success only after exactly the mutations of the   *)
(* statements that fired have been applied.                                *)
THEOREM SuccessIsHonest == RunSpec => []SuccessMeansMutated
  <1>1. RunInv /\ Confluent => SuccessMeansMutated
    <2> SUFFICES ASSUME RunInv, Confluent, pc = "responded", NEW s \in Registrars
                 PROVE  callbacks[s] = IF Fires(s) THEN "done" ELSE "none"
      BY DEF SuccessMeansMutated, RunInv
    <2>1. phase[Complete] = "set" /\ EffectsOK /\ callbacks[s] \in {"none", "done"}
      BY DEF RunInv, RequestOK
    <2>2. Called(s) <=> Fires(s)
      BY <2>1, CausesMean, SubsetsOfEffectful
    <2> QED BY <2>1, <2>2 DEF EffectsOK
  <1> QED BY <1>1, RequestConsistent, PTL

(* A request that fails before its features are there changes nothing in   *)
(* the databases.                                                          *)
THEOREM MutationsAreLast == RunSpec => []MutationsComeLast
  <1>1. RunInv => MutationsComeLast
    BY DEF RunInv, RequestOK
  <1> QED BY <1>1, RequestConsistent, PTL

-----------------------------------------------------------------------------
(* What EveryRequestEnds rests on.                                         *)

(* What the handler awaits has been asked for. *)
AskedBefore ==
  /\ pc = "clock" => phase[Clock] # "unset"
  /\ pc = "complete" => phase[Complete] # "unset"
  /\ pc = "features" => \A s \in wishes \intersect Slots : phase[s] # "unset"

(* Slots that are fetched have a promise from then on. *)
LEMMA FetchedAll ==
  ASSUME TypeOK, NEW S \in SUBSET Slots, FetchAll(S)
  PROVE  \A s \in S : phase'[s] # "unset"
  BY DEF FetchAll

(* The handler asks for it in the step in which it begins to wait, and     *)
(* nothing takes a promise back.                                           *)
LEMMA AskedBeforeKept ==
  ASSUME RunInv, AskedBefore, [RunNext]_vars
  PROVE  AskedBefore'
  <1>0. RunTypeOK /\ TypeOK /\ ExecutionOK /\ SlotsConsistent /\ Clock \in Slots /\ Complete \in Slots
    BY RunAssumption DEF RunInv, RunTypeOK, ExecutionOK
  <1>1. \A s \in Slots : phase[s] # "unset" => phase'[s] # "unset"
    BY <1>0, RunIsExecutionStep, ExecutionGrows DEF Grows
  <1>2. CASE UNCHANGED <<pc, wishes>>
    BY <1>0, <1>1, <1>2 DEF AskedBefore
  <1>3. CASE FetchClock
    <2>1. pc' = "clock" /\ FetchAll({Clock})
      BY <1>3 DEF FetchClock
    <2> QED BY <1>0, <2>1, FetchedAll DEF AskedBefore
  <1>4. CASE StartExecution
    <2>1. pc' = "error" \/ (pc' = "complete" /\ FetchAll({Complete}))
      BY <1>4 DEF StartExecution
    <2> QED BY <1>0, <2>1, FetchedAll DEF AskedBefore
  <1>5. CASE ReadVerdict
    <2>1. /\ wishes' = wishes
          /\ pc' = "mutate" \/ (pc' = "features" /\ FetchAll(wishes \intersect Slots))
      BY <1>5 DEF ReadVerdict, GiveVerdict
    <2> QED BY <1>0, <2>1, FetchedAll DEF AskedBefore
  <1>6. CASE FeaturesFail \/ FeaturesReady \/ MutateFails \/ Respond
    <2>1. pc' \in {"error", "mutate", "responded"}
      BY <1>6 DEF FeaturesFail, FeaturesReady, MutateFails, Respond
    <2> QED BY <2>1 DEF AskedBefore
  <1> QED BY <1>2, <1>3, <1>4, <1>5, <1>6 DEF RunNext, Handler, Evaluate, InvokeWithEffect,
             FunctionSettles, FinishCallback, requestVars, vars

(* What has a promise is there, or its slot or one below it goes on.       *)
LEMMA PromisedGoesOn ==
  ASSUME TypeOK, SlotsConsistent, NEW s \in Slots, phase[s] # "unset", phase[s] # "set"
  PROVE  \E t \in Slots : CanGoOn(t)
  <1>1. phase[s] \in {"loading", "calling"}
    BY DEF TypeOK, Phases
  <1> QED BY <1>1, LeastGoesOn DEF NobodyStuck

(* No deadlock: until the request has ended its handler goes on, or the    *)
(* execution does, or a callback is running; whatever functions do.        *)
THEOREM RequestNeverStuck == RunSpec => []RequestNotStuck
  <1>1. RunInit => RunInv /\ AskedBefore
    BY RunInitOK DEF RunInit, AskedBefore
  <1>2. RunInv /\ AskedBefore /\ [RunNext]_vars => (RunInv /\ AskedBefore)'
    BY RunStep, AskedBeforeKept
  <1>3. RunInv /\ AskedBefore => RequestNotStuck
    <2> SUFFICES ASSUME RunInv, AskedBefore, ~Ended, ~HandlerGoesOn, ~\E s \in Slots : CanGoOn(s)
                 PROVE  \E s \in Registrars : callbacks[s] = "running"
      BY DEF RequestNotStuck
    <2>1. RunTypeOK /\ TypeOK /\ SlotsConsistent /\ RequestOK
      BY DEF RunInv, RunTypeOK, ExecutionOK
    <2>2. \A s \in Slots : phase[s] # "unset" => phase[s] = "set"
      BY <2>1, PromisedGoesOn
    <2>3. /\ Clock \in Slots /\ Complete \in Slots
          /\ \A s \in wishes : s \in Slots \/ s = UnknownName
      BY <2>1, RunAssumption DEF RunTypeOK
    <2>4. pc = "mutate"
      BY <2>1, <2>2, <2>3 DEF RunTypeOK, Places, AskedBefore, HandlerGoesOn, Ended
    <2>5. \A s \in Registrars : callbacks[s] \in CallbackStates /\ callbacks[s] # "added"
      BY <2>1, <2>4 DEF RunTypeOK, RequestOK
    <2> QED BY <2>4, <2>5 DEF HandlerGoesOn, CallbackStates
  <1> QED BY <1>1, <1>2, <1>3, PTL DEF RunSpec

-----------------------------------------------------------------------------
(* The request implements RequestOutcome.                                  *)

(* What is to be written, what was, and the reply, as the refinement maps. *)
Due == {s \in Registrars : allow # "none" /\ callbacks[s] # "none"}
Written == {s \in Registrars : callbacks[s] = "done"}
Told == IF pc = "responded" THEN "success" ELSE IF pc = "error" THEN "failure" ELSE "none"

(* Callbacks that neither come nor are done leave the outcome alone.       *)
LEMMA OutcomeUntouched ==
  ASSUME RunInv, UNCHANGED <<pc, allow>>,
         allow # "none" =>
           \A e \in Registrars : /\ callbacks'[e] # "none" <=> callbacks[e] # "none"
                                 /\ callbacks'[e] = "done" <=> callbacks[e] = "done",
         allow = "none" => \A e \in Registrars : callbacks'[e] # "done"
  PROVE  Due' = Due /\ Written' = Written
  <1>1. allow = "none" => \A e \in Registrars : callbacks[e] # "done"
    BY DEF RunInv, RequestOK, MutationsComeLast
  <1> QED BY <1>1 DEF Due, Written

(* Once the verdict was read nothing registers a callback, and before that *)
(* none is done.                                                           *)
LEMMA InvokeIsInTime ==
  ASSUME RunInv, NEW s \in Slots, InvokeWithEffect(s)
  PROVE  UNCHANGED <<pc, allow, Due, Written>>
  <1>0. /\ ExecutionOK /\ RequestOK /\ SlotsConsistent /\ Registrars \subseteq Effectful
        /\ callbacks \in [Registrars -> CallbackStates]
    BY SubsetsOfEffectful DEF RunInv, RunTypeOK, ExecutionOK
  <1>1. /\ Invoke(s) /\ UNCHANGED <<pc, allow>>
        /\ callbacks' = [r \in Registrars |-> IF r = s THEN "added" ELSE callbacks[r]]
    BY DEF InvokeWithEffect, requestVars
  <1>2. CASE allow = "none"
    <2>1. \A e \in Registrars : callbacks'[e] # "done"
      BY <1>0, <1>1, <1>2 DEF RequestOK, MutationsComeLast
    <2> QED BY <1>1, <1>2, <2>1, OutcomeUntouched
  <1>3. CASE allow # "none"
    <2>1. phase[s] = "loading"
      BY <1>1 DEF Invoke, Loaded
    <2>2. s \notin Registrars
      BY <1>0, <1>3, <2>1, CompleteMeansDone DEF RequestOK
    <2>3. \A e \in Registrars : callbacks'[e] = callbacks[e]
      BY <1>1, <2>2
    <2> QED BY <1>1, <1>3, <2>3, OutcomeUntouched
  <1> QED BY <1>2, <1>3

(* Reading the verdict decides on both at once.                            *)
LEMMA VerdictDecides ==
  ASSUME RunInv, ReadVerdict
  PROVE  Outcome!Decide
  <1>0. callbacks \in [Registrars -> CallbackStates]
    BY DEF RunInv, RunTypeOK
  <1>1. /\ pc = "complete" /\ allow = "none"
        /\ \A e \in Registrars : callbacks[e] \in {"none", "added"}
    BY DEF ReadVerdict, RunInv, RequestOK
  <1>2. /\ allow' \in {"allow", "block"} /\ pc' \in {"mutate", "features"}
        /\ RunCallbacks \/ UNCHANGED callbacks
    BY DEF ReadVerdict, GiveVerdict
  <1>3. \A e \in Registrars : callbacks'[e] # "done"
    BY <1>0, <1>1, <1>2 DEF RunCallbacks
  <1>4. Written = {} /\ Written' = {}
    BY <1>1, <1>3 DEF Written
  <1> QED BY <1>1, <1>2, <1>4 DEF Outcome!Decide, Written

(* A callback that is done is one that was due, and one more is written.   *)
LEMMA FinishWrites ==
  ASSUME RunInv, NEW s \in Registrars, FinishCallback(s)
  PROVE  Outcome!Write(s) \/ UNCHANGED <<pc, allow, Due, Written>>
  <1>0. callbacks \in [Registrars -> CallbackStates]
    BY DEF RunInv, RunTypeOK
  <1>1. PICK how \in {"done", "failed"} :
          /\ callbacks[s] = "running" /\ callbacks' = [callbacks EXCEPT ![s] = how]
          /\ UNCHANGED <<pc, allow>>
    BY DEF FinishCallback, requestVars
  <1>2. allow # "none"
    BY <1>1 DEF RunInv, RequestOK, MutationsComeLast
  <1>3. CASE how = "failed"
    <2>1. \A e \in Registrars : /\ callbacks'[e] # "none" <=> callbacks[e] # "none"
                                /\ callbacks'[e] = "done" <=> callbacks[e] = "done"
      BY <1>0, <1>1, <1>3
    <2> QED BY <1>1, <1>2, <2>1, OutcomeUntouched
  <1>4. CASE how = "done"
    <2>1. s \in Due \ Written /\ Written' = Written \union {s} /\ Due' = Due
      BY <1>0, <1>1, <1>2, <1>4 DEF Due, Written
    <2> QED BY <1>1, <1>2, <2>1 DEF Outcome!Write, Due, Written
  <1> QED BY <1>3, <1>4

(* The other steps of the handler end the request or move callbacks on.    *)
LEMMA HandlerOutcome ==
  ASSUME RunInv, Handler
  PROVE  \/ Outcome!Next
         \/ UNCHANGED <<allow, Due, Written, Told>>
  <1>0. callbacks \in [Registrars -> CallbackStates]
    BY DEF RunInv, RunTypeOK
  <1>1. CASE FetchClock \/ StartExecution
    <2>1. /\ pc \in {"start", "clock"} /\ pc' \in {"clock", "complete", "error"}
          /\ UNCHANGED <<allow, callbacks>>
      BY <1>1 DEF FetchClock, StartExecution, manipulatorVars
    <2>2. CASE pc' = "error"
      <3>1. Outcome!Fail
        BY <2>1, <2>2 DEF Outcome!Fail
      <3> QED BY <3>1 DEF Outcome!Next
    <2>3. CASE pc' # "error"
      BY <2>1, <2>3 DEF Due, Written, Told
    <2> QED BY <2>2, <2>3
  <1>2. CASE ReadVerdict
    BY <1>2, VerdictDecides DEF Outcome!Next
  <1>3. CASE FeaturesFail \/ MutateFails
    <2>1. pc \in {"features", "mutate"} /\ pc' = "error" /\ UNCHANGED <<allow, callbacks>>
      BY <1>3 DEF FeaturesFail, MutateFails, manipulatorVars
    <2>2. Outcome!Fail
      BY <2>1 DEF Outcome!Fail
    <2> QED BY <2>2 DEF Outcome!Next
  <1>4. CASE FeaturesReady
    <2>1. /\ pc = "features" /\ pc' = "mutate" /\ allow' = allow /\ RunCallbacks
      BY <1>4 DEF FeaturesReady
    <2>2. \A e \in Registrars : callbacks[e] \in {"none", "added"}
      BY <2>1 DEF RunInv, RequestOK
    <2>3. \A e \in Registrars : /\ callbacks'[e] # "none" <=> callbacks[e] # "none"
                                /\ callbacks'[e] # "done"
      BY <1>0, <2>1, <2>2 DEF RunCallbacks
    <2>4. Due' = Due /\ Written' = Written
      BY <2>1, <2>2, <2>3 DEF Due, Written
    <2> QED BY <2>1, <2>4 DEF Told
  <1>5. CASE Respond
    <2>1. /\ pc = "mutate" /\ pc' = "responded" /\ UNCHANGED <<allow, callbacks>>
          /\ \A e \in Registrars : callbacks[e] \in {"none", "done"}
      BY <1>5 DEF Respond, manipulatorVars
    <2>2. allow # "none"
      BY <2>1 DEF RunInv, RequestOK
    <2>3. {s \in Registrars : callbacks[s] = "done"}
            = {s \in Registrars : allow # "none" /\ callbacks[s] # "none"}
      BY <2>1, <2>2
    <2>4. Outcome!Succeed
      BY <2>1, <2>2, <2>3 DEF Outcome!Succeed
    <2> QED BY <2>4 DEF Outcome!Next
  <1> QED BY <1>1, <1>2, <1>3, <1>4, <1>5 DEF Handler

(* Refinement: slots, promises, handler and callbacks come to one decision *)
(* on verdict and mutations, carried out in full before success is told.   *)
THEOREM OutcomeRefined == RunSpec => ImplementsOutcome
  <1>1. RunInit => Outcome!Init
    BY DEF RunInit, Outcome!Init
  <1>2. RunInv /\ [RunNext]_vars => [Outcome!Next]_<<allow, Due, Written, Told>>
    <2> SUFFICES ASSUME RunInv, [RunNext]_vars
                 PROVE  Outcome!Next \/ UNCHANGED <<allow, Due, Written, Told>>
      OBVIOUS
    <2>1. CASE Handler
      BY <2>1, HandlerOutcome
    <2>2. ASSUME NEW s \in Slots, Evaluate(s) \/ FunctionSettles(s) \/ InvokeWithEffect(s)
          PROVE  UNCHANGED <<pc, allow, Due, Written>>
      BY <2>2, InvokeIsInTime DEF Evaluate, FunctionSettles, manipulatorVars, requestVars,
         Due, Written
    <2>3. ASSUME NEW s \in Registrars, FinishCallback(s)
          PROVE  Outcome!Next \/ UNCHANGED <<pc, allow, Due, Written>>
      BY <2>3, FinishWrites DEF Outcome!Next
    <2>4. UNCHANGED vars => UNCHANGED <<pc, allow, Due, Written>>
      BY DEF vars, manipulatorVars, requestVars, Due, Written
    <2>5. UNCHANGED pc => UNCHANGED Told
      BY DEF Told
    <2> QED BY <2>1, <2>2, <2>3, <2>4, <2>5 DEF RunNext
  <1>3. RunInv /\ [RunNext]_vars => [Outcome!Next]_<<allow,
          {s \in Registrars : allow # "none" /\ callbacks[s] # "none"},
          {s \in Registrars : callbacks[s] = "done"},
          IF pc = "responded" THEN "success" ELSE IF pc = "error" THEN "failure" ELSE "none">>
    BY <1>2 DEF Due, Written, Told
  <1> QED BY <1>1, <1>3, RequestConsistent, PTL DEF RunSpec, ImplementsOutcome, Outcome!Spec

=============================================================================
