---------------------------- MODULE SqrlExecution ----------------------------
(***************************************************************************)
(* One execution of compiled SQRL (SqrlExecutionState and the callbacks    *)
(* SqrlJs generates): memoised promises, one per slot, calculated on       *)
(* demand by code that interleaves with every other slot at each point     *)
(* where it yields to the event loop.                                      *)
(*                                                                         *)
(* The code of a slot runs in stages. A stage loads a group of slots       *)
(* (`this.load([...])`): it prepares them one by one, yielding between     *)
(* them, waits for all of their promises and goes on in `.then()`. What it *)
(* does next depends on the expression: a lazy expression loads its next   *)
(* group, a function call runs behind the safety net of its registration.  *)
(***************************************************************************)
EXTENDS SlotGraph

VARIABLES
  phase,      (* where the calculation of each slot stands                   *)
  value,      (* the value its promise was fulfilled with, or Unset          *)
  stage,      (* the stage its code has reached                              *)
  pos,        (* how many slots of the stage's group have been prepared      *)
  seenNull,   (* the local variable of _andSequential and _orSequential      *)
  answer,     (* what the function of each slot returns if nothing goes wrong*)
  faulted,    (* the slots whose function threw or was timed out             *)
  late,       (* the timed-out functions that are still running              *)
  fetches     (* how many times the callback of each slot was called         *)

execVars == <<phase, value, stage, pos, seenNull, answer, faulted, late, fetches>>

Phases == {"unset", "loading", "calling", "set"}

(* Faulty variant of Group: an if() that loads its branches upfront. *)
Group_EagerIf(s) ==
  CASE Kind[s] \in {"and", "or"} -> <<Deps[s][stage[s]]>>
    [] Kind[s] = "if" /\ stage[s] # 1 -> <<Branch(s, value[Deps[s][1]])>>
    [] OTHER -> Deps[s]

(* The slots the current stage of s loads. *)
Group(s) ==
  CASE Kind[s] \in {"and", "or"} -> <<Deps[s][stage[s]]>>
    [] Kind[s] = "if" /\ stage[s] = 1 -> <<Deps[s][1]>>
    [] Kind[s] = "if" /\ stage[s] # 1 -> <<Branch(s, value[Deps[s][1]])>>
    [] OTHER -> Deps[s]

(* bluebird.all(group): every slot was prepared and every promise is       *)
(* fulfilled, so the code that reads slots[i].value() may run.             *)
Loaded(s) ==
  /\ phase[s] = "loading"
  /\ pos[s] = Len(Group(s))
  /\ \A i \in 1..Len(Group(s)) : phase[Group(s)[i]] = "set"

(* The wrapper of a function registered without allowNull. *)
ShortCircuits(s) ==
  s \notin NullOk /\ \E d \in DepSet(s) : value[d] = "null"

(* The promise of s is fulfilled with v. *)
Fulfil(s, v) ==
  /\ phase' = [phase EXCEPT ![s] = "set"]
  /\ value' = [value EXCEPT ![s] = v]

(* The code of s goes on to load its next group. *)
Advance(s) ==
  /\ stage' = [stage EXCEPT ![s] = @ + 1]
  /\ pos' = [pos EXCEPT ![s] = 0]

-----------------------------------------------------------------------------
(* The constructor: setFeatures() stores the inputs as resolved promises,  *)
(* and every slot without a callback must be among them.                   *)
Init ==
  /\ answer \in [Slots -> Values]
  /\ \A s \in Slots : answer[s] \in Results[s]
  /\ phase = [s \in Slots |-> IF s \in InputSlots THEN "set" ELSE "unset"]
  /\ value = [s \in Slots |-> IF s \in InputSlots THEN answer[s] ELSE Unset]
  /\ stage = [s \in Slots |-> 1]
  /\ pos = [s \in Slots |-> 0]
  /\ seenNull = [s \in Slots |-> FALSE]
  /\ faulted = {}
  /\ late = {}
  /\ fetches = [s \in Slots |-> 0]

(* _fetch(): the callback of a slot is called and its promise stored.      *)
(* Without the test in fetch() and prepare_(), a faulty variant of Fetch.  *)
CallSlot(d) ==
  /\ phase' = [phase EXCEPT ![d] = "loading"]
  /\ fetches' = [fetches EXCEPT ![d] = @ + 1]

(* fetch() and prepare_(): only a slot that has no promise is calculated. *)
Fetch(d) ==
  IF phase[d] = "unset"
    THEN CallSlot(d)
    ELSE UNCHANGED <<phase, fetches>>

(* fetchByName() of the embedding program. *)
FetchRoot(s) ==
  /\ s \in Roots
  /\ phase[s] = "unset"
  /\ Fetch(s)
  /\ UNCHANGED <<value, stage, pos, seenNull, answer, faulted, late>>

(* One item of niceForEach() in prepare_(). *)
Prepare(s) ==
  /\ phase[s] = "loading"
  /\ pos[s] < Len(Group(s))
  /\ Fetch(Group(s)[pos[s] + 1])
  /\ pos' = [pos EXCEPT ![s] = @ + 1]
  /\ UNCHANGED <<value, stage, seenNull, answer, faulted, late>>

(* _slotWait() compiles to the constant true behind a load. *)
EvalWait(s) ==
  /\ Kind[s] = "wait" /\ Loaded(s)
  /\ Fulfil(s, "true")
  /\ UNCHANGED <<stage, pos, seenNull, answer, faulted, late, fetches>>

EvalNot(s) ==
  /\ Kind[s] = "not" /\ Loaded(s)
  /\ Fulfil(s, KleeneNot(value[Deps[s][1]]))
  /\ UNCHANGED <<stage, pos, seenNull, answer, faulted, late, fetches>>

(* The condition is loaded upfront, the branches are lazy. *)
EvalCondition(s) ==
  /\ Kind[s] = "if" /\ stage[s] = 1 /\ Loaded(s)
  /\ Advance(s)
  /\ UNCHANGED <<phase, value, seenNull, answer, faulted, late, fetches>>

EvalBranch(s) ==
  /\ Kind[s] = "if" /\ stage[s] = 2 /\ Loaded(s)
  /\ Fulfil(s, value[Branch(s, value[Deps[s][1]])])
  /\ UNCHANGED <<stage, pos, seenNull, answer, faulted, late, fetches>>

(* Faulty variant of EvalOperand: only the last operand may be null. *)
EvalOperand_ForgetsNull(s, kind, stop) ==
  LET v == value[Deps[s][stage[s]]]
  IN /\ Kind[s] = kind /\ Loaded(s)
     /\ IF v = stop
          THEN Fulfil(s, stop) /\ UNCHANGED <<stage, pos>>
          ELSE IF stage[s] = Len(Deps[s])
                 THEN /\ Fulfil(s, IF v = "null" THEN "null" ELSE KleeneNot(stop))
                      /\ UNCHANGED <<stage, pos>>
                 ELSE Advance(s) /\ UNCHANGED <<phase, value>>
     /\ UNCHANGED <<seenNull, answer, faulted, late, fetches>>

(* One turn of the loop of _andSequential (stop = "false") or of           *)
(* _orSequential (stop = "true"): an operand equal to stop decides.        *)
EvalOperand(s, kind, stop) ==
  LET v       == value[Deps[s][stage[s]]]
      hadNull == seenNull[s] \/ v = "null"
  IN /\ Kind[s] = kind /\ Loaded(s)
     /\ IF v = stop
          THEN Fulfil(s, stop) /\ UNCHANGED <<stage, pos, seenNull>>
          ELSE /\ seenNull' = [seenNull EXCEPT ![s] = hadNull]
               /\ IF stage[s] = Len(Deps[s])
                    THEN /\ Fulfil(s, IF hadNull THEN "null" ELSE KleeneNot(stop))
                         /\ UNCHANGED <<stage, pos>>
                    ELSE Advance(s) /\ UNCHANGED <<phase, value>>
     /\ UNCHANGED <<answer, faulted, late, fetches>>

EvalAnd(s) == EvalOperand(s, "and", "false")
EvalOr(s) == EvalOperand(s, "or", "true")

(* A synchronous function: syncSafetyNet() turns a throw into null. *)
CallSync(s) ==
  /\ Kind[s] = "sync" /\ Loaded(s)
  /\ IF ShortCircuits(s)
       THEN Fulfil(s, "null") /\ UNCHANGED faulted
       ELSE \/ Fulfil(s, answer[s]) /\ UNCHANGED faulted
            \/ Fulfil(s, "null") /\ faulted' = faulted \union {s}
  /\ UNCHANGED <<stage, pos, seenNull, answer, late, fetches>>

(* Faulty variant of Invoke: null arguments reach any function. *)
Invoke_NullArguments(s) ==
  /\ Kind[s] = "async" /\ Loaded(s)
  /\ phase' = [phase EXCEPT ![s] = "calling"]
  /\ UNCHANGED <<value, stage, pos, seenNull, answer, faulted, late, fetches>>

(* An asynchronous function runs up to its first await. *)
Invoke(s) ==
  /\ Kind[s] = "async" /\ Loaded(s) /\ ~ShortCircuits(s)
  /\ phase' = [phase EXCEPT ![s] = "calling"]
  /\ UNCHANGED <<value, stage, pos, seenNull, answer, faulted, late, fetches>>

SkipCall(s) ==
  /\ Kind[s] = "async" /\ Loaded(s) /\ ShortCircuits(s)
  /\ Fulfil(s, "null")
  /\ UNCHANGED <<stage, pos, seenNull, answer, faulted, late, fetches>>

(* asyncSafetyNet(): the promise of the function wins, rejects, or loses   *)
(* to the timer. Nothing cancels a function that lost.                     *)
Answer(s) ==
  /\ phase[s] = "calling"
  /\ Fulfil(s, answer[s])
  /\ UNCHANGED <<stage, pos, seenNull, answer, faulted, late, fetches>>

Throw(s) ==
  /\ phase[s] = "calling"
  /\ Fulfil(s, "null")
  /\ faulted' = faulted \union {s}
  /\ UNCHANGED <<stage, pos, seenNull, answer, late, fetches>>

(* Faulty variant of Timeout: the error is logged and not turned into null. *)
Timeout_OnlyLogs(s) ==
  /\ phase[s] = "calling"
  /\ faulted' = faulted \union {s}
  /\ UNCHANGED <<phase, value, stage, pos, seenNull, answer, late, fetches>>

Timeout(s) ==
  /\ phase[s] = "calling"
  /\ Fulfil(s, "null")
  /\ faulted' = faulted \union {s}
  /\ late' = late \union {s}
  /\ UNCHANGED <<stage, pos, seenNull, answer, fetches>>

(* Faulty variant of LateAnswer: the late answer is stored after all. *)
LateAnswer_Stored(s) ==
  /\ s \in late
  /\ late' = late \ {s}
  /\ Fulfil(s, answer[s])
  /\ UNCHANGED <<stage, pos, seenNull, answer, faulted, fetches>>

(* The function settles after its timeout: nobody listens any more. *)
LateAnswer(s) ==
  /\ s \in late
  /\ late' = late \ {s}
  /\ UNCHANGED <<phase, value, stage, pos, seenNull, answer, faulted, fetches>>

(* What the event loop does for slot s without waiting for the world; only *)
(* a function that is invoked reaches beyond the execution.                *)
Compute(s) ==
  \/ Prepare(s) \/ EvalWait(s) \/ EvalNot(s) \/ EvalCondition(s)
  \/ EvalBranch(s) \/ EvalAnd(s) \/ EvalOr(s) \/ CallSync(s) \/ SkipCall(s)

SlotStep(s) == Compute(s) \/ Invoke(s)

Settle(s) == Answer(s) \/ Throw(s) \/ Timeout(s) \/ LateAnswer(s)

Next == \E s \in Slots : FetchRoot(s) \/ SlotStep(s) \/ Settle(s)

(* The event loop runs every continuation that is ready and every timer    *)
(* that is due. Functions need not answer, and nobody has to fetch.        *)
Fairness ==
  \A s \in Slots : WF_execVars(SlotStep(s)) /\ WF_execVars(Timeout(s))

Spec == Init /\ [][Next]_execVars /\ Fairness

-----------------------------------------------------------------------------
(* The types of the variables: what SqrlExecutionState holds per slot. *)
TypeOK ==
  /\ phase \in [Slots -> Phases]
  /\ value \in [Slots -> Values \union {Unset}]
  /\ stage \in [Slots -> Nat \ {0}]
  /\ pos \in [Slots -> Nat]
  /\ seenNull \in [Slots -> BOOLEAN]
  /\ answer \in [Slots -> Values]
  /\ faulted \subseteq Slots
  /\ late \subseteq Slots
  /\ fetches \in [Slots -> Nat]

(***************************************************************************)
(* What the code of a slot relies on between two turns of the event loop,  *)
(* part by part; the proofs need all of it.                                *)
(***************************************************************************)
Stop(s) == IF Kind[s] = "and" THEN "false" ELSE "true"

LastStage(s) ==
  CASE Kind[s] \in {"and", "or"} -> Len(Deps[s]) [] Kind[s] = "if" -> 2 [] OTHER -> 1

(* A slot without a promise has not begun; one with a promise was called   *)
(* once, unless it was an input; and its promise holds a value or not.     *)
CalledOnce(s) ==
  /\ phase[s] = "set" <=> value[s] # Unset
  /\ phase[s] = "unset" => stage[s] = 1 /\ pos[s] = 0 /\ ~seenNull[s]
  /\ Kind[s] = "input" => phase[s] = "set"
  /\ fetches[s] = IF phase[s] = "unset" \/ Kind[s] = "input" THEN 0 ELSE 1

(* The slots behind the position reached in the group have a promise, so   *)
(* bluebird.all() never waits for a slot nobody calculates.                *)
PreparedUpTo(s) ==
  /\ stage[s] \in 1..LastStage(s)
  /\ pos[s] \in 0..Len(Group(s))
  /\ \A i \in 1..pos[s] : phase[Group(s)[i]] # "unset"

(* A later stage is reached only past a condition that has a value, or     *)
(* past operands none of which decided; seenNull remembers those.          *)
PastOperands(s) ==
  /\ Kind[s] = "if" /\ stage[s] = 2 => phase[Deps[s][1]] = "set"
  /\ Kind[s] \in {"and", "or"} =>
       \A i \in 1..(stage[s] - 1) :
         phase[Deps[s][i]] = "set" /\ value[Deps[s][i]] # Stop(s)
  /\ Kind[s] \in {"and", "or"} /\ phase[s] # "set" =>
       (seenNull[s] <=> \E i \in 1..(stage[s] - 1) : value[Deps[s][i]] = "null")

(* A function runs only with all of its arguments, none of them null       *)
(* unless it allows that; and it outlives its own promise only after a     *)
(* timeout.                                                                *)
CalledWithArguments(s) ==
  /\ phase[s] = "calling" => Kind[s] = "async"
  /\ s \in faulted => Kind[s] \in {"sync", "async"} /\ value[s] = "null"
  /\ phase[s] = "calling" \/ s \in faulted =>
       ~ShortCircuits(s) /\ \A d \in DepSet(s) : phase[d] = "set"
  /\ s \in late => s \in faulted

SlotOK(s) ==
  CalledOnce(s) /\ PreparedUpTo(s) /\ PastOperands(s) /\ CalledWithArguments(s)

(* The slots of an execution fit together at every turn of the event loop: *)
(* what a callback finds when it is resumed is what it relied on when it   *)
(* yielded, although any number of other callbacks ran in between.         *)
SlotsConsistent == TypeOK /\ \A s \in Slots : SlotOK(s)

(* Memoisation: however many slots and clients ask for a slot, and however *)
(* their preparations interleave, fetch() and prepare_() call its callback *)
(* at most once per execution (so a function has its effects once).        *)
FetchedOnce == \A s \in Slots : fetches[s] <= 1

(* The value of an expression when operands are not ordered, branches not  *)
(* lazy and nothing is scheduled: that of s, given the values M of the     *)
(* slots it refers to and the functions that failed.                       *)
MeaningIn(M, s) ==
  LET args == {M[d] : d \in DepSet(s)}
  IN CASE Kind[s] = "input" -> answer[s]
       [] Kind[s] = "and" -> KleeneAnd(args)
       [] Kind[s] = "or" -> KleeneOr(args)
       [] Kind[s] = "not" -> KleeneNot(M[Deps[s][1]])
       [] Kind[s] = "if" -> M[Branch(s, M[Deps[s][1]])]
       [] Kind[s] = "wait" -> "true"
       [] OTHER -> IF s \in faulted \/ ("null" \in args /\ s \notin NullOk)
                     THEN "null" ELSE answer[s]

(* M gives every slot the meaning of its expression. *)
IsMeaning(M) == M \in [Slots -> Values] /\ \A s \in Slots : M[s] = MeaningIn(M, s)

Meaning[s \in Slots] == MeaningIn(Meaning, s)

(* Confluence: the lazy, short-circuiting, interleaved calculation gives   *)
(* every slot the value the expression means, whichever operands were      *)
(* skipped and in whatever order the promises were fulfilled. This is what *)
(* lets the compiler sort the operands of AND and OR by cost.              *)
AgreesWithMeaning == \A s \in Slots : phase[s] = "set" => value[s] = Meaning[s]

(* A promise is fulfilled once: neither a function that answers after its  *)
(* timeout nor a second consumer changes a value that was already read.    *)
FirstAnswerStands ==
  [][\A s \in Slots : phase[s] = "set" => phase'[s] = "set" /\ value'[s] = value[s]]_execVars

(* The execution promises what LazyDataflow promises: a slot is calculated *)
(* only when something needs it, and its value is justified by the values  *)
(* of the slots it refers to.                                              *)
Dataflow == INSTANCE LazyDataflow
              WITH demanded <- {s \in Slots : phase[s] # "unset"}

ImplementsDataflow == Dataflow!Spec

(* Every slot somebody fetches gets a value, although functions may never  *)
(* answer: the timer of asyncSafetyNet() answers for them.                 *)
EveryFetchSettles == \A s \in Slots : phase[s] = "loading" ~> phase[s] = "set"

(* The event loop or a timer can go on with slot s: the guards of the      *)
(* actions of SlotStep(s) and of Timeout(s).                               *)
CanGoOn(s) ==
  \/ phase[s] = "loading" /\ pos[s] < Len(Group(s))
  \/ Loaded(s) /\ Kind[s] \in {"wait", "not", "and", "or", "sync", "async"}
  \/ Loaded(s) /\ Kind[s] = "if" /\ stage[s] \in {1, 2}
  \/ phase[s] = "calling"

(* What EveryFetchSettles rests on, for a graph of any size. Slots wait for*)
(* slots, but not all of them for one another: as long as one has not      *)
(* settled, there is one, not above it in the graph, that can go on.       *)
NobodyStuck ==
  \A s \in Slots : phase[s] \in {"loading", "calling"} =>
    \E t \in Slots : Rank[t] <= Rank[s] /\ CanGoOn(t)

(* The calculation of s is further than before: it settled or was begun,   *)
(* reached the next stage, or has prepared one more slot of this one.      *)
Progress == [unset |-> 0, loading |-> 1, calling |-> 2, set |-> 3]
Further(s) ==
  \/ Progress[phase[s]] < Progress[phase'[s]]
  \/ phase'[s] = phase[s] /\ stage[s] < stage'[s]
  \/ phase'[s] = phase[s] /\ stage'[s] = stage[s] /\ pos[s] < pos'[s]
AsFar(s) == phase'[s] = phase[s] /\ stage'[s] = stage[s] /\ pos'[s] = pos[s]

(* And they do not go on for ever: every step takes a slot further, in the *)
(* stages and the groups SlotsConsistent bounds, and none back; but for a  *)
(* late answer, after which one fewer is awaited.                          *)
StepsGoOn ==
  [][\/ /\ \A s \in Slots : Further(s) \/ AsFar(s)
        /\ \E s \in Slots : Further(s)
     \/ /\ \A s \in Slots : AsFar(s)
        /\ late' \subseteq late /\ late' # late]_execVars

(* website/source/functions/statement.md:18 says of a statement feature    *)
(* that its promise will only be resolved once all the statements have     *)
(* been run: no statement it waits for is still running when it is set.    *)
FeatureAfterItsStatements ==
  \A w \in Slots : Kind[w] = "wait" /\ phase[w] = "set" => DepSet(w) \cap late = {}

=============================================================================
