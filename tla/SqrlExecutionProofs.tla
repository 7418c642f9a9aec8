------------------------- MODULE SqrlExecutionProofs -------------------------
(***************************************************************************)
(* Proofs about one execution, for every program (every slot graph) and    *)
(* every way the slots, the functions and the timers interleave.           *)
(*                                                                         *)
(* SlotsConsistent is the inductive invariant. A step changes one slot,    *)
(* and perhaps begins another; the other slots only see that promises are  *)
(* made and fulfilled and never unmade (Grows), which disturbs nothing     *)
(* they rely on (lemma Bystander).                                         *)
(***************************************************************************)
EXTENDS SqrlExecution, WellFoundedInduction, TLAPS

(* The slots a slot refers to are slots, and not the slot itself. *)
LEMMA DepsAreSlots ==
  ASSUME NEW s \in Slots
  PROVE  /\ Deps[s] \in Seq(Slots)
         /\ Len(Deps[s]) \in Nat
         /\ \A i \in 1..Len(Deps[s]) : Deps[s][i] \in Slots /\ Deps[s][i] # s
         /\ \A d \in DepSet(s) : d \in Slots /\ d # s
  <1>1. Deps[s] \in Seq(Slots) /\ Len(Deps[s]) \in Nat
    BY GraphAssumption
  <1>2. ASSUME NEW i \in 1..Len(Deps[s])
        PROVE  Deps[s][i] \in Slots /\ Deps[s][i] # s
    <2>1. Deps[s][i] \in Slots
      BY <1>1
    <2>2. Rank[Deps[s][i]] < Rank[s] /\ Rank \in [Slots -> Nat]
      BY GraphAssumption
    <2> QED BY <2>1, <2>2
  <1> QED BY <1>1, <1>2 DEF DepSet

(* How many slots each kind of expression refers to. *)
LEMMA Arity ==
  ASSUME NEW s \in Slots
  PROVE  /\ Kind[s] \in Kinds
         /\ Kind[s] = "input" => Len(Deps[s]) = 0
         /\ Kind[s] = "if" => Len(Deps[s]) = 3
         /\ Kind[s] = "not" => Len(Deps[s]) = 1
         /\ Kind[s] \in {"and", "or"} => Len(Deps[s]) >= 1
  BY GraphAssumption DEF Kinds

(* A group is a sequence of slots the slot refers to. *)
LEMMA GroupOfDeps ==
  ASSUME TypeOK, NEW s \in Slots, stage[s] \in 1..LastStage(s)
  PROVE  /\ Group(s) \in Seq(Slots)
         /\ Len(Group(s)) \in Nat
         /\ \A i \in 1..Len(Group(s)) : Group(s)[i] \in DepSet(s) /\ Group(s)[i] \in Slots /\ Group(s)[i] # s
  <1>0. stage[s] \in Nat \ {0}
    BY DEF TypeOK
  <1>1. CASE Kind[s] \in {"and", "or"}
    <2>1. Group(s) = <<Deps[s][stage[s]]>> /\ stage[s] \in 1..Len(Deps[s])
      BY <1>1 DEF Group, LastStage
    <2> QED BY <2>1, DepsAreSlots DEF DepSet
  <1>2. CASE Kind[s] = "if" /\ stage[s] = 1
    <2>1. Group(s) = <<Deps[s][1]>> /\ 1 \in 1..Len(Deps[s])
      BY <1>2, Arity DEF Group
    <2> QED BY <2>1, DepsAreSlots DEF DepSet
  <1>3. CASE Kind[s] = "if" /\ stage[s] # 1
    <2>1. Group(s) = <<Branch(s, value[Deps[s][1]])>>
      BY <1>3 DEF Group
    <2>2. 2 \in 1..Len(Deps[s]) /\ 3 \in 1..Len(Deps[s])
      <3>1. Len(Deps[s]) = 3
        BY <1>3, Arity
      <3> QED BY <3>1
    <2>3. \A i \in 1..Len(Deps[s]) : Deps[s][i] \in DepSet(s)
      BY DEF DepSet
    <2>4. Branch(s, value[Deps[s][1]]) \in DepSet(s)
      BY <2>2, <2>3 DEF Branch
    <2>5. Branch(s, value[Deps[s][1]]) \in Slots /\ Branch(s, value[Deps[s][1]]) # s
      BY <2>4, DepsAreSlots
    <2> QED BY <2>1, <2>4, <2>5
  <1>4. CASE Kind[s] \notin {"and", "or", "if"}
    <2>1. Group(s) = Deps[s]
      BY <1>4 DEF Group
    <2> QED BY <2>1, DepsAreSlots DEF DepSet
  <1> QED BY <1>1, <1>2, <1>3, <1>4

-----------------------------------------------------------------------------
(* Promises are made and fulfilled and never unmade. *)
Grows ==
  /\ answer' = answer
  /\ \A t \in Slots :
       /\ phase[t] # "unset" => phase'[t] # "unset"
       /\ phase[t] = "set" => phase'[t] = "set" /\ value'[t] = value[t]

(* Nothing of slot t itself changes. *)
Untouched(t) ==
  /\ phase'[t] = phase[t] /\ value'[t] = value[t]
  /\ stage'[t] = stage[t] /\ pos'[t] = pos[t]
  /\ seenNull'[t] = seenNull[t] /\ fetches'[t] = fetches[t]
  /\ t \in faulted' <=> t \in faulted
  /\ t \in late' => t \in late

(* The group of a stage does not change while other slots are calculated:  *)
(* the condition that chose it already had its value.                      *)
LEMMA GroupStable ==
  ASSUME Grows, NEW t \in Slots, PastOperands(t), stage[t] \in 1..LastStage(t),
         stage'[t] = stage[t]
  PROVE  Group(t)' = Group(t)
  <1>1. CASE Kind[t] = "if" /\ stage[t] # 1
    <2>1. stage[t] = 2
      BY <1>1 DEF LastStage
    <2>2. phase[Deps[t][1]] = "set" /\ Deps[t][1] \in Slots
      <3>1. Len(Deps[t]) = 3
        BY <1>1, Arity
      <3> QED BY <1>1, <2>1, <3>1, DepsAreSlots DEF PastOperands
    <2>3. value'[Deps[t][1]] = value[Deps[t][1]]
      BY <2>2 DEF Grows
    <2> QED BY <1>1, <2>3 DEF Group, Branch
  <1>2. CASE ~(Kind[t] = "if" /\ stage[t] # 1)
    BY <1>2 DEF Group
  <1> QED BY <1>1, <1>2

(* What a slot relies on survives a step that only touches other slots. *)
LEMMA Bystander ==
  ASSUME TypeOK, Grows, NEW t \in Slots, SlotOK(t), Untouched(t)
  PROVE  SlotOK(t)'
  <1>0. stage[t] \in 1..LastStage(t) /\ stage[t] \in Nat \ {0}
    BY DEF SlotOK, PreparedUpTo, TypeOK
  <1>1. CalledOnce(t)'
    BY DEF SlotOK, CalledOnce, Untouched
  <1>2. PreparedUpTo(t)'
    <2>1. Group(t)' = Group(t)
      BY <1>0, GroupStable DEF SlotOK, Untouched
    <2>2. \A i \in 1..pos[t] : Group(t)[i] \in Slots
      BY <1>0, GroupOfDeps DEF SlotOK, PreparedUpTo
    <2> QED BY <2>1, <2>2 DEF SlotOK, PreparedUpTo, Untouched, Grows, LastStage
  <1>3. PastOperands(t)'
    <2>1. ASSUME Kind[t] = "if", stage[t] = 2
          PROVE  phase'[Deps[t][1]] = "set"
      <3>1. Len(Deps[t]) = 3
        BY <2>1, Arity
      <3>2. Deps[t][1] \in Slots
        BY <3>1, DepsAreSlots
      <3> QED BY <2>1, <3>2 DEF SlotOK, PastOperands, Grows
    <2>2. ASSUME Kind[t] \in {"and", "or"}, NEW i \in 1..(stage[t] - 1)
          PROVE  phase'[Deps[t][i]] = "set" /\ value'[Deps[t][i]] = value[Deps[t][i]]
      <3>1. i \in 1..Len(Deps[t])
        BY <1>0, <2>2, DepsAreSlots DEF LastStage
      <3>2. phase[Deps[t][i]] = "set" /\ Deps[t][i] \in Slots
        BY <2>2, <3>1, DepsAreSlots DEF SlotOK, PastOperands
      <3> QED BY <3>2 DEF Grows
    <2> QED BY <2>1, <2>2 DEF SlotOK, PastOperands, Untouched, Stop
  <1>4. CalledWithArguments(t)'
    <2>1. ASSUME NEW d \in DepSet(t), phase[d] = "set"
          PROVE  phase'[d] = "set" /\ value'[d] = value[d]
      BY <2>1, DepsAreSlots DEF Grows
    <2> QED BY <2>1 DEF SlotOK, CalledWithArguments, Untouched, ShortCircuits
  <1> QED BY <1>1, <1>2, <1>3, <1>4 DEF SlotOK

(* A promise in the making is fulfilled, perhaps with the null of a fault. *)
LEMMA FulfilConsistent ==
  ASSUME SlotsConsistent, NEW s \in Slots, NEW v \in Values,
         phase[s] \in {"loading", "calling"}, Fulfil(s, v),
         UNCHANGED <<stage, pos, answer, fetches>>,
         seenNull' \in [Slots -> BOOLEAN],
         \A t \in Slots \ {s} : seenNull'[t] = seenNull[t],
         \/ faulted' = faulted
         \/ /\ faulted' = faulted \union {s}
            /\ v = "null" /\ Kind[s] \in {"sync", "async"} /\ ~ShortCircuits(s)
            /\ \A d \in DepSet(s) : phase[d] = "set",
         late' = late \/ (late' = late \union {s} /\ s \in faulted')
  PROVE  SlotsConsistent' /\ Grows
  <1>0. TypeOK /\ SlotOK(s)
    BY DEF SlotsConsistent
  <1>1. TypeOK'
    BY <1>0 DEF TypeOK, Fulfil, Phases
  <1>2. v # Unset /\ phase'[s] = "set" /\ value'[s] = v
    BY <1>0 DEF Fulfil, TypeOK, Values, Unset
  <1>3. \A t \in Slots \ {s} : Untouched(t)
    BY <1>0 DEF Fulfil, Untouched, TypeOK
  <1>4. Grows
    BY <1>0 DEF Fulfil, Grows, TypeOK
  <1>5. stage[s] \in 1..LastStage(s) /\ s \notin faulted /\ s \notin late
    BY <1>0 DEF SlotOK, PreparedUpTo, CalledWithArguments, CalledOnce, Unset
  <1>6. SlotOK(s)'
    <2>1. CalledOnce(s)'
      BY <1>0, <1>2 DEF SlotOK, CalledOnce
    <2>2. PreparedUpTo(s)'
      <3>1. Group(s)' = Group(s)
        BY <1>0, <1>4, <1>5, GroupStable DEF SlotOK
      <3>2. \A i \in 1..pos[s] : Group(s)[i] \in Slots
        BY <1>0, <1>5, GroupOfDeps DEF SlotOK, PreparedUpTo
      <3> QED BY <1>0, <1>4, <3>1, <3>2 DEF SlotOK, PreparedUpTo, Grows, LastStage
    <2>3. PastOperands(s)'
      <3>1. ASSUME Kind[s] = "if", stage[s] = 2
            PROVE  phase'[Deps[s][1]] = "set"
        <4>1. Len(Deps[s]) = 3
          BY <3>1, Arity
        <4>2. Deps[s][1] \in Slots
          BY <4>1, DepsAreSlots
        <4> QED BY <1>0, <1>4, <3>1, <4>2 DEF SlotOK, PastOperands, Grows
      <3>2. ASSUME Kind[s] \in {"and", "or"}, NEW i \in 1..(stage[s] - 1)
            PROVE  phase'[Deps[s][i]] = "set" /\ value'[Deps[s][i]] = value[Deps[s][i]]
        <4>1. i \in 1..Len(Deps[s])
          BY <1>0, <1>5, <3>2, DepsAreSlots DEF LastStage, TypeOK
        <4>2. phase[Deps[s][i]] = "set" /\ Deps[s][i] \in Slots
          BY <1>0, <3>2, <4>1, DepsAreSlots DEF SlotOK, PastOperands
        <4> QED BY <1>4, <4>2 DEF Grows
      <3> QED BY <1>0, <1>2, <3>1, <3>2 DEF SlotOK, PastOperands, Stop
    <2>4. CalledWithArguments(s)'
      <3>1. ASSUME NEW d \in DepSet(s), phase[d] = "set"
            PROVE  phase'[d] = "set" /\ value'[d] = value[d]
        BY <1>4, <3>1, DepsAreSlots DEF Grows
      <3> QED BY <1>0, <1>2, <1>5, <3>1 DEF SlotOK, CalledWithArguments, ShortCircuits
    <2> QED BY <2>1, <2>2, <2>3, <2>4 DEF SlotOK
  <1>7. ASSUME NEW t \in Slots, t # s
        PROVE  SlotOK(t)'
    <2>1. SlotOK(t) /\ Untouched(t)
      BY <1>3, <1>7 DEF SlotsConsistent
    <2> QED BY <1>0, <1>4, <2>1, Bystander
  <1> QED BY <1>1, <1>4, <1>6, <1>7 DEF SlotsConsistent

(* A slot whose callback has just been called is at its beginning. *)
LEMMA CallConsistent ==
  ASSUME SlotsConsistent, NEW d \in Slots, phase[d] = "unset",
         phase'[d] = "loading", fetches'[d] = fetches[d] + 1, pos'[d] = pos[d],
         UNCHANGED <<value, stage, seenNull, answer, faulted, late>>
  PROVE  SlotOK(d)'
  <1>0. TypeOK /\ SlotOK(d)
    BY DEF SlotsConsistent
  <1>1. /\ phase'[d] = "loading" /\ fetches'[d] = fetches[d] + 1
        /\ stage'[d] = 1 /\ pos'[d] = 0 /\ value'[d] = Unset /\ seenNull'[d] = FALSE
        /\ value[d] = Unset /\ fetches[d] = 0 /\ Kind[d] # "input"
    BY <1>0 DEF TypeOK, SlotOK, CalledOnce
  <1>2. CalledOnce(d)'
    BY <1>1 DEF CalledOnce
  <1>3. PreparedUpTo(d)'
    <2>1. stage[d] \in 1..LastStage(d)
      BY <1>0 DEF SlotOK, PreparedUpTo
    <2>2. Group(d)' = Group(d)
      BY <1>1, <2>1 DEF Group
    <2>3. Len(Group(d)) \in Nat
      BY <1>0, <2>1, GroupOfDeps
    <2> QED BY <1>1, <2>1, <2>2, <2>3 DEF PreparedUpTo, LastStage
  <1>4. PastOperands(d)'
    BY <1>1 DEF PastOperands
  <1>5. CalledWithArguments(d)'
    BY <1>0, <1>1 DEF CalledWithArguments, SlotOK, Unset
  <1> QED BY <1>2, <1>3, <1>4, <1>5 DEF SlotOK

(* The embedding program fetches a slot.                                   *)
LEMMA FetchRootConsistent ==
  ASSUME SlotsConsistent, NEW s \in Slots, FetchRoot(s)
  PROVE  SlotsConsistent' /\ Grows
  <1>0. TypeOK /\ CallSlot(s) /\ phase[s] = "unset"
    BY DEF SlotsConsistent, FetchRoot, Fetch
  <1>1. TypeOK'
    BY <1>0 DEF TypeOK, CallSlot, FetchRoot, Phases
  <1>2. Grows
    BY <1>0 DEF Grows, CallSlot, FetchRoot, TypeOK
  <1>3. SlotOK(s)'
    BY <1>0, CallConsistent DEF FetchRoot, CallSlot, TypeOK
  <1>4. ASSUME NEW t \in Slots, t # s
        PROVE  SlotOK(t)'
    <2>1. SlotOK(t) /\ Untouched(t)
      BY <1>0, <1>4 DEF SlotsConsistent, Untouched, CallSlot, FetchRoot, TypeOK
    <2> QED BY <1>0, <1>2, <2>1, Bystander
  <1> QED BY <1>1, <1>2, <1>3, <1>4 DEF SlotsConsistent

(* prepare_() goes on to the next slot of its group.                       *)
LEMMA PrepareConsistent ==
  ASSUME SlotsConsistent, NEW s \in Slots, Prepare(s)
  PROVE  SlotsConsistent' /\ Grows
  <1>0. TypeOK /\ SlotOK(s) /\ stage[s] \in 1..LastStage(s) /\ pos[s] \in Nat
    BY DEF SlotsConsistent, SlotOK, PreparedUpTo, TypeOK
  <1>1. /\ Len(Group(s)) \in Nat /\ pos[s] + 1 \in 1..Len(Group(s))
        /\ \A i \in 1..Len(Group(s)) : Group(s)[i] \in Slots /\ Group(s)[i] # s
    BY <1>0, GroupOfDeps DEF Prepare
  <1>2. PICK d \in Slots : d = Group(s)[pos[s] + 1] /\ d # s
    BY <1>1
  <1>3. /\ \/ phase[d] = "unset" /\ CallSlot(d)
           \/ phase[d] # "unset" /\ UNCHANGED <<phase, fetches>>
        /\ UNCHANGED <<value, stage, seenNull, answer, faulted, late>>
        /\ pos' = [pos EXCEPT ![s] = @ + 1]
    BY <1>2 DEF Prepare, Fetch
  <1>4. TypeOK'
    BY <1>0, <1>2, <1>3 DEF TypeOK, CallSlot, Phases
  <1>5. Grows
    BY <1>0, <1>3 DEF Grows, CallSlot, TypeOK
  <1>6. phase'[d] # "unset"
    BY <1>0, <1>2, <1>3 DEF CallSlot, TypeOK
  <1>7. ASSUME NEW t \in Slots, t # s, t # d
        PROVE  SlotOK(t)'
    <2>1. SlotOK(t) /\ Untouched(t)
      BY <1>0, <1>3, <1>7 DEF SlotsConsistent, Untouched, CallSlot, TypeOK
    <2> QED BY <1>0, <1>5, <2>1, Bystander
  <1>8. SlotOK(d)'
    <2>1. CASE phase[d] = "unset"
      BY <1>0, <1>2, <1>3, <2>1, CallConsistent DEF CallSlot, TypeOK
    <2>2. CASE phase[d] # "unset"
      <3>1. SlotOK(d) /\ Untouched(d)
        BY <1>0, <1>2, <1>3, <2>2 DEF SlotsConsistent, Untouched, TypeOK
      <3> QED BY <1>0, <1>2, <1>5, <3>1, Bystander
    <2> QED BY <2>1, <2>2
  <1>9. SlotOK(s)'
    <2>1. /\ phase'[s] = "loading" /\ phase[s] = "loading"
          /\ value'[s] = value[s] /\ stage'[s] = stage[s] /\ pos'[s] = pos[s] + 1
          /\ seenNull'[s] = seenNull[s] /\ fetches'[s] = fetches[s]
      BY <1>0, <1>2, <1>3 DEF CallSlot, TypeOK, Prepare
    <2>2. CalledOnce(s)'
      BY <1>0, <2>1 DEF CalledOnce, SlotOK
    <2>3. PreparedUpTo(s)'
      <3>1. Group(s)' = Group(s)
        BY <1>0, <1>5, <2>1, GroupStable DEF SlotOK
      <3>2. ASSUME NEW i \in 1..(pos[s] + 1)
            PROVE  phase'[Group(s)[i]] # "unset"
        <4>1. CASE i = pos[s] + 1
          BY <1>2, <1>6, <4>1
        <4>2. CASE i \in 1..pos[s]
          <5>1. phase[Group(s)[i]] # "unset" /\ Group(s)[i] \in Slots
            BY <1>0, <1>1, <4>2 DEF SlotOK, PreparedUpTo
          <5> QED BY <1>5, <5>1 DEF Grows
        <4> QED BY <1>0, <4>1, <4>2
      <3> QED BY <1>0, <1>1, <2>1, <3>1, <3>2 DEF SlotOK, PreparedUpTo, LastStage
    <2>4. PastOperands(s)'
      <3>1. UNCHANGED value /\ \A t \in Slots : phase[t] = "set" => phase'[t] = "set"
        BY <1>3, <1>5 DEF Grows
      <3>2. ASSUME Kind[s] = "if", stage[s] = 2
            PROVE  phase'[Deps[s][1]] = "set"
        <4>1. Len(Deps[s]) = 3
          BY <3>2, Arity
        <4>2. Deps[s][1] \in Slots
          BY <4>1, DepsAreSlots
        <4> QED BY <1>0, <3>1, <3>2, <4>2 DEF SlotOK, PastOperands
      <3>3. ASSUME Kind[s] \in {"and", "or"}, NEW i \in 1..(stage[s] - 1)
            PROVE  phase'[Deps[s][i]] = "set"
        <4>1. i \in 1..Len(Deps[s])
          BY <1>0, <3>3, DepsAreSlots DEF LastStage, TypeOK
        <4>2. phase[Deps[s][i]] = "set" /\ Deps[s][i] \in Slots
          BY <1>0, <3>3, <4>1, DepsAreSlots DEF SlotOK, PastOperands
        <4> QED BY <3>1, <4>2
      <3> QED BY <1>0, <2>1, <3>1, <3>2, <3>3 DEF SlotOK, PastOperands, Stop
    <2>5. CalledWithArguments(s)'
      BY <1>0, <1>3, <2>1 DEF SlotOK, CalledWithArguments, CalledOnce, Unset
    <2> QED BY <2>2, <2>3, <2>4, <2>5 DEF SlotOK
  <1> QED BY <1>2, <1>4, <1>5, <1>7, <1>8, <1>9 DEF SlotsConsistent

(* The condition of an "if" is known, or an operand that does not decide. *)
GoesOn(s) ==
  \/ Kind[s] = "if" /\ stage[s] = 1 /\ UNCHANGED seenNull
  \/ /\ Kind[s] \in {"and", "or"} /\ stage[s] # Len(Deps[s])
     /\ value[Deps[s][stage[s]]] # Stop(s)
     /\ seenNull' = [seenNull EXCEPT ![s] = @ \/ value[Deps[s][stage[s]]] = "null"]

(* A lazy expression goes on to its next stage. *)
LEMMA AdvanceConsistent ==
  ASSUME SlotsConsistent, NEW s \in Slots, Loaded(s), Advance(s), GoesOn(s),
         UNCHANGED <<phase, value, answer, faulted, late, fetches>>
  PROVE  SlotsConsistent' /\ Grows
  <1>A. TypeOK /\ SlotOK(s) /\ phase[s] = "loading"
    BY DEF SlotsConsistent, Loaded
  <1>B. stage[s] \in 1..LastStage(s)
    BY <1>A DEF SlotOK, PreparedUpTo
  <1>C. stage[s] \in Nat \ {0}
    BY <1>A DEF TypeOK
  <1>D. Len(Deps[s]) \in Nat
    BY DepsAreSlots
  <1>1. TypeOK'
    <2>1. seenNull' \in [Slots -> BOOLEAN]
      BY <1>A DEF TypeOK, GoesOn
    <2> QED BY <1>A, <2>1 DEF TypeOK, Advance
  <1>2. Grows
    BY DEF Grows
  <1>3. ASSUME NEW t \in Slots, t # s
        PROVE  SlotOK(t)'
    <2>1. SlotOK(t) /\ Untouched(t)
      BY <1>A, <1>3 DEF SlotsConsistent, Untouched, Advance, TypeOK, GoesOn
    <2> QED BY <1>A, <1>2, <2>1, Bystander
  <1>4. stage'[s] = stage[s] + 1 /\ pos'[s] = 0
    BY <1>A DEF Advance, TypeOK
  <1>5. CalledOnce(s)'
    BY <1>A DEF CalledOnce, SlotOK
  <1>6. stage'[s] \in 1..LastStage(s)
    BY <1>B, <1>C, <1>D, <1>4 DEF LastStage, GoesOn
  <1>7. PreparedUpTo(s)'
    <2>1. Len(Group(s))' \in Nat
      <3>1. CASE Kind[s] \in {"and", "or"}
        BY <3>1 DEF Group
      <3>2. CASE Kind[s] = "if"
        BY <1>C, <1>4, <3>2 DEF Group
      <3> QED BY <3>1, <3>2 DEF GoesOn
    <2> QED BY <1>4, <1>6, <2>1 DEF PreparedUpTo, LastStage
  <1>8. PastOperands(s)'
    <2>1. CASE Kind[s] = "if"
      <3>1. Len(Group(s)) = 1 /\ Group(s)[1] = Deps[s][1]
        BY <2>1 DEF Group, GoesOn
      <3>2. phase[Deps[s][1]] = "set"
        BY <3>1 DEF Loaded
      <3> QED BY <2>1, <3>2 DEF PastOperands
    <2>2. CASE Kind[s] \in {"and", "or"}
      <3>1. Len(Group(s)) = 1 /\ Group(s)[1] = Deps[s][stage[s]]
        BY <2>2 DEF Group
      <3>2. phase[Deps[s][stage[s]]] = "set"
        BY <3>1 DEF Loaded
      <3>3. seenNull'[s] = (seenNull[s] \/ value[Deps[s][stage[s]]] = "null")
        BY <1>A, <2>2 DEF TypeOK, GoesOn
      <3>4. \A i \in 1..(stage'[s] - 1) : i \in 1..(stage[s] - 1) \/ i = stage[s]
        BY <1>C, <1>4
      <3>5. stage[s] \in 1..(stage'[s] - 1) /\ \A i \in 1..(stage[s] - 1) : i \in 1..(stage'[s] - 1)
        BY <1>C, <1>4
      <3>6. \A i \in 1..(stage'[s] - 1) : phase[Deps[s][i]] = "set" /\ value[Deps[s][i]] # Stop(s)
        BY <1>A, <2>2, <3>2, <3>4 DEF SlotOK, PastOperands, GoesOn
      <3>7. seenNull'[s] <=> \E i \in 1..(stage'[s] - 1) : value[Deps[s][i]] = "null"
        BY <1>A, <2>2, <3>3, <3>4, <3>5 DEF SlotOK, PastOperands
      <3> QED BY <2>2, <3>6, <3>7 DEF PastOperands, Stop
    <2> QED BY <2>1, <2>2 DEF GoesOn
  <1>9. CalledWithArguments(s)'
    BY <1>A DEF SlotOK, CalledWithArguments, ShortCircuits
  <1> QED BY <1>1, <1>2, <1>3, <1>5, <1>7, <1>8, <1>9 DEF SlotsConsistent, SlotOK

(* The function of a slot is called with all of its arguments.             *)
LEMMA InvokeConsistent ==
  ASSUME SlotsConsistent, NEW s \in Slots, Invoke(s)
  PROVE  SlotsConsistent' /\ Grows
  <1>0. /\ TypeOK /\ SlotOK(s) /\ phase[s] = "loading" /\ Kind[s] = "async" /\ ~ShortCircuits(s)
        /\ Group(s) = Deps[s]
    BY DEF SlotsConsistent, Invoke, Loaded, Group
  <1>1. phase'[s] = "calling" /\ UNCHANGED <<value, stage, pos, seenNull, answer, faulted, late, fetches>>
    BY <1>0 DEF Invoke, TypeOK
  <1>2. TypeOK'
    BY <1>0 DEF TypeOK, Invoke, Phases
  <1>3. Grows
    BY <1>0 DEF Grows, Invoke, TypeOK
  <1>4. ASSUME NEW t \in Slots, t # s
        PROVE  SlotOK(t)'
    <2>1. SlotOK(t) /\ Untouched(t)
      BY <1>0, <1>4 DEF SlotsConsistent, Untouched, Invoke, TypeOK
    <2> QED BY <1>0, <1>3, <2>1, Bystander
  <1>5. \A d \in DepSet(s) : phase[d] = "set" /\ phase'[d] = "set"
    <2>1. \A d \in DepSet(s) : phase[d] = "set"
      BY <1>0 DEF Invoke, Loaded, DepSet
    <2> QED BY <1>3, <2>1, DepsAreSlots DEF Grows
  <1>6. CalledOnce(s)'
    BY <1>0, <1>1 DEF SlotOK, CalledOnce
  <1>7. PreparedUpTo(s)'
    <2>1. stage[s] \in 1..LastStage(s)
      BY <1>0 DEF SlotOK, PreparedUpTo
    <2>2. Group(s)' = Group(s)
      BY <1>0, <1>1, <1>3, <2>1, GroupStable DEF SlotOK
    <2>3. \A i \in 1..pos[s] : Group(s)[i] \in Slots
      BY <1>0, <2>1, GroupOfDeps DEF SlotOK, PreparedUpTo
    <2> QED BY <1>0, <1>1, <1>3, <2>2, <2>3 DEF SlotOK, PreparedUpTo, Grows, LastStage
  <1>8. PastOperands(s)'
    BY <1>0 DEF PastOperands
  <1>9. CalledWithArguments(s)'
    BY <1>0, <1>1, <1>5 DEF SlotOK, CalledWithArguments, ShortCircuits
  <1> QED BY <1>2, <1>3, <1>4, <1>6, <1>7, <1>8, <1>9 DEF SlotsConsistent, SlotOK

(* An answer after the time-out changes nothing.                           *)
LEMMA LateAnswerConsistent ==
  ASSUME SlotsConsistent, NEW s \in Slots, LateAnswer(s)
  PROVE  SlotsConsistent' /\ Grows
  <1>1. TypeOK /\ TypeOK' /\ Grows
    BY DEF SlotsConsistent, TypeOK, LateAnswer, Grows
  <1>2. ASSUME NEW t \in Slots
        PROVE  SlotOK(t)'
    <2>1. SlotOK(t) /\ Untouched(t)
      BY DEF SlotsConsistent, Untouched, LateAnswer
    <2> QED BY <1>1, <2>1, Bystander
  <1> QED BY <1>1, <1>2 DEF SlotsConsistent

-----------------------------------------------------------------------------
(* Once a group is loaded, every slot of it has a value. *)
LEMMA LoadedValues ==
  ASSUME SlotsConsistent, NEW s \in Slots, Loaded(s)
  PROVE  /\ phase[s] = "loading" /\ stage[s] \in 1..LastStage(s)
         /\ \A i \in 1..Len(Group(s)) :
              /\ Group(s)[i] \in DepSet(s) /\ Group(s)[i] \in Slots
              /\ phase[Group(s)[i]] = "set" /\ value[Group(s)[i]] \in Values
  <1>1. TypeOK /\ SlotOK(s)
    BY DEF SlotsConsistent
  <1>2. stage[s] \in 1..LastStage(s)
    BY <1>1 DEF SlotOK, PreparedUpTo
  <1>3. ASSUME NEW i \in 1..Len(Group(s))
        PROVE  /\ Group(s)[i] \in DepSet(s) /\ Group(s)[i] \in Slots
               /\ phase[Group(s)[i]] = "set" /\ value[Group(s)[i]] \in Values
    <2>1. PICK d \in Slots : d = Group(s)[i] /\ d \in DepSet(s)
      BY <1>1, <1>2, GroupOfDeps
    <2>2. phase[d] = "set"
      BY <2>1 DEF Loaded
    <2>3. value[d] # Unset /\ value[d] \in Values \union {Unset}
      BY <1>1, <2>2 DEF SlotsConsistent, SlotOK, CalledOnce, TypeOK
    <2> QED BY <2>1, <2>2, <2>3
  <1> QED BY <1>2, <1>3 DEF Loaded

(* A chain looks at its operand, and ends or goes on to the next.          *)
LEMMA EvalOperandConsistent ==
  ASSUME SlotsConsistent, NEW s \in Slots, NEW kind, NEW stop,
         \/ kind = "and" /\ stop = "false"
         \/ kind = "or" /\ stop = "true",
         EvalOperand(s, kind, stop)
  PROVE  SlotsConsistent' /\ Grows
  <1> DEFINE v == value[Deps[s][stage[s]]]
             hadNull == seenNull[s] \/ v = "null"
  <1>1. Kind[s] = kind /\ Loaded(s) /\ stop = Stop(s) /\ stop \in Values /\ Kind[s] \in {"and", "or"}
    BY DEF EvalOperand, Stop, Values
  <1>2. phase[s] = "loading" /\ TypeOK
    BY <1>1 DEF Loaded, SlotsConsistent
  <1>3. UNCHANGED <<answer, faulted, late, fetches>>
    BY DEF EvalOperand
  <1>4. CASE v = stop
    <2>1. Fulfil(s, stop) /\ UNCHANGED <<stage, pos, seenNull>>
      BY <1>4 DEF EvalOperand
    <2> QED BY <1>1, <1>2, <1>3, <2>1, FulfilConsistent DEF TypeOK
  <1>5. CASE v # stop
    <2>1. seenNull' = [seenNull EXCEPT ![s] = hadNull]
      BY <1>5 DEF EvalOperand
    <2>2. CASE stage[s] = Len(Deps[s])
      <3>1. PICK w \in Values : Fulfil(s, w) /\ UNCHANGED <<stage, pos>>
        BY <1>1, <1>5, <2>2 DEF EvalOperand, KleeneNot, Values
      <3>2. /\ seenNull' \in [Slots -> BOOLEAN]
            /\ \A t \in Slots \ {s} : seenNull'[t] = seenNull[t]
        BY <1>2, <2>1 DEF TypeOK
      <3> QED BY <1>2, <1>3, <3>1, <3>2, FulfilConsistent
    <2>3. CASE stage[s] # Len(Deps[s])
      <3>1. Advance(s) /\ UNCHANGED <<phase, value>>
        BY <1>5, <2>3 DEF EvalOperand
      <3>2. GoesOn(s)
        BY <1>1, <1>5, <2>1, <2>3 DEF GoesOn
      <3> QED BY <1>1, <1>3, <3>1, <3>2, AdvanceConsistent
    <2> QED BY <2>2, <2>3
  <1> QED BY <1>4, <1>5

(* Every step keeps the slots consistent, and only makes and fulfils       *)
(* promises.                                                               *)
LEMMA StepConsistent ==
  ASSUME SlotsConsistent, Next
  PROVE  SlotsConsistent' /\ Grows
  <1>1. PICK s \in Slots : FetchRoot(s) \/ Compute(s) \/ Invoke(s) \/ Settle(s)
    BY DEF Next, SlotStep
  <1>2. TypeOK /\ SlotOK(s)
    BY DEF SlotsConsistent
  <1>3. CASE FetchRoot(s)
    BY <1>3, FetchRootConsistent
  <1>4. CASE Prepare(s)
    BY <1>4, PrepareConsistent
  <1>5. CASE EvalWait(s)
    BY <1>2, <1>5, LoadedValues, FulfilConsistent DEF EvalWait, TypeOK, Values
  <1>6. CASE EvalNot(s)
    <2>1. KleeneNot(value[Deps[s][1]]) \in Values /\ phase[s] = "loading"
      BY <1>6 DEF EvalNot, KleeneNot, Values, Loaded
    <2> QED BY <1>2, <1>6, <2>1, FulfilConsistent DEF EvalNot, TypeOK
  <1>7. CASE EvalCondition(s)
    BY <1>7, AdvanceConsistent DEF EvalCondition, GoesOn
  <1>8. CASE EvalBranch(s)
    <2>1. Loaded(s) /\ Group(s) = <<Branch(s, value[Deps[s][1]])>>
      BY <1>8 DEF EvalBranch, Group
    <2>2. value[Branch(s, value[Deps[s][1]])] \in Values /\ phase[s] = "loading"
      BY <2>1, LoadedValues
    <2> QED BY <1>2, <1>8, <2>2, FulfilConsistent DEF EvalBranch, TypeOK
  <1>9. CASE EvalAnd(s) \/ EvalOr(s)
    BY <1>9, EvalOperandConsistent DEF EvalAnd, EvalOr
  <1>10. CASE CallSync(s)
    <2>1. /\ phase[s] = "loading" /\ answer[s] \in Values /\ "null" \in Values
          /\ \A d \in DepSet(s) : phase[d] = "set"
      BY <1>2, <1>10 DEF CallSync, Loaded, Group, DepSet, TypeOK, Values
    <2>2. CASE faulted' = faulted
      BY <1>2, <1>10, <2>1, <2>2, FulfilConsistent DEF CallSync, TypeOK
    <2>3. CASE faulted' # faulted
      BY <1>2, <1>10, <2>1, <2>3, FulfilConsistent DEF CallSync, TypeOK
    <2> QED BY <2>2, <2>3
  <1>11. CASE SkipCall(s)
    BY <1>2, <1>11, LoadedValues, FulfilConsistent DEF SkipCall, TypeOK, Values
  <1>12. CASE Invoke(s)
    BY <1>12, InvokeConsistent
  <1>13. CASE Answer(s) \/ Throw(s) \/ Timeout(s)
    <2>1. /\ phase[s] = "calling" /\ answer[s] \in Values /\ "null" \in Values
          /\ Kind[s] = "async" /\ ~ShortCircuits(s) /\ \A d \in DepSet(s) : phase[d] = "set"
      BY <1>2, <1>13 DEF Answer, Throw, Timeout, SlotOK, CalledWithArguments, TypeOK, Values
    <2>2. CASE Answer(s)
      BY <1>2, <2>1, <2>2, FulfilConsistent DEF Answer, TypeOK
    <2>3. CASE Throw(s)
      BY <1>2, <2>1, <2>3, FulfilConsistent DEF Throw, TypeOK
    <2>4. CASE Timeout(s)
      BY <1>2, <2>1, <2>4, FulfilConsistent DEF Timeout, TypeOK
    <2> QED BY <1>13, <2>2, <2>3, <2>4
  <1>14. CASE LateAnswer(s)
    BY <1>14, LateAnswerConsistent
  <1> QED BY <1>1, <1>3, <1>4, <1>5, <1>6, <1>7, <1>8, <1>9, <1>10, <1>11, <1>12, <1>13, <1>14
       DEF Compute, Settle

(* A new execution is consistent: the inputs have their values. *)
LEMMA InitConsistent ==
  ASSUME Init
  PROVE  SlotsConsistent
  <1>1. TypeOK
    BY DEF Init, TypeOK, Phases
  <1>2. ASSUME NEW s \in Slots
        PROVE  SlotOK(s)
    <2>1. /\ stage[s] = 1 /\ pos[s] = 0 /\ seenNull[s] = FALSE /\ fetches[s] = 0
          /\ faulted = {} /\ late = {} /\ answer[s] \in Values
          /\ Kind[s] = "input" => phase[s] = "set" /\ value[s] = answer[s]
          /\ Kind[s] # "input" => phase[s] = "unset" /\ value[s] = Unset
      BY DEF Init, InputSlots
    <2>2. CalledOnce(s)
      BY <2>1 DEF CalledOnce, Values, Unset
    <2>3. PreparedUpTo(s)
      <3>1. LastStage(s) \in Nat /\ LastStage(s) >= 1
        BY Arity, DepsAreSlots DEF LastStage
      <3>2. Len(Group(s)) \in Nat
        BY <1>1, <2>1, <3>1, GroupOfDeps
      <3> QED BY <2>1, <3>1, <3>2 DEF PreparedUpTo
    <2>4. PastOperands(s) /\ CalledWithArguments(s)
      BY <2>1 DEF PastOperands, CalledWithArguments
    <2> QED BY <2>2, <2>3, <2>4 DEF SlotOK
  <1> QED BY <1>1, <1>2 DEF SlotsConsistent

(* Nothing happens.                                                        *)
LEMMA StutterConsistent ==
  ASSUME SlotsConsistent, UNCHANGED execVars
  PROVE  SlotsConsistent' /\ Grows
  <1>1. TypeOK /\ TypeOK' /\ Grows
    BY DEF SlotsConsistent, TypeOK, execVars, Grows
  <1>2. ASSUME NEW t \in Slots
        PROVE  SlotOK(t)'
    <2>1. SlotOK(t) /\ Untouched(t)
      BY DEF SlotsConsistent, Untouched, execVars
    <2> QED BY <1>1, <2>1, Bystander
  <1> QED BY <1>1, <1>2 DEF SlotsConsistent

(* SqrlExecutionState keeps its slots consistent however the callbacks of  *)
(* the slots interleave: a promise is made once, holds a value exactly     *)
(* when it is fulfilled, is only read after it was, and a stage is reached *)
(* only past operands that allow it.                                       *)
THEOREM Consistency == Spec => []SlotsConsistent
  <1>1. Init => SlotsConsistent
    BY InitConsistent
  <1>2. SlotsConsistent /\ [Next]_execVars => SlotsConsistent'
    BY StepConsistent, StutterConsistent
  <1> QED BY <1>1, <1>2, PTL DEF Spec

(* The variables keep their types. *)
THEOREM TypeCorrect == Spec => []TypeOK
  <1>1. SlotsConsistent => TypeOK
    BY DEF SlotsConsistent
  <1> QED BY <1>1, Consistency, PTL

(* fetch() and prepare_() never call the callback of a slot twice.         *)
THEOREM Memoised == Spec => []FetchedOnce
  <1>1. SlotsConsistent => FetchedOnce
    <2> SUFFICES ASSUME SlotsConsistent, NEW s \in Slots
                 PROVE  fetches[s] <= 1
      BY DEF FetchedOnce
    <2>1. fetches[s] = 0 \/ fetches[s] = 1
      BY DEF SlotsConsistent, SlotOK, CalledOnce
    <2> QED BY <2>1
  <1> QED BY <1>1, Consistency, PTL

(* Neither a late answer nor a second consumer changes a value.            *)
THEOREM ValuesStand == Spec => FirstAnswerStands
  <1>1. SlotsConsistent /\ [Next]_execVars =>
          [\A s \in Slots : phase[s] = "set" => phase'[s] = "set" /\ value'[s] = value[s]]_execVars
    BY StepConsistent DEF Grows
  <1> QED BY <1>1, Consistency, PTL DEF Spec, FirstAnswerStands

-----------------------------------------------------------------------------
(* The execution implements LazyDataflow. A step that calls a callback     *)
(* demands a slot that is needed, a step that fulfils a promise determines *)
(* a value that is justified, and every other step leaves both alone.      *)

(* A slot that is called is demanded.                                      *)
LEMMA FetchDemands ==
  ASSUME SlotsConsistent, NEW d \in Slots, phase[d] = "unset", CallSlot(d),
         UNCHANGED <<value, answer>>,
         d \in Roots \/ \E p \in Slots : phase[p] # "unset" /\ Dataflow!Needs(p, d)
  PROVE  Dataflow!Next
  <1>1. {s \in Slots : phase'[s] # "unset"} = {s \in Slots : phase[s] # "unset"} \union {d}
    BY DEF CallSlot, SlotsConsistent, TypeOK
  <1> QED BY <1>1 DEF Dataflow!Next, Dataflow!Demand

(* A slot that is fulfilled is determined.                                 *)
LEMMA FulfilDetermines ==
  ASSUME SlotsConsistent, NEW s \in Slots, NEW v \in Values,
         phase[s] \in {"loading", "calling"}, Fulfil(s, v), UNCHANGED answer,
         Dataflow!Justified(s, v)
  PROVE  Dataflow!Next
  <1>1. {t \in Slots : phase'[t] # "unset"} = {t \in Slots : phase[t] # "unset"}
    BY DEF Fulfil, SlotsConsistent, TypeOK
  <1>2. value[s] = Unset
    BY DEF SlotsConsistent, SlotOK, CalledOnce
  <1>3. value' = [value EXCEPT ![s] = v]
    BY DEF Fulfil
  <1> QED BY <1>1, <1>2, <1>3 DEF Dataflow!Next, Dataflow!Determine, Dataflow!Known, Unset, Dataflow!Unset, Values, Dataflow!Values

(* A slot only prepares slots it needs now. *)
LEMMA PrepareNeeds ==
  ASSUME SlotsConsistent, NEW s \in Slots, Prepare(s), NEW d, d = Group(s)[pos[s] + 1]
  PROVE  Dataflow!Needs(s, d)
  <1>1. TypeOK /\ SlotOK(s) /\ phase[s] = "loading"
    BY DEF SlotsConsistent, Prepare
  <1>2. stage[s] \in 1..LastStage(s) /\ pos[s] \in Nat /\ stage[s] \in Nat \ {0}
    BY <1>1 DEF SlotOK, PreparedUpTo, TypeOK
  <1>3. ~Dataflow!Known(s)
    BY <1>1 DEF SlotOK, CalledOnce, Dataflow!Known, Unset, Dataflow!Unset
  <1>4. pos[s] < Len(Group(s))
    BY DEF Prepare
  <1>5. CASE Kind[s] \in {"and", "or"}
    <2>1. Group(s) = <<Deps[s][stage[s]]>>
      BY <1>5 DEF Group
    <2>2. d = Deps[s][stage[s]] /\ stage[s] \in 1..Len(Deps[s])
      BY <1>2, <1>4, <1>5, <2>1 DEF LastStage
    <2>3. ASSUME NEW j \in 1..(stage[s] - 1)
          PROVE  value[Deps[s][j]] \in
                   (IF Kind[s] = "and" THEN {"true", "null"} ELSE {"false", "null"})
      <3>1. phase[Deps[s][j]] = "set" /\ value[Deps[s][j]] # Stop(s)
        BY <1>1, <1>5 DEF SlotOK, PastOperands
      <3>2. Deps[s][j] \in Slots
        BY <1>2, <2>2, DepsAreSlots
      <3>3. value[Deps[s][j]] \in Values
        BY <1>1, <3>1, <3>2 DEF SlotsConsistent, SlotOK, CalledOnce, TypeOK
      <3> QED BY <1>5, <3>1, <3>3 DEF Stop, Values
    <2>4. \E i \in 1..Len(Deps[s]) :
            /\ d = Deps[s][i]
            /\ \A j \in 1..(i - 1) :
                 value[Deps[s][j]] \in
                   (IF Kind[s] = "and" THEN {"true", "null"} ELSE {"false", "null"})
      BY <2>2, <2>3
    <2> QED BY <1>3, <1>5, <2>4 DEF Dataflow!Needs
  <1>6. CASE Kind[s] = "if"
    <2>0. Len(Deps[s]) = 3
      BY <1>6, Arity
    <2>1. CASE stage[s] = 1
      <3>1. Group(s) = <<Deps[s][1]>>
        BY <1>6, <2>1 DEF Group
      <3>2. d = Deps[s][1]
        BY <1>2, <1>4, <3>1
      <3> QED BY <1>3, <1>6, <3>2 DEF Dataflow!Needs
    <2>2. CASE stage[s] # 1
      <3>1. Group(s) = <<Branch(s, value[Deps[s][1]])>>
        BY <1>6, <2>2 DEF Group
      <3>2. d = Dataflow!Branch(s, value[Deps[s][1]])
        BY <1>2, <1>4, <3>1 DEF Branch, Dataflow!Branch
      <3>3. stage[s] = 2
        BY <1>2, <1>6, <2>2 DEF LastStage
      <3>4. phase[Deps[s][1]] = "set" /\ Deps[s][1] \in Slots
        BY <1>1, <1>6, <2>0, <3>3, DepsAreSlots DEF SlotOK, PastOperands
      <3>5. Dataflow!Known(Deps[s][1])
        BY <3>4 DEF SlotsConsistent, SlotOK, CalledOnce, Dataflow!Known, Unset, Dataflow!Unset
      <3> QED BY <1>3, <1>6, <3>2, <3>5 DEF Dataflow!Needs
    <2> QED BY <2>1, <2>2
  <1>7. CASE Kind[s] \notin {"and", "or", "if"}
    <2>1. Group(s) = Deps[s] /\ pos[s] + 1 \in 1..Len(Deps[s])
      <3>1. Group(s) = Deps[s]
        BY <1>7 DEF Group
      <3>2. Len(Deps[s]) \in Nat
        BY DepsAreSlots
      <3> QED BY <1>2, <1>4, <3>1, <3>2
    <2>2. d \in Dataflow!DepSet(s)
      BY <2>1 DEF Dataflow!DepSet
    <2> QED BY <1>3, <1>7, <2>2 DEF Dataflow!Needs
  <1> QED BY <1>5, <1>6, <1>7

(* Both machines read the same dependencies.                               *)
LEMMA SameDeps ==
  ASSUME NEW s
  PROVE  Dataflow!DepSet(s) = DepSet(s)
  BY DEF Dataflow!DepSet, DepSet

(* A value in hand is known to the abstract specification. *)
LEMMA SetIsKnown ==
  ASSUME SlotsConsistent, NEW d \in Slots, phase[d] = "set"
  PROVE  Dataflow!Known(d) /\ value[d] \in Values /\ value[d] # Dataflow!Unset
  BY DEF SlotsConsistent, TypeOK, SlotOK, CalledOnce, Dataflow!Known, Unset, Dataflow!Unset, Values

(* What is set is known to the abstract machine.                           *)
LEMMA AllDepsKnown ==
  ASSUME SlotsConsistent, NEW s \in Slots, \A d \in DepSet(s) : phase[d] = "set"
  PROVE  Dataflow!Unset \notin Dataflow!KnownValues(s)
  <1>1. \A d \in DepSet(s) : value[d] # Dataflow!Unset
    BY DepsAreSlots, SetIsKnown
  <1> QED BY <1>1, SameDeps DEF Dataflow!KnownValues

(* What the safety net leaves of a function call is justified. *)
LEMMA CallJustified ==
  ASSUME SlotsConsistent, NEW s \in Slots, NEW v \in {answer[s], "null"},
         Kind[s] \in {"sync", "async"}, \A d \in DepSet(s) : phase[d] = "set",
         ShortCircuits(s) => v = "null"
  PROVE  Dataflow!Justified(s, v)
  <1>1. Dataflow!Unset \notin Dataflow!KnownValues(s)
    BY AllDepsKnown
  <1>2. ("null" \in Dataflow!KnownValues(s) /\ s \notin NullOk) <=> ShortCircuits(s)
    BY SameDeps DEF Dataflow!KnownValues, ShortCircuits
  <1> QED BY <1>1, <1>2 DEF Dataflow!Justified

(* What the loop over the operands returns is justified, by an operand     *)
(* that decides or by all of them.                                         *)
LEMMA OperandJustified ==
  ASSUME SlotsConsistent, NEW s \in Slots, Kind[s] \in {"and", "or"}, Loaded(s)
  PROVE  LET v == value[Deps[s][stage[s]]]
         IN /\ v = Stop(s) => Dataflow!Justified(s, v)
            /\ v # Stop(s) /\ stage[s] = Len(Deps[s]) =>
                 Dataflow!Justified(s, IF seenNull[s] \/ v = "null"
                                         THEN "null" ELSE KleeneNot(Stop(s)))
  <1> DEFINE v == value[Deps[s][stage[s]]]
  <1>1. TypeOK /\ SlotOK(s) /\ phase[s] = "loading"
    BY DEF SlotsConsistent, Loaded
  <1>2. stage[s] \in 1..Len(Deps[s])
    BY <1>1 DEF SlotOK, PreparedUpTo, LastStage
  <1>3. phase[Deps[s][stage[s]]] = "set"
    <2>1. Group(s) = <<Deps[s][stage[s]]>>
      BY DEF Group
    <2> QED BY <2>1 DEF Loaded
  <1>4. \A i \in 1..Len(Deps[s]) : value[Deps[s][i]] \in Dataflow!KnownValues(s)
    BY DEF Dataflow!KnownValues, Dataflow!DepSet
  <1>5. ASSUME v = Stop(s)
        PROVE  Dataflow!Justified(s, v)
    BY <1>2, <1>4, <1>5 DEF Dataflow!Justified, Stop
  <1>6. ASSUME v # Stop(s), stage[s] = Len(Deps[s])
        PROVE  Dataflow!Justified(s, IF seenNull[s] \/ v = "null"
                                       THEN "null" ELSE KleeneNot(Stop(s)))
    <2>1. ASSUME NEW i \in 1..Len(Deps[s])
          PROVE  /\ phase[Deps[s][i]] = "set" /\ value[Deps[s][i]] # Stop(s)
                 /\ i \in 1..(stage[s] - 1) \/ i = stage[s]
      <3>1. i \in 1..(stage[s] - 1) \/ i = stage[s]
        BY <1>2, <1>6
      <3> QED BY <1>1, <1>3, <1>6, <3>1 DEF SlotOK, PastOperands
    <2>2. \A d \in DepSet(s) : phase[d] = "set" /\ value[d] # Stop(s)
      BY <2>1 DEF DepSet
    <2>3. Dataflow!Unset \notin Dataflow!KnownValues(s)
      BY <2>2, AllDepsKnown
    <2>4. Stop(s) \notin Dataflow!KnownValues(s)
      BY <2>2, SameDeps DEF Dataflow!KnownValues
    <2>5. (seenNull[s] \/ v = "null") <=> "null" \in Dataflow!KnownValues(s)
      <3>1. "null" \in Dataflow!KnownValues(s) <=>
              \E i \in 1..Len(Deps[s]) : value[Deps[s][i]] = "null"
        BY DEF Dataflow!KnownValues, Dataflow!DepSet
      <3>2. seenNull[s] <=> \E i \in 1..(stage[s] - 1) : value[Deps[s][i]] = "null"
        BY <1>1 DEF SlotOK, PastOperands
      <3>3. \A i \in 1..(stage[s] - 1) : i \in 1..Len(Deps[s])
        BY <1>2, <1>6
      <3> QED BY <1>2, <2>1, <3>1, <3>2, <3>3
    <2>6. CASE Kind[s] = "and"
      BY <2>3, <2>4, <2>5, <2>6 DEF Dataflow!Justified, Stop, KleeneNot, Dataflow!KleeneAnd
    <2>7. CASE Kind[s] = "or"
      BY <2>3, <2>4, <2>5, <2>7 DEF Dataflow!Justified, Stop, KleeneNot, Dataflow!KleeneOr
    <2> QED BY <2>6, <2>7
  <1> QED BY <1>5, <1>6

(* A promise is fulfilled with a justified value, which for a function is  *)
(* its answer unless it short-circuits or fails.                           *)
Settles(s, v) ==
  /\ phase[s] \in {"loading", "calling"} /\ Fulfil(s, v) /\ UNCHANGED answer
  /\ Dataflow!Justified(s, v)
  /\ \/ /\ faulted' = faulted
        /\ Kind[s] \in {"sync", "async"} =>
             v = IF ShortCircuits(s) THEN "null" ELSE answer[s]
     \/ /\ faulted' = faulted \union {s} /\ Kind[s] \in {"sync", "async"} /\ v = "null"

(* No promise is fulfilled. *)
Keeps ==
  /\ UNCHANGED <<value, answer, faulted>>
  /\ \A t \in Slots : phase'[t] = "set" <=> phase[t] = "set"

(* These steps settle their slot;                                          *)
LEMMA EvalSettles ==
  ASSUME SlotsConsistent, NEW s \in Slots,
         \/ EvalWait(s) \/ EvalNot(s) \/ EvalBranch(s) \/ CallSync(s) \/ SkipCall(s)
         \/ Answer(s) \/ Throw(s) \/ Timeout(s)
  PROVE  \E v \in Values : Settles(s, v)
  <1>1. TypeOK /\ SlotOK(s)
    BY DEF SlotsConsistent
  <1>2. CASE EvalWait(s)
    <2>1. \A d \in DepSet(s) : phase[d] = "set"
      BY <1>2 DEF EvalWait, Loaded, Group, DepSet
    <2>2. Dataflow!Justified(s, "true")
      BY <1>2, <2>1, AllDepsKnown DEF EvalWait, Dataflow!Justified
    <2> QED BY <1>2, <2>2 DEF EvalWait, Loaded, Values, Settles
  <1>3. CASE EvalNot(s)
    <2>1. Len(Deps[s]) = 1 /\ Deps[s][1] \in Slots
      BY <1>3, Arity, DepsAreSlots DEF EvalNot
    <2>2. phase[Deps[s][1]] = "set"
      BY <1>3, <2>1 DEF EvalNot, Loaded, Group
    <2>3. Dataflow!Justified(s, KleeneNot(value[Deps[s][1]]))
      BY <1>3, <2>1, <2>2, SetIsKnown DEF EvalNot, Dataflow!Justified, KleeneNot, Dataflow!KleeneNot
    <2>4. KleeneNot(value[Deps[s][1]]) \in Values
      BY DEF KleeneNot, Values
    <2> QED BY <1>3, <2>3, <2>4 DEF EvalNot, Loaded, Settles
  <1>4. CASE EvalBranch(s)
    <2>1. Group(s) = <<Branch(s, value[Deps[s][1]])>> /\ Loaded(s)
      BY <1>4 DEF EvalBranch, Group
    <2>2. value[Branch(s, value[Deps[s][1]])] \in Values
      BY <2>1, LoadedValues
    <2>3. Len(Deps[s]) = 3 /\ Kind[s] = "if" /\ stage[s] = 2
      BY <1>4, Arity DEF EvalBranch
    <2>4. Deps[s][1] \in Slots /\ phase[Deps[s][1]] = "set"
      BY <1>1, <2>3, DepsAreSlots DEF SlotOK, PastOperands
    <2>5. Dataflow!Justified(s, value[Branch(s, value[Deps[s][1]])])
      BY <2>3, <2>4, SetIsKnown DEF Dataflow!Justified, Branch, Dataflow!Branch
    <2> QED BY <1>4, <2>2, <2>5 DEF EvalBranch, Loaded, Settles
  <1>5. CASE CallSync(s) \/ SkipCall(s)
    <2>1. /\ \A d \in DepSet(s) : phase[d] = "set"
          /\ phase[s] = "loading" /\ Kind[s] \in {"sync", "async"} /\ UNCHANGED answer
      BY <1>5 DEF CallSync, SkipCall, Loaded, Group, DepSet
    <2>2. PICK v \in {answer[s], "null"} :
            /\ Fulfil(s, v) /\ (ShortCircuits(s) => v = "null")
            /\ \/ faulted' = faulted /\ v = IF ShortCircuits(s) THEN "null" ELSE answer[s]
               \/ faulted' = faulted \union {s} /\ v = "null"
      BY <1>5 DEF CallSync, SkipCall
    <2>3. v \in Values
      BY <1>1 DEF TypeOK, Values
    <2>4. Dataflow!Justified(s, v)
      BY <2>1, <2>2, CallJustified
    <2> QED BY <2>1, <2>2, <2>3, <2>4 DEF Settles
  <1>6. CASE Answer(s) \/ Throw(s) \/ Timeout(s)
    <2>1. /\ phase[s] = "calling" /\ Kind[s] = "async" /\ ~ShortCircuits(s) /\ UNCHANGED answer
          /\ \A d \in DepSet(s) : phase[d] = "set"
      BY <1>1, <1>6 DEF Answer, Throw, Timeout, SlotOK, CalledWithArguments
    <2>2. PICK v \in {answer[s], "null"} :
            /\ Fulfil(s, v)
            /\ \/ faulted' = faulted /\ v = answer[s]
               \/ faulted' = faulted \union {s} /\ v = "null"
      BY <1>6 DEF Answer, Throw, Timeout
    <2>3. v \in Values
      BY <1>1 DEF TypeOK, Values
    <2>4. Dataflow!Justified(s, v)
      BY <2>1, <2>2, CallJustified
    <2> QED BY <2>1, <2>2, <2>3, <2>4 DEF Settles
  <1> QED BY <1>2, <1>3, <1>4, <1>5, <1>6

(* the step of a chain settles it, or all values stay.                     *)
LEMMA EvalOperandSettles ==
  ASSUME SlotsConsistent, NEW s \in Slots, NEW kind, NEW stop,
         \/ kind = "and" /\ stop = "false"
         \/ kind = "or" /\ stop = "true",
         EvalOperand(s, kind, stop)
  PROVE  (\E v \in Values : Settles(s, v)) \/ (Keeps /\ UNCHANGED phase)
  <1> DEFINE v == value[Deps[s][stage[s]]]
             w == IF seenNull[s] \/ v = "null" THEN "null" ELSE KleeneNot(stop)
  <1>1. /\ Kind[s] = kind /\ Loaded(s) /\ stop = Stop(s) /\ Kind[s] \in {"and", "or"}
        /\ stop \in Values /\ w \in Values /\ phase[s] = "loading"
        /\ UNCHANGED <<answer, faulted>>
    BY DEF EvalOperand, Stop, Values, KleeneNot, Loaded
  <1>2. CASE v = stop
    <2>1. Fulfil(s, stop) /\ Dataflow!Justified(s, stop)
      BY <1>1, <1>2, OperandJustified DEF EvalOperand
    <2> QED BY <1>1, <2>1 DEF Settles
  <1>3. CASE v # stop /\ stage[s] = Len(Deps[s])
    <2>1. Fulfil(s, w) /\ Dataflow!Justified(s, w)
      BY <1>1, <1>3, OperandJustified DEF EvalOperand
    <2> QED BY <1>1, <2>1 DEF Settles
  <1>4. CASE v # stop /\ stage[s] # Len(Deps[s])
    BY <1>1, <1>4 DEF EvalOperand, Keeps
  <1> QED BY <1>2, <1>3, <1>4

(* A step fulfils one promise or none. *)
LEMMA StepSettles ==
  ASSUME SlotsConsistent, [Next]_execVars
  PROVE  (\E s \in Slots, v \in Values : Settles(s, v)) \/ Keeps
  <1>1. CASE UNCHANGED execVars
    BY <1>1 DEF execVars, Keeps
  <1>2. ASSUME NEW s \in Slots, FetchRoot(s) \/ Compute(s) \/ Invoke(s) \/ Settle(s)
        PROVE  (\E v \in Values : Settles(s, v)) \/ Keeps
    <2>1. TypeOK
      BY DEF SlotsConsistent
    <2>2. CASE FetchRoot(s)
      BY <2>1, <2>2 DEF FetchRoot, Fetch, CallSlot, Keeps, TypeOK
    <2>3. CASE Prepare(s)
      <3>1. Fetch(Group(s)[pos[s] + 1]) /\ UNCHANGED <<value, answer, faulted>>
        BY <2>3 DEF Prepare
      <3>2. \A d : Fetch(d) => \A t \in Slots : phase'[t] = "set" <=> phase[t] = "set"
        BY <2>1 DEF Fetch, CallSlot, TypeOK
      <3> QED BY <3>1, <3>2 DEF Keeps
    <2>4. CASE \/ EvalWait(s) \/ EvalNot(s) \/ EvalBranch(s) \/ CallSync(s) \/ SkipCall(s)
               \/ Answer(s) \/ Throw(s) \/ Timeout(s)
      BY <2>4, EvalSettles
    <2>5. CASE EvalCondition(s) \/ LateAnswer(s)
      BY <2>5 DEF EvalCondition, LateAnswer, Keeps
    <2>6. CASE EvalAnd(s) \/ EvalOr(s)
      BY <2>6, EvalOperandSettles DEF EvalAnd, EvalOr
    <2>7. CASE Invoke(s)
      BY <2>1, <2>7 DEF Invoke, Loaded, Keeps, TypeOK
    <2> QED BY <1>2, <2>2, <2>3, <2>4, <2>5, <2>6, <2>7 DEF Compute, Settle
  <1> QED BY <1>1, <1>2 DEF Next, SlotStep

(* Every step maps to one of the abstract machine, or to none.             *)
LEMMA StepImplements ==
  ASSUME SlotsConsistent, Next
  PROVE  Dataflow!Next \/ UNCHANGED Dataflow!dataVars
  <1>1. PICK s \in Slots : FetchRoot(s) \/ Compute(s) \/ Invoke(s) \/ Settle(s)
    BY DEF Next, SlotStep
  <1>2. TypeOK /\ SlotOK(s)
    BY DEF SlotsConsistent
  <1>3. CASE FetchRoot(s)
    BY <1>3, FetchDemands DEF FetchRoot, Fetch
  <1>4. CASE Prepare(s)
    <2>1. PICK d \in Slots : d = Group(s)[pos[s] + 1]
      <3>1. stage[s] \in 1..LastStage(s) /\ pos[s] \in Nat
        BY <1>2 DEF SlotOK, PreparedUpTo, TypeOK
      <3>2. pos[s] + 1 \in 1..Len(Group(s))
        BY <1>2, <1>4, <3>1, GroupOfDeps DEF Prepare
      <3> QED BY <1>2, <3>1, <3>2, GroupOfDeps
    <2>2. Dataflow!Needs(s, d) /\ phase[s] # "unset"
      BY <1>4, <2>1, PrepareNeeds DEF Prepare
    <2>3. Fetch(d) /\ UNCHANGED <<value, answer>>
      BY <1>4, <2>1 DEF Prepare
    <2>4. CASE phase[d] = "unset"
      BY <2>2, <2>3, <2>4, FetchDemands DEF Fetch
    <2>5. CASE phase[d] # "unset"
      BY <2>3, <2>5 DEF Fetch, Dataflow!dataVars
    <2> QED BY <2>4, <2>5
  <1>5. CASE \/ EvalWait(s) \/ EvalNot(s) \/ EvalBranch(s) \/ CallSync(s) \/ SkipCall(s)
             \/ Answer(s) \/ Throw(s) \/ Timeout(s)
    BY <1>5, EvalSettles, FulfilDetermines DEF Settles
  <1>6. CASE EvalAnd(s) \/ EvalOr(s)
    BY <1>6, EvalOperandSettles, FulfilDetermines
       DEF EvalAnd, EvalOr, Settles, Keeps, Dataflow!dataVars
  <1>7. CASE EvalCondition(s) \/ LateAnswer(s)
    BY <1>7 DEF EvalCondition, LateAnswer, Dataflow!dataVars
  <1>8. CASE Invoke(s)
    <2>1. \A t \in Slots : phase'[t] # "unset" <=> phase[t] # "unset"
      BY <1>2, <1>8 DEF Invoke, Loaded, TypeOK
    <2> QED BY <1>8, <2>1 DEF Invoke, Dataflow!dataVars
  <1> QED BY <1>1, <1>3, <1>4, <1>5, <1>6, <1>7, <1>8 DEF Compute, Settle

(* Demand-driven evaluation: the execution calculates a slot only when a   *)
(* client or the code of another slot needs it at that point, and every    *)
(* value it stores is justified by the values it stored before.            *)
THEOREM Implementation == Spec => ImplementsDataflow
  <1>1. Init => Dataflow!Init
    <2> SUFFICES ASSUME Init PROVE Dataflow!Init
      OBVIOUS
    <2>1. {s \in Slots : phase[s] # "unset"} = InputSlots
      BY DEF Init, InputSlots
    <2> QED BY <2>1 DEF Init, Dataflow!Init, InputSlots, Dataflow!InputSlots, Values,
              Dataflow!Values, Unset, Dataflow!Unset
  <1>2. SlotsConsistent /\ [Next]_execVars => [Dataflow!Next]_(Dataflow!dataVars)
    <2>1. UNCHANGED execVars => UNCHANGED Dataflow!dataVars
      BY DEF execVars, Dataflow!dataVars
    <2> QED BY <2>1, StepImplements
  <1> QED BY <1>1, <1>2, Consistency, PTL DEF Spec, ImplementsDataflow, Dataflow!Spec

-----------------------------------------------------------------------------
(* Confluence. The proof goes along the steps and not along the slot       *)
(* graph: whatever gives every expression its meaning, given the function  *)
(* calls that are over, agrees with every value stored so far. A call that *)
(* ends later may only rule meanings out.                                  *)

(* M gives every expression its meaning, and every call that is over. *)
Respects(M) ==
  /\ M \in [Slots -> Values]
  /\ \A s \in Slots :
       Kind[s] \notin {"sync", "async"} \/ phase[s] = "set" => M[s] = MeaningIn(M, s)

AgreesWith(M) == \A s \in Slots : phase[s] = "set" => value[s] = M[s]

Confluent == \A M : Respects(M) => AgreesWith(M)

(* A justified value is the one its expression means, if the values it     *)
(* depends on are. For a call, the step also says whether it failed.       *)
LEMMA JustifiedIsMeant ==
  ASSUME SlotsConsistent, NEW s \in Slots, NEW v \in Values, Settles(s, v),
         NEW M \in [Slots -> Values], AgreesWith(M)
  PROVE  v = MeaningIn(M, s)'
  <1> DEFINE args == {M[d] : d \in DepSet(s)}
  <1>1. TypeOK /\ SlotOK(s) /\ Kind[s] \in Kinds /\ Kind[s] # "input" /\ s \notin faulted
    BY Arity DEF SlotsConsistent, SlotOK, CalledOnce, CalledWithArguments, Settles, Unset
  <1>2. ASSUME NEW d \in DepSet(s), value[d] # Dataflow!Unset
        PROVE  value[d] = M[d] /\ d \in Slots
    <2>1. d \in Slots
      BY DepsAreSlots
    <2>2. phase[d] = "set"
      BY <1>2, <2>1 DEF SlotsConsistent, SlotOK, CalledOnce, Unset, Dataflow!Unset
    <2> QED BY <2>1, <2>2 DEF AgreesWith
  <1>3. Dataflow!KnownValues(s) = {value[d] : d \in DepSet(s)}
    BY SameDeps DEF Dataflow!KnownValues
  <1>4. ASSUME NEW w \in Dataflow!KnownValues(s), w # Dataflow!Unset
        PROVE  w \in args
    BY <1>2, <1>3, <1>4
  <1>5. ASSUME Dataflow!Unset \notin Dataflow!KnownValues(s)
        PROVE  args = Dataflow!KnownValues(s) /\ \A d \in DepSet(s) : value[d] = M[d]
    BY <1>2, <1>3, <1>5
  <1>6. Dataflow!Justified(s, v)
    BY DEF Settles
  <1>7. CASE Kind[s] = "and"
    <2>1. MeaningIn(M, s)' = KleeneAnd(args)
      BY <1>7 DEF MeaningIn
    <2>2. CASE v = "false" /\ "false" \in Dataflow!KnownValues(s)
      BY <1>4, <2>1, <2>2 DEF KleeneAnd, Dataflow!Unset
    <2>3. CASE /\ Dataflow!Unset \notin Dataflow!KnownValues(s)
               /\ v = Dataflow!KleeneAnd(Dataflow!KnownValues(s))
      BY <1>5, <2>1, <2>3 DEF KleeneAnd, Dataflow!KleeneAnd
    <2> QED BY <1>6, <1>7, <2>2, <2>3 DEF Dataflow!Justified
  <1>8. CASE Kind[s] = "or"
    <2>1. MeaningIn(M, s)' = KleeneOr(args)
      BY <1>8 DEF MeaningIn
    <2>2. CASE v = "true" /\ "true" \in Dataflow!KnownValues(s)
      BY <1>4, <2>1, <2>2 DEF KleeneOr, Dataflow!Unset
    <2>3. CASE /\ Dataflow!Unset \notin Dataflow!KnownValues(s)
               /\ v = Dataflow!KleeneOr(Dataflow!KnownValues(s))
      BY <1>5, <2>1, <2>3 DEF KleeneOr, Dataflow!KleeneOr
    <2> QED BY <1>6, <1>8, <2>2, <2>3 DEF Dataflow!Justified
  <1>9. CASE Kind[s] = "if"
    <2>1. Len(Deps[s]) = 3
      BY <1>9, Arity
    <2>2. \A i \in 1..3 : Deps[s][i] \in DepSet(s)
      BY <2>1 DEF DepSet
    <2>3. value[Deps[s][1]] # Dataflow!Unset /\ v = value[Dataflow!Branch(s, value[Deps[s][1]])]
      BY <1>6, <1>9 DEF Dataflow!Justified, Dataflow!Known
    <2>4. value[Deps[s][1]] = M[Deps[s][1]]
      BY <1>2, <2>2, <2>3
    <2>5. Dataflow!Branch(s, value[Deps[s][1]]) = Branch(s, M[Deps[s][1]])
      BY <2>4 DEF Branch, Dataflow!Branch
    <2>6. Branch(s, M[Deps[s][1]]) \in DepSet(s)
      BY <2>2 DEF Branch
    <2>7. v # Dataflow!Unset
      BY DEF Values, Dataflow!Unset
    <2>8. v = M[Branch(s, M[Deps[s][1]])]
      BY <1>2, <2>3, <2>5, <2>6, <2>7
    <2> QED BY <1>9, <2>8 DEF MeaningIn
  <1>10. CASE Kind[s] = "not"
    <2>1. Len(Deps[s]) = 1
      BY <1>10, Arity
    <2>2. Deps[s][1] \in DepSet(s)
      BY <2>1 DEF DepSet
    <2>3. value[Deps[s][1]] = M[Deps[s][1]]
      BY <1>2, <1>6, <1>10, <2>2 DEF Dataflow!Justified, Dataflow!Known
    <2> QED BY <1>6, <1>10, <2>3 DEF Dataflow!Justified, Dataflow!KleeneNot, KleeneNot, MeaningIn
  <1>11. CASE Kind[s] = "wait"
    BY <1>6, <1>11 DEF Dataflow!Justified, MeaningIn
  <1>12. CASE Kind[s] \in {"sync", "async"}
    <2>1. Dataflow!Unset \notin Dataflow!KnownValues(s)
      BY <1>6, <1>12 DEF Dataflow!Justified
    <2>2. ("null" \in args /\ s \notin NullOk) <=> ShortCircuits(s)
      BY <1>5, <2>1 DEF ShortCircuits
    <2>3. MeaningIn(M, s)' = IF s \in faulted' \/ ("null" \in args /\ s \notin NullOk)
                               THEN "null" ELSE answer'[s]
      BY <1>12 DEF MeaningIn
    <2> QED BY <1>1, <1>12, <2>2, <2>3 DEF Settles
  <1> QED BY <1>1, <1>7, <1>8, <1>9, <1>10, <1>11, <1>12 DEF Kinds

(* Every step keeps values what the expressions mean.                      *)
LEMMA StepConfluent ==
  ASSUME SlotsConsistent, [Next]_execVars, Confluent
  PROVE  Confluent'
  <1> SUFFICES ASSUME NEW M, Respects(M)'
               PROVE  AgreesWith(M)'
    BY DEF Confluent
  <1>1. TypeOK /\ M \in [Slots -> Values]
    BY DEF SlotsConsistent, Respects
  <1>2. Grows
    BY StepConsistent, StutterConsistent
  <1>3. \A s \in Slots : phase[s] = "set" => (s \in faulted' <=> s \in faulted)
    BY StepSettles DEF Settles, Keeps
  <1>4. Respects(M)
    <2> SUFFICES ASSUME NEW s \in Slots, Kind[s] \notin {"sync", "async"} \/ phase[s] = "set"
                 PROVE  M[s] = MeaningIn(M, s)
      BY <1>1 DEF Respects
    <2>1. M[s] = MeaningIn(M, s)'
      BY <1>2 DEF Respects, Grows
    <2>2. MeaningIn(M, s)' = MeaningIn(M, s)
      <3>1. CASE Kind[s] \notin {"sync", "async"}
        BY <1>2, <3>1, Arity DEF MeaningIn, Grows, Kinds
      <3>2. CASE phase[s] = "set"
        BY <1>2, <1>3, <3>2 DEF MeaningIn, Grows
      <3> QED BY <3>1, <3>2
    <2> QED BY <2>1, <2>2
  <1>5. AgreesWith(M)
    BY <1>4 DEF Confluent
  <1>6. CASE Keeps
    BY <1>5, <1>6 DEF Keeps, AgreesWith
  <1>7. ASSUME NEW s \in Slots, NEW v \in Values, Settles(s, v)
        PROVE  AgreesWith(M)'
    <2>1. /\ phase'[s] = "set" /\ value'[s] = v
          /\ \A t \in Slots \ {s} : phase'[t] = phase[t] /\ value'[t] = value[t]
      BY <1>1, <1>7 DEF Settles, Fulfil, TypeOK
    <2>2. v = MeaningIn(M, s)'
      BY <1>1, <1>5, <1>7, JustifiedIsMeant
    <2>3. M[s] = MeaningIn(M, s)'
      BY <2>1 DEF Respects
    <2> QED BY <1>5, <2>1, <2>2, <2>3 DEF AgreesWith
  <1> QED BY <1>6, <1>7, StepSettles

(* At first only inputs have values.                                       *)
LEMMA InitConfluent ==
  ASSUME Init
  PROVE  Confluent
  <1> SUFFICES ASSUME NEW M, Respects(M), NEW s \in Slots, phase[s] = "set"
               PROVE  value[s] = M[s]
    BY DEF Confluent, AgreesWith
  <1>1. Kind[s] = "input" /\ value[s] = answer[s]
    BY DEF Init, InputSlots
  <1>2. M[s] = MeaningIn(M, s)
    BY <1>1 DEF Respects
  <1> QED BY <1>1, <1>2 DEF MeaningIn

(* The values an execution stores are the ones the expressions mean: any   *)
(* assignment that gives each slot the meaning of its expression, given    *)
(* the functions that failed so far, agrees with every slot that is set.   *)
THEOREM Confluence ==
  Spec => [](\A M : IsMeaning(M) => \A s \in Slots : phase[s] = "set" => value[s] = M[s])
  <1>1. Init => Confluent
    BY InitConfluent
  <1>2. SlotsConsistent /\ Confluent /\ [Next]_execVars => Confluent'
    BY StepConfluent
  <1>3. Confluent => \A M : IsMeaning(M) => \A s \in Slots : phase[s] = "set" => value[s] = M[s]
    BY DEF Confluent, IsMeaning, Respects, AgreesWith
  <1> QED BY <1>1, <1>2, <1>3, Consistency, PTL DEF Spec

-----------------------------------------------------------------------------
(* The recursive definition of Meaning gives every slot the meaning of its *)
(* expression: the slots form no loop, so the equation has a solution,     *)
(* built rank by rank, and only one.                                       *)

(* The induction principle the provers can use. *)
LEMMA LeastNat ==
  ASSUME NEW T, T \subseteq Nat, T # {}
  PROVE  \E m \in T : \A k \in T : m <= k
  <1>1. IsWellFoundedOn(OpToRel(<, Nat), Nat)
    BY NatLessThanWellFounded
  <1>2. PICK m \in T : \A k \in T : <<k, m>> \notin OpToRel(<, Nat)
    BY <1>1, WFMin
  <1>3. OpToRel(<, Nat) = {p \in Nat \X Nat : p[1] < p[2]}
    BY Zenon DEF OpToRel
  <1>4. \A k, n \in Nat : k < n => <<k, n>> \in OpToRel(<, Nat)
    BY <1>3
  <1>5. \A k \in T : ~(k < m)
    BY <1>2, <1>4, Zenon
  <1> QED BY <1>5

MeansBelow(M, n) == \A s \in Slots : Rank[s] < n => M[s] = MeaningIn(M, s)

(* The meaning of an expression depends on the slots it refers to. *)
LEMMA MeaningIsLocal ==
  ASSUME NEW s \in Slots, NEW M, NEW N, \A d \in DepSet(s) : M[d] = N[d]
  PROVE  MeaningIn(M, s) = MeaningIn(N, s)
  <1>1. {M[d] : d \in DepSet(s)} = {N[d] : d \in DepSet(s)}
    OBVIOUS
  <1>2. CASE Kind[s] = "if"
    <2>1. Len(Deps[s]) = 3
      BY <1>2, Arity
    <2>2. \A i \in 1..3 : Deps[s][i] \in DepSet(s)
      BY <2>1 DEF DepSet
    <2>3. M[Deps[s][1]] = N[Deps[s][1]] /\ Branch(s, M[Deps[s][1]]) \in DepSet(s)
      BY <2>2 DEF Branch
    <2> QED BY <1>2, <2>3 DEF MeaningIn
  <1>3. CASE Kind[s] = "not"
    <2>1. Len(Deps[s]) = 1
      BY <1>3, Arity
    <2>2. Deps[s][1] \in DepSet(s)
      BY <2>1 DEF DepSet
    <2> QED BY <1>3, <2>2 DEF MeaningIn
  <1>4. CASE Kind[s] \notin {"if", "not"}
    BY <1>1, <1>4 DEF MeaningIn
  <1> QED BY <1>2, <1>3, <1>4

(* The meaning of an expression is a value.                                *)
LEMMA MeaningIsValue ==
  ASSUME TypeOK, NEW s \in Slots, NEW M \in [Slots -> Values]
  PROVE  MeaningIn(M, s) \in Values
  <1>1. answer[s] \in Values /\ Kind[s] \in Kinds
    BY Arity DEF TypeOK
  <1>2. \A vs : KleeneAnd(vs) \in Values /\ KleeneOr(vs) \in Values
    BY DEF KleeneAnd, KleeneOr, Values
  <1>3. \A v : KleeneNot(v) \in Values
    BY DEF KleeneNot, Values
  <1>4. CASE Kind[s] = "if"
    <2>1. Len(Deps[s]) = 3
      BY <1>4, Arity
    <2>2. Deps[s][2] \in Slots /\ Deps[s][3] \in Slots
      BY <2>1, DepsAreSlots
    <2> QED BY <1>4, <2>2 DEF MeaningIn, Branch
  <1>5. CASE Kind[s] # "if"
    BY <1>1, <1>2, <1>3, <1>5 DEF MeaningIn, Values
  <1> QED BY <1>4, <1>5

(* By induction over the rank of slots: two assignments that satisfy the   *)
(* equations below a rank agree below it,                                  *)
LEMMA MeaningIsUnique ==
  ASSUME NEW n \in Nat, NEW M, NEW N, MeansBelow(M, n), MeansBelow(N, n)
  PROVE  \A s \in Slots : Rank[s] < n => M[s] = N[s]
  <1> DEFINE T == {Rank[s] : s \in {t \in Slots : Rank[t] < n /\ M[t] # N[t]}}
  <1>1. Rank \in [Slots -> Nat]
    BY GraphAssumption
  <1> SUFFICES ASSUME T # {} PROVE FALSE
    OBVIOUS
  <1>2. PICK m \in T : \A k \in T : m <= k
    BY <1>1, LeastNat
  <1>3. PICK s \in Slots : Rank[s] = m /\ m < n /\ M[s] # N[s]
    BY <1>2
  <1>4. ASSUME NEW d \in DepSet(s) PROVE M[d] = N[d]
    <2>1. d \in Slots /\ Rank[d] < Rank[s]
      BY DepsAreSlots, GraphAssumption DEF DepSet
    <2>2. Rank[d] \in Nat /\ Rank[s] \in Nat
      BY <1>1, <2>1
    <2> QED BY <1>2, <1>3, <2>1, <2>2
  <1>5. MeaningIn(M, s) = MeaningIn(N, s)
    BY <1>4, MeaningIsLocal
  <1> QED BY <1>3, <1>5 DEF MeansBelow

(* and there is one for every rank.                                        *)
LEMMA MeaningBelowExists ==
  ASSUME TypeOK, NEW n \in Nat
  PROVE  \E M \in [Slots -> Values] : MeansBelow(M, n)
  <1> DEFINE Bad == {k \in Nat : ~\E M \in [Slots -> Values] : MeansBelow(M, k)}
  <1>0. Rank \in [Slots -> Nat]
    BY GraphAssumption
  <1> SUFFICES ASSUME Bad # {} PROVE FALSE
    OBVIOUS
  <1>1. PICK m \in Bad : \A k \in Bad : m <= k
    BY LeastNat
  <1>2. m # 0
    <2>1. answer \in [Slots -> Values] /\ MeansBelow(answer, 0)
      BY <1>0 DEF TypeOK, MeansBelow
    <2> QED BY <1>1, <2>1
  <1>3. m \in Nat /\ m - 1 \in Nat /\ ~(m <= m - 1)
    BY <1>1, <1>2
  <1>4. PICK M \in [Slots -> Values] : MeansBelow(M, m - 1)
    BY <1>1, <1>3
  <1> DEFINE N == [s \in Slots |-> IF Rank[s] < m - 1 THEN M[s] ELSE MeaningIn(M, s)]
  <1>5. N \in [Slots -> Values]
    BY MeaningIsValue
  <1>6. ASSUME NEW s \in Slots, Rank[s] < m PROVE N[s] = MeaningIn(N, s)
    <2>1. ASSUME NEW d \in DepSet(s) PROVE N[d] = M[d]
      <3>1. d \in Slots /\ Rank[d] < Rank[s]
        BY DepsAreSlots, GraphAssumption DEF DepSet
      <3>2. Rank[d] < m - 1
        BY <1>0, <1>3, <1>6, <3>1
      <3> QED BY <3>1, <3>2
    <2>2. MeaningIn(N, s) = MeaningIn(M, s)
      <3> HIDE DEF N
      <3> QED BY <2>1, MeaningIsLocal
    <2> QED BY <1>4, <2>2 DEF MeansBelow
  <1> QED BY <1>1, <1>5, <1>6 DEF MeansBelow

(* The recursive function Meaning satisfies the equations of expressions,  *)
(* since the graph of the slots has no loop (SlotGraph).                   *)
THEOREM MeaningIsMeaning ==
  ASSUME TypeOK
  PROVE  IsMeaning(Meaning)
  <1> DEFINE Upto(s) == CHOOSE M \in [Slots -> Values] : MeansBelow(M, Rank[s] + 1)
             F == [s \in Slots |-> Upto(s)[s]]
  <1>0. Rank \in [Slots -> Nat]
    BY GraphAssumption
  <1>1. ASSUME NEW s \in Slots
        PROVE  Upto(s) \in [Slots -> Values] /\ MeansBelow(Upto(s), Rank[s] + 1)
    <2>1. \E M \in [Slots -> Values] : MeansBelow(M, Rank[s] + 1)
      BY <1>0, MeaningBelowExists
    <2> QED BY <2>1
  <1> HIDE DEF Upto
  <1>2. F \in [Slots -> Values]
    BY <1>1
  <1>3. ASSUME NEW s \in Slots PROVE F[s] = MeaningIn(F, s)
    <2>1. ASSUME NEW d \in DepSet(s) PROVE F[d] = Upto(s)[d]
      <3>1. d \in Slots /\ Rank[d] < Rank[s]
        BY DepsAreSlots, GraphAssumption DEF DepSet
      <3>2. Rank[d] + 1 \in Nat /\ \A t \in Slots : Rank[t] < Rank[d] + 1 => Rank[t] < Rank[s] + 1
        BY <1>0, <3>1
      <3>3. MeansBelow(Upto(s), Rank[d] + 1) /\ MeansBelow(Upto(d), Rank[d] + 1)
        BY <1>1, <3>1, <3>2 DEF MeansBelow
      <3>4. Rank[d] < Rank[d] + 1
        BY <1>0, <3>1
      <3>5. Upto(s)[d] = Upto(d)[d]
        BY <3>1, <3>2, <3>3, <3>4, MeaningIsUnique
      <3> QED BY <3>1, <3>5
    <2>2. MeaningIn(F, s) = MeaningIn(Upto(s), s)
      <3> HIDE DEF F
      <3> QED BY <2>1, MeaningIsLocal
    <2>3. Rank[s] < Rank[s] + 1
      BY <1>0
    <2> QED BY <1>1, <2>2, <2>3 DEF MeansBelow
  <1> HIDE DEF F
  <1>4. F = [s \in Slots |-> MeaningIn(F, s)]
    BY <1>2, <1>3
  <1>5. Meaning = [s \in Slots |-> MeaningIn(Meaning, s)]
    BY <1>4 DEF Meaning
  <1>6. \A s \in Slots : Meaning[s] = MeaningIn(Meaning, s)
    BY <1>5
  <1>7. ASSUME NEW s \in Slots PROVE Meaning[s] = F[s]
    <2>1. MeansBelow(Meaning, Rank[s] + 1) /\ MeansBelow(F, Rank[s] + 1)
      BY <1>3, <1>6 DEF MeansBelow
    <2>2. Rank[s] + 1 \in Nat /\ Rank[s] < Rank[s] + 1
      BY <1>0
    <2> QED BY <2>1, <2>2, MeaningIsUnique
  <1>8. Meaning = F
    BY <1>2, <1>5, <1>7
  <1> QED BY <1>2, <1>6, <1>8 DEF IsMeaning

(* In particular they are the values of the recursive definition, which    *)
(* TLC evaluates.                                                          *)
THEOREM MeaningIsComputed == Spec => []AgreesWithMeaning
  <1>1. SlotsConsistent
          /\ (\A M : IsMeaning(M) => \A s \in Slots : phase[s] = "set" => value[s] = M[s])
          => AgreesWithMeaning
    BY MeaningIsMeaning DEF AgreesWithMeaning, SlotsConsistent
  <1> QED BY <1>1, Confluence, Consistency, PTL


-----------------------------------------------------------------------------
(* What EveryFetchSettles rests on.                                        *)

(* A slot that cannot go on waits for one of its group, which has a        *)
(* promise that is not fulfilled.                                          *)
LEMMA WaitsForAnother ==
  ASSUME SlotsConsistent, NEW s \in Slots, phase[s] = "loading", ~CanGoOn(s)
  PROVE  \E d \in Slots : Rank[d] < Rank[s] /\ phase[d] \in {"loading", "calling"}
  <1>1. TypeOK /\ SlotOK(s)
    BY DEF SlotsConsistent
  <1>2. /\ stage[s] \in 1..LastStage(s) /\ pos[s] \in 0..Len(Group(s))
        /\ \A i \in 1..pos[s] : phase[Group(s)[i]] # "unset"
    BY <1>1 DEF SlotOK, PreparedUpTo
  <1>3. /\ Len(Group(s)) \in Nat
        /\ \A i \in 1..Len(Group(s)) : Group(s)[i] \in DepSet(s) /\ Group(s)[i] \in Slots
    BY <1>1, <1>2, GroupOfDeps
  <1>4. pos[s] = Len(Group(s))
    BY <1>2, <1>3 DEF CanGoOn
  <1>5. ~Loaded(s)
    <2>1. Kind[s] \in Kinds \ {"input"}
      BY <1>1, Arity DEF SlotOK, CalledOnce
    <2>2. Kind[s] = "if" => stage[s] \in {1, 2}
      BY <1>2 DEF LastStage
    <2> QED BY <2>1, <2>2 DEF CanGoOn, Kinds
  <1>6. PICK i \in 1..Len(Group(s)) : phase[Group(s)[i]] # "set"
    BY <1>4, <1>5 DEF Loaded
  <1>7. phase[Group(s)[i]] \in Phases
    BY <1>1, <1>3, <1>6 DEF TypeOK
  <1>8. phase[Group(s)[i]] \in {"loading", "calling"}
    BY <1>2, <1>4, <1>6, <1>7 DEF Phases
  <1>9. Rank[Group(s)[i]] < Rank[s]
    BY <1>3, <1>6, GraphAssumption DEF DepSet
  <1> QED BY <1>3, <1>6, <1>8, <1>9

(* The slot of least rank among those that have not settled goes on.       *)
LEMMA LeastGoesOn == SlotsConsistent => NobodyStuck
  <1> SUFFICES ASSUME SlotsConsistent, NEW s \in Slots, phase[s] \in {"loading", "calling"}
               PROVE  \E t \in Slots : Rank[t] <= Rank[s] /\ CanGoOn(t)
    BY DEF NobodyStuck
  <1> DEFINE Pending == {t \in Slots : phase[t] \in {"loading", "calling"} /\ Rank[t] <= Rank[s]}
             T == {Rank[t] : t \in Pending}
  <1>1. Rank \in [Slots -> Nat]
    BY GraphAssumption
  <1>2. T \subseteq Nat /\ Rank[s] \in T
    BY <1>1
  <1>3. PICK m \in T : \A k \in T : m <= k
    BY <1>2, LeastNat
  <1>4. PICK t \in Pending : Rank[t] = m
    BY <1>3
  <1>5. CASE phase[t] = "calling"
    BY <1>4, <1>5 DEF CanGoOn
  <1>6. CASE phase[t] = "loading"
    <2>1. SUFFICES ASSUME ~CanGoOn(t) PROVE FALSE
      BY <1>4
    <2>2. PICK d \in Slots : Rank[d] < Rank[t] /\ phase[d] \in {"loading", "calling"}
      BY <1>4, <1>6, <2>1, WaitsForAnother
    <2>3. Rank[d] \in Nat /\ Rank[t] \in Nat /\ Rank[s] \in Nat
      BY <1>1, <1>4
    <2>4. d \in Pending
      BY <1>4, <2>2, <2>3
    <2> QED BY <1>3, <1>4, <2>2, <2>3, <2>4
  <1> QED BY <1>4, <1>5, <1>6

(* No deadlock: however the callbacks of the slots interleave, and for     *)
(* every graph without a loop, slots that wait for one another are behind  *)
(* one whose code, or whose timer, can run.                                *)
THEOREM NoDeadlock == Spec => []NobodyStuck
  BY LeastGoesOn, Consistency, PTL

(* A promise that is fulfilled takes its slot further, and no other.       *)
LEMMA FulfilGoesOn ==
  ASSUME TypeOK, NEW s \in Slots, phase[s] \in {"loading", "calling"}, NEW v,
         Fulfil(s, v), UNCHANGED <<stage, pos>>
  PROVE  Further(s) /\ \A t \in Slots \ {s} : AsFar(t)
  BY DEF TypeOK, Fulfil, Further, AsFar, Progress

(* So does the next stage of its code.                                     *)
LEMMA AdvanceGoesOn ==
  ASSUME TypeOK, NEW s \in Slots, Advance(s), UNCHANGED phase
  PROVE  Further(s) /\ \A t \in Slots \ {s} : AsFar(t)
  <1>1. stage[s] \in Nat /\ stage'[s] = stage[s] + 1 /\ phase'[s] = phase[s]
    BY DEF TypeOK, Advance
  <1>2. Further(s)
    BY <1>1 DEF Further
  <1>3. \A t \in Slots \ {s} : AsFar(t)
    BY DEF TypeOK, Advance, AsFar
  <1> QED BY <1>2, <1>3

(* So does a fetch, unless the slot has a promise already.                 *)
LEMMA FetchGoesOn ==
  ASSUME TypeOK, NEW d \in Slots, Fetch(d), UNCHANGED stage
  PROVE  \A t \in Slots : pos'[t] = pos[t] => Further(t) \/ AsFar(t)
  <1>1. CASE phase[d] = "unset"
    BY <1>1 DEF TypeOK, Fetch, CallSlot, Further, AsFar, Progress
  <1>2. CASE phase[d] # "unset"
    BY <1>2 DEF Fetch, AsFar
  <1> QED BY <1>1, <1>2

(* So does preparing a slot of the group.                                  *)
LEMMA PrepareGoesOn ==
  ASSUME SlotsConsistent, NEW s \in Slots, Prepare(s)
  PROVE  Further(s) /\ \A t \in Slots : Further(t) \/ AsFar(t)
  <1> DEFINE d == Group(s)[pos[s] + 1]
  <1>1. /\ TypeOK /\ stage[s] \in 1..LastStage(s) /\ pos[s] \in Nat /\ pos[s] < Len(Group(s))
        /\ phase[s] = "loading"
    BY DEF SlotsConsistent, SlotOK, PreparedUpTo, TypeOK, Prepare
  <1>2. d \in Slots /\ d # s
    BY <1>1, GroupOfDeps
  <1>3. Fetch(d) /\ UNCHANGED stage /\ pos' = [pos EXCEPT ![s] = @ + 1]
    BY DEF Prepare
  <1>4. pos'[s] = pos[s] + 1 /\ \A t \in Slots \ {s} : pos'[t] = pos[t]
    BY <1>1, <1>3 DEF TypeOK
  <1>5. phase'[s] = phase[s]
    BY <1>1, <1>2, <1>3 DEF Fetch, CallSlot, TypeOK
  <1>6. Further(s)
    BY <1>1, <1>3, <1>4, <1>5 DEF Further
  <1> QED BY <1>1, <1>2, <1>3, <1>4, <1>6, FetchGoesOn

(* What one step does to how far the slots are.                            *)
LEMMA StepGoesOn ==
  ASSUME SlotsConsistent, Next
  PROVE  \/ /\ \A s \in Slots : Further(s) \/ AsFar(s)
            /\ \E s \in Slots : Further(s)
         \/ /\ \A s \in Slots : AsFar(s)
            /\ late' \subseteq late /\ late' # late
  <1>1. PICK s \in Slots : FetchRoot(s) \/ SlotStep(s) \/ Settle(s)
    BY DEF Next
  <1>2. TypeOK
    BY DEF SlotsConsistent
  <1>3. CASE FetchRoot(s)
    <2>1. Further(s)
      BY <1>2, <1>3 DEF FetchRoot, Fetch, CallSlot, TypeOK, Further, Progress
    <2>2. \A t \in Slots : Further(t) \/ AsFar(t)
      BY <1>2, <1>3, FetchGoesOn DEF FetchRoot
    <2> QED BY <2>1, <2>2
  <1>4. CASE Prepare(s)
    BY <1>4, PrepareGoesOn
  <1>5. CASE EvalCondition(s)
    BY <1>2, <1>5, AdvanceGoesOn DEF EvalCondition
  <1>6. CASE EvalAnd(s) \/ EvalOr(s)
    <2>1. PICK kind, stop : EvalOperand(s, kind, stop)
      BY <1>6 DEF EvalAnd, EvalOr
    <2>2. phase[s] = "loading"
      BY <2>1 DEF EvalOperand, Loaded
    <2>3. \/ Advance(s) /\ UNCHANGED phase
          \/ \E v : Fulfil(s, v) /\ UNCHANGED <<stage, pos>>
      BY <2>1 DEF EvalOperand
    <2> QED BY <1>2, <2>2, <2>3, AdvanceGoesOn, FulfilGoesOn
  <1>7. CASE EvalWait(s) \/ EvalNot(s) \/ EvalBranch(s) \/ CallSync(s) \/ SkipCall(s)
    <2>1. phase[s] = "loading" /\ UNCHANGED <<stage, pos>>
      BY <1>7 DEF EvalWait, EvalNot, EvalBranch, CallSync, SkipCall, Loaded
    <2>2. \E v : Fulfil(s, v)
      BY <1>7 DEF EvalWait, EvalNot, EvalBranch, CallSync, SkipCall
    <2> QED BY <1>2, <2>1, <2>2, FulfilGoesOn
  <1>8. CASE Invoke(s)
    BY <1>2, <1>8 DEF Invoke, Loaded, TypeOK, Further, AsFar, Progress
  <1>9. CASE Answer(s) \/ Throw(s) \/ Timeout(s)
    <2>1. phase[s] = "calling" /\ UNCHANGED <<stage, pos>>
      BY <1>9 DEF Answer, Throw, Timeout
    <2>2. \E v : Fulfil(s, v)
      BY <1>9 DEF Answer, Throw, Timeout
    <2> QED BY <1>2, <2>1, <2>2, FulfilGoesOn
  <1>10. CASE LateAnswer(s)
    BY <1>10 DEF LateAnswer, AsFar
  <1> QED BY <1>1, <1>3, <1>4, <1>5, <1>6, <1>7, <1>8, <1>9, <1>10 DEF SlotStep, Compute, Settle

(* No livelock: a step of an execution takes slots further and none back,  *)
(* so that a graph of finitely many slots settles after finitely many.     *)
THEOREM NoLivelock == Spec => StepsGoOn
  <1>1. SlotsConsistent /\ [Next]_execVars =>
          [\/ /\ \A s \in Slots : Further(s) \/ AsFar(s)
              /\ \E s \in Slots : Further(s)
           \/ /\ \A s \in Slots : AsFar(s)
              /\ late' \subseteq late /\ late' # late]_execVars
    BY StepGoesOn
  <1> QED BY <1>1, Consistency, PTL DEF Spec, StepsGoOn

=============================================================================
