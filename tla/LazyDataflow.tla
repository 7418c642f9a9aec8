---------------------------- MODULE LazyDataflow ----------------------------
(***************************************************************************)
(* What an execution of compiled SQRL promises, with no promises, event    *)
(* loop, evaluation order or timers: a slot is demanded only when somebody *)
(* needs it, and gets one value, justified by the values it depends on.    *)
(***************************************************************************)
EXTENDS SlotGraph

VARIABLES
  demanded,   (* the slots whose calculation was asked for                   *)
  value,      (* the value of every slot, Unset until it has one             *)
  answer      (* what each function returns when it is not cut short         *)

dataVars == <<demanded, value, answer>>

Known(s) == value[s] # Unset
KnownValues(s) == {value[d] : d \in DepSet(s)}

(* The code of slot p, still without a value, needs slot d next: a branch  *)
(* only after the condition chose it, an operand of AND (OR) only while no *)
(* operand before it was false (true).                                     *)
Needs(p, d) ==
  /\ ~Known(p)
  /\ CASE Kind[p] = "if" ->
            \/ d = Deps[p][1]
            \/ Known(Deps[p][1]) /\ d = Branch(p, value[Deps[p][1]])
       [] Kind[p] \in {"and", "or"} ->
            \E i \in 1..Len(Deps[p]) :
              /\ d = Deps[p][i]
              /\ \A j \in 1..(i - 1) :
                   value[Deps[p][j]] \in
                     (IF Kind[p] = "and" THEN {"true", "null"} ELSE {"false", "null"})
       [] OTHER -> d \in DepSet(p)

(* v is a value slot s may take, given the values known so far. *)
Justified(s, v) ==
  CASE Kind[s] = "and" ->
         \/ v = "false" /\ "false" \in KnownValues(s)
         \/ Unset \notin KnownValues(s) /\ v = KleeneAnd(KnownValues(s))
    [] Kind[s] = "or" ->
         \/ v = "true" /\ "true" \in KnownValues(s)
         \/ Unset \notin KnownValues(s) /\ v = KleeneOr(KnownValues(s))
    [] Kind[s] = "if" ->
         /\ Known(Deps[s][1])
         /\ v = value[Branch(s, value[Deps[s][1]])]
    [] Kind[s] = "not" -> Known(Deps[s][1]) /\ v = KleeneNot(value[Deps[s][1]])
    [] Kind[s] = "wait" -> Unset \notin KnownValues(s) /\ v = "true"
    [] OTHER ->
         /\ Unset \notin KnownValues(s)
         /\ IF "null" \in KnownValues(s) /\ s \notin NullOk
              THEN v = "null"
              ELSE v \in {answer[s], "null"}

-----------------------------------------------------------------------------
Init ==
  /\ answer \in [Slots -> Values]
  /\ \A s \in Slots : answer[s] \in Results[s]
  /\ demanded = InputSlots
  /\ value = [s \in Slots |-> IF s \in InputSlots THEN answer[s] ELSE Unset]

Demand(s) ==
  /\ s \notin demanded
  /\ s \in Roots \/ \E p \in demanded : Needs(p, s)
  /\ demanded' = demanded \union {s}
  /\ UNCHANGED <<value, answer>>

Determine(s) ==
  /\ s \in demanded
  /\ ~Known(s)
  /\ \E v \in Values : Justified(s, v) /\ value' = [value EXCEPT ![s] = v]
  /\ UNCHANGED <<demanded, answer>>

Next == \E s \in Slots : Demand(s) \/ Determine(s)

Spec == Init /\ [][Next]_dataVars

=============================================================================
