------------------------------ MODULE RedisProofs ------------------------------
(***************************************************************************)
(* The ids of entities, for any number of fetches, entities and processes, *)
(* any clocks that agree as ClocksAgree says, and any lifetime; and all    *)
(* services on one redis, which do not disturb each other.                 *)
(***************************************************************************)
EXTENDS MCRedis, BucketProofs, CounterProofs

(* An id is not NoId, whose remainder is zero. *)
LEMMA NoIdIsNone == NoId \notin Ids /\ NoId.remainder = 0
BY DEF NoId, Ids

(* The milliseconds are integers, and what a caller reads is one of them. *)
LEMMA TimesAreIntegers ==
  /\ Times \subseteq Int
  /\ \A c \in 0..Horizon, f \in Fetches : c + Skew[f] \in Times
BY UniqueIdAssumption DEF Times

(* The invariant holds before the first command.                           *)
LEMMA InitConsistent == Init => IdsConsistent
<1> SUFFICES ASSUME Init PROVE IdsConsistent
  OBVIOUS
<1> USE NoIdIsNone, TimesAreIntegers, UniqueIdAssumption, RedisAssumption DEF Init
<1>1. IdTypeOK
  BY DEF IdTypeOK, Stages, Never
<1>2. \A f \in Fetches : StageOK(f)
  BY DEF StageOK
<1>3. CounterOK /\ OwnOK /\ SameIdForAll
  BY DEF CounterOK, Counted, Lasts, OwnOK, SameIdForAll, Never
<1> QED
  BY <1>1, <1>2, <1>3 DEF IdsConsistent

(* Every step keeps the types. *)
LEMMA StepTypes ==
  IdTypeOK /\ (\A f \in Fetches : StageOK(f)) /\ [Next]_idVars => IdTypeOK'
<1> SUFFICES ASSUME IdTypeOK, \A f \in Fetches : StageOK(f), [Next]_idVars PROVE IdTypeOK'
  OBVIOUS
<1> USE NoIdIsNone, TimesAreIntegers, UniqueIdAssumption, RedisAssumption DEF IdTypeOK, Stages, Return
<1>1. CASE UNCHANGED idVars
  BY <1>1 DEF idVars
<1>2. CASE Tick
  BY <1>2 DEF Tick, Never
<1>3. ASSUME NEW f \in Fetches, Step(f) PROVE IdTypeOK'
  <2>1. CASE Find(f)
    BY <2>1 DEF Find
  <2>2. CASE Miss(f)
    BY <2>2 DEF Miss
  <2>3. CASE Increment(f)
    <3>1. timeMs[f] \in Times
      BY <2>3 DEF Increment, StageOK
    <3>0. counter[timeMs[f]] \in Nat /\ RemainderSize \in Nat
      BY <3>1
    <3>2. counter' \in [Times -> Nat]
      <4>1. counter' = [counter EXCEPT ![timeMs[f]] = counter[timeMs[f]] + 1]
        BY <2>3 DEF Increment
      <4>2. counter[timeMs[f]] + 1 \in Nat
        BY <3>0
      <4>3. counter \in [Times -> Nat]
        OBVIOUS
      <4> QED
        BY <4>1, <4>2, <4>3
    <3>3. own' \in [Fetches -> Ids \union {NoId}]
      <4>1. CASE counter[timeMs[f]] + 1 < RemainderSize
        <5>1. counter[timeMs[f]] + 1 \in 1..RemainderSize - 1
          BY <4>1, <3>0
        <5>2. [timeMs |-> timeMs[f], remainder |-> counter[timeMs[f]] + 1] \in Ids
          BY <3>1, <5>1 DEF Ids
        <5> QED
          BY <2>3, <4>1, <5>2 DEF Increment
      <4>2. CASE ~(counter[timeMs[f]] + 1 < RemainderSize)
        BY <2>3, <4>2 DEF Increment
      <4> QED
        BY <4>1, <4>2
    <3> QED
      BY <2>3, <3>2, <3>3 DEF Increment
  <2>4. CASE Expire(f)
    <3>1. timeMs[f] \in Times /\ clock + Ttl \in Int
      BY <2>4 DEF Expire, StageOK
    <3> QED
      BY <3>1, <2>4 DEF Expire
  <2>5. CASE Save(f)
    BY <2>5 DEF Save
  <2>6. CASE Reread(f)
    BY <2>6 DEF Reread
  <2>7. CASE Fail(f)
    BY <2>7 DEF Fail
  <2>8. CASE Create(f)
    BY <2>8 DEF Create
  <2>9. CASE Saved(f)
    BY <2>9 DEF Saved
  <2>10. CASE Resend(f)
    BY <2>10 DEF Resend
  <2> QED
    BY <1>3, <2>1, <2>2, <2>3, <2>4, <2>5, <2>6, <2>7, <2>8, <2>9, <2>10 DEF Step
<1> QED
  BY <1>1, <1>2, <1>3 DEF Next

(* Every fetch keeps what its stage knows, whoever steps. *)
LEMMA StepStages ==
  IdsConsistent /\ [Next]_idVars => \A g \in Fetches : StageOK(g)'
<1> SUFFICES ASSUME IdsConsistent, [Next]_idVars, NEW g \in Fetches PROVE StageOK(g)'
  OBVIOUS
<1> USE NoIdIsNone, TimesAreIntegers, UniqueIdAssumption
<1>0. IdTypeOK /\ StageOK(g) /\ Skew[g] \in Int
  BY DEF IdsConsistent
<1>1. CASE UNCHANGED idVars
  BY <1>0, <1>1 DEF idVars, StageOK
<1>2. CASE Tick
  <2>1. clock' = clock + 1 /\ UNCHANGED <<at, timeMs, own>>
    BY <1>2 DEF Tick
  <2>2. at[g] = "increment" => clock - (timeMs[g] - Skew[g]) < MaxDelay
    BY <1>2 DEF Tick
  <2>3. clock \in Int /\ MaxDelay \in Int
    BY <1>0 DEF IdTypeOK
  <2>4. CASE at[g] \in {"increment", "expire"}
    <3>1. timeMs[g] \in Times /\ timeMs[g] \in Int /\ timeMs[g] <= clock + Skew[g]
      BY <1>0, <2>4 DEF StageOK
    <3>2. timeMs[g] <= clock + 1 + Skew[g]
      BY <1>0, <2>3, <3>1
    <3>3. at[g] = "increment" => clock + 1 <= timeMs[g] - Skew[g] + MaxDelay
      BY <1>0, <2>2, <2>3, <3>1
    <3> QED
      BY <1>0, <2>1, <2>4, <3>1, <3>2, <3>3 DEF StageOK
  <2>5. CASE at[g] \notin {"increment", "expire"}
    BY <1>0, <2>1, <2>5 DEF StageOK
  <2> QED
    BY <2>4, <2>5
<1>3. ASSUME NEW f \in Fetches, Step(f) PROVE StageOK(g)'
  <2> USE DEF IdTypeOK, StageOK, Return
  <2>1. CASE Find(f)
    BY <1>0, <2>1 DEF Find
  <2>2. CASE Miss(f)
    BY <1>0, <2>2 DEF Miss
  <2>3. CASE Increment(f)
    <3>1. own[f] = NoId
      BY <2>3 DEF Increment, IdsConsistent
    <3>2. [timeMs |-> timeMs[f], remainder |-> counter[timeMs[f]] + 1] # NoId
      <4>1. timeMs[f] \in Times
        BY <2>3 DEF Increment, IdsConsistent
      <4> QED
        BY <1>0, <4>1 DEF NoId
    <3> QED
      BY <1>0, <2>3, <3>1, <3>2 DEF Increment
  <2>4. CASE Expire(f)
    BY <1>0, <2>4 DEF Expire
  <2>5. CASE Save(f)
    BY <1>0, <2>5 DEF Save
  <2>6. CASE Reread(f)
    BY <1>0, <2>6 DEF Reread
  <2>7. CASE Fail(f)
    BY <1>0, <2>7 DEF Fail
  <2>8. CASE Create(f)
    BY <1>0, <2>8 DEF Create
  <2>9. CASE Saved(f)
    BY <1>0, <2>9 DEF Saved
  <2>10. CASE Resend(f)
    BY <1>0, <2>10 DEF Resend
  <2> QED
    BY <1>3, <2>1, <2>2, <2>3, <2>4, <2>5, <2>6, <2>7, <2>8, <2>9, <2>10 DEF Step
<1> QED
  BY <1>1, <1>2, <1>3 DEF Next

(* What was saved stays, and what was returned is what is saved. *)
LEMMA StepSame == IdsConsistent /\ [Next]_idVars => SameIdForAll'
<1> SUFFICES ASSUME IdsConsistent, [Next]_idVars PROVE SameIdForAll'
  OBVIOUS
<1> USE NoIdIsNone, UniqueIdAssumption
<1>0. IdTypeOK /\ SameIdForAll /\ \A f \in Fetches : StageOK(f)
  BY DEF IdsConsistent
<1> USE DEF IdTypeOK, SameIdForAll, Return
<1>1. CASE UNCHANGED idVars
  BY <1>0, <1>1 DEF idVars
<1>2. CASE Tick
  BY <1>0, <1>2 DEF Tick
<1>3. ASSUME NEW f \in Fetches, Step(f) PROVE SameIdForAll'
  <2>1. CASE Find(f)
    BY <1>0, <2>1 DEF Find
  <2>2. CASE Miss(f)
    BY <1>0, <2>2 DEF Miss
  <2>3. CASE Increment(f)
    BY <1>0, <2>3 DEF Increment
  <2>4. CASE Expire(f)
    BY <1>0, <2>4 DEF Expire
  <2>5. CASE Save(f)
    <3>1. own[f] # NoId
      BY <1>0, <2>5 DEF Save, StageOK
    <3> QED
      BY <1>0, <2>5, <3>1 DEF Save
  <2>6. CASE Reread(f)
    BY <1>0, <2>6 DEF Reread
  <2>7. CASE Fail(f)
    BY <1>0, <2>7 DEF Fail
  <2>8. CASE Create(f)
    BY <1>0, <2>8 DEF Create
  <2>9. CASE Saved(f)
    BY <1>0, <2>9 DEF Saved
  <2>10. CASE Resend(f)
    BY <1>0, <2>10 DEF Resend
  <2> QED
    BY <1>3, <2>1, <2>2, <2>3, <2>4, <2>5, <2>6, <2>7, <2>8, <2>9, <2>10 DEF Step
<1> QED
  BY <1>1, <1>2, <1>3 DEF Next

(* A counter that was dropped belongs to a millisecond that is over. *)
LEMMA DroppedIsOver ==
  ASSUME IdsConsistent, Tick, NEW t \in Times, expires[t] # Never, expires[t] <= clock'
  PROVE  ~Open(t)'
<1> USE TimesAreIntegers, UniqueIdAssumption
<1>1. PICK g \in Fetches : expires[t] >= t - Skew[g] + Ttl
  BY DEF IdsConsistent, CounterOK, Lasts
<1>2. clock' \in Int /\ t \in Int /\ expires[t] \in Int /\ Ttl \in Int /\ MaxDelay \in Int
  BY DEF IdsConsistent, IdTypeOK, Tick
<1>3. SUFFICES ASSUME NEW h \in Fetches, clock' <= t - Skew[h] + MaxDelay PROVE FALSE
  BY DEF Open
<1>4. Skew[g] \in Int /\ Skew[h] \in Int /\ Skew[g] - Skew[h] + MaxDelay < Ttl
  BY ClocksAgree
<1> QED
  BY <1>1, <1>2, <1>3, <1>4

(* The counters keep up with the ids that were made. *)
LEMMA StepCounters == IdsConsistent /\ [Next]_idVars => CounterOK'
<1> SUFFICES ASSUME IdsConsistent, [Next]_idVars PROVE CounterOK'
  OBVIOUS
<1> USE NoIdIsNone, TimesAreIntegers, UniqueIdAssumption
<1>0. IdTypeOK /\ CounterOK /\ \A f \in Fetches : StageOK(f)
  BY DEF IdsConsistent
<1>a. \A g \in Fetches : own[g] # NoId =>
        own[g].timeMs \in Times /\ own[g].remainder \in Int
  BY <1>0 DEF IdTypeOK, Ids
<1>b. counter \in [Times -> Nat] /\ expires \in [Times -> Int] /\ clock \in Int
  BY <1>0 DEF IdTypeOK
<1>1. CASE UNCHANGED <<clock, own, counter, expires>>
  BY <1>0, <1>1 DEF CounterOK, Counted, Lasts, Open
<1>2. CASE Tick
  <2>1. clock' = clock + 1 /\ UNCHANGED own
    BY <1>2 DEF Tick
  <2>2. \A t \in Times : Open(t)' => Open(t)
    BY <1>b, <2>1 DEF Open
  <2>3. \A t \in Times : expires'[t] # Never => expires'[t] = expires[t]
    BY <1>2 DEF Tick
  <2>4. \A t \in Times : Open(t)' => counter'[t] = counter[t]
    BY <1>2, DroppedIsOver DEF Tick
  <2>5. ASSUME NEW g \in Fetches PROVE Counted(g)'
    <3>1. SUFFICES ASSUME own[g] # NoId, Open(own[g].timeMs)'
                   PROVE  own[g].remainder <= counter'[own[g].timeMs]
      BY <2>1 DEF Counted
    <3>2. PICK t \in Times : t = own[g].timeMs
      BY <1>a, <3>1
    <3>3. Open(t)'
      BY <2>1, <3>1, <3>2
    <3>4. Open(t) /\ counter'[t] = counter[t]
      BY <2>2, <2>4, <3>3
    <3>5. Counted(g)
      BY <1>0 DEF CounterOK
    <3> QED
      BY <3>1, <3>2, <3>4, <3>5 DEF Counted
  <2>6. ASSUME NEW t \in Times PROVE Lasts(t)'
    BY <1>0, <2>3 DEF CounterOK, Lasts
  <2> QED
    BY <2>5, <2>6 DEF CounterOK
<1>3. ASSUME NEW f \in Fetches, Increment(f) PROVE CounterOK'
  <2>1. PICK t \in Times : t = timeMs[f]
    BY <1>0, <1>3 DEF Increment, StageOK
  <2>2. UNCHANGED <<clock, expires>> /\ counter' = [counter EXCEPT ![t] = counter[t] + 1]
    BY <1>3, <2>1 DEF Increment
  <2>3. counter'[t] = counter[t] + 1 /\ \A u \in Times \ {t} : counter'[u] = counter[u]
    BY <1>b, <2>2
  <2>4. \A u \in Times : Open(u)' => Open(u)
    BY <2>2 DEF Open
  <2>5. ASSUME NEW g \in Fetches PROVE Counted(g)'
    <3>1. CASE own'[g] = own[g]
      <4>1. SUFFICES ASSUME own[g] # NoId, Open(own[g].timeMs)'
                     PROVE  own[g].remainder <= counter'[own[g].timeMs]
        BY <3>1 DEF Counted
      <4>2. PICK u \in Times : u = own[g].timeMs
        BY <1>a, <4>1
      <4>3. Open(u)
        BY <2>2, <3>1, <4>1, <4>2 DEF Open
      <4>4. own[g].remainder <= counter[u] /\ own[g].remainder \in Int
        BY <1>0, <1>a, <4>1, <4>2, <4>3 DEF CounterOK, Counted
      <4>5. counter[u] \in Int
        BY <1>b
      <4>6. counter'[u] = counter[u] \/ counter'[u] = counter[u] + 1
        BY <2>3
      <4> QED
        BY <4>2, <4>4, <4>5, <4>6
    <3>2. CASE own'[g] # own[g]
      <4>1. own'[g] = [timeMs |-> t, remainder |-> counter[t] + 1]
        BY <1>0, <1>3, <2>1, <3>2 DEF Increment, IdTypeOK
      <4>2. own'[g].timeMs = t /\ own'[g].remainder = counter[t] + 1
        BY <4>1
      <4>3. counter[t] \in Int
        BY <1>b
      <4> QED
        BY <2>3, <4>2, <4>3 DEF Counted
    <3> QED
      BY <3>1, <3>2
  <2>6. ASSUME NEW u \in Times PROVE Lasts(u)'
    BY <1>0, <2>2 DEF CounterOK, Lasts
  <2> QED
    BY <2>5, <2>6 DEF CounterOK
<1>4. ASSUME NEW f \in Fetches, Expire(f) PROVE CounterOK'
  <2>1. UNCHANGED <<clock, own, counter>>
    BY <1>4 DEF Expire
  <2>2. PICK t \in Times : t = timeMs[f] /\ t <= clock + Skew[f]
    BY <1>0, <1>4 DEF Expire, StageOK
  <2>3. clock + Ttl >= t - Skew[f] + Ttl
    <3>1. t \in Int /\ Skew[f] \in Int /\ Ttl \in Int /\ clock \in Int
      BY <1>b
    <3> QED
      BY <2>2, <3>1
  <2>4. \A u \in Times : expires'[u] = expires[u] \/ (u = t /\ expires'[u] = clock + Ttl)
    BY <1>b, <1>4, <2>2 DEF Expire
  <2>5. ASSUME NEW u \in Times PROVE Lasts(u)'
    BY <1>0, <2>3, <2>4 DEF CounterOK, Lasts
  <2>6. ASSUME NEW g \in Fetches PROVE Counted(g)'
    BY <1>0, <2>1 DEF CounterOK, Counted, Open
  <2> QED
    BY <2>5, <2>6 DEF CounterOK
<1>5. ASSUME NEW f \in Fetches, Step(f), ~Increment(f), ~Expire(f)
      PROVE  UNCHANGED <<clock, own, counter, expires>>
  BY <1>5 DEF Step, Find, Miss, Create, Save, Saved, Reread, Resend, Fail
<1> QED
  BY <1>1, <1>2, <1>3, <1>4, <1>5 DEF Next, idVars

(* No id is made twice, and every saved id was made for its entity. *)
LEMMA StepOwn == IdsConsistent /\ [Next]_idVars => OwnOK'
<1> SUFFICES ASSUME IdsConsistent, [Next]_idVars PROVE OwnOK'
  OBVIOUS
<1> USE NoIdIsNone, TimesAreIntegers, UniqueIdAssumption
<1>0. IdTypeOK /\ CounterOK /\ OwnOK /\ \A f \in Fetches : StageOK(f)
  BY DEF IdsConsistent
<1>1. CASE UNCHANGED <<own, saved>>
  BY <1>0, <1>1 DEF OwnOK
<1>2. ASSUME NEW f \in Fetches, Increment(f) PROVE OwnOK'
  <2> DEFINE t == timeMs[f]
             new == [timeMs |-> t, remainder |-> counter[t] + 1]
  <2>1. t \in Times /\ t \in Int /\ clock <= t - Skew[f] + MaxDelay /\ own[f] = NoId
    BY <1>0, <1>2 DEF Increment, StageOK
  <2>2. counter[t] \in Nat /\ Open(t)
    BY <1>0, <2>1 DEF IdTypeOK, Open
  <2>3. ASSUME NEW g \in Fetches, own[g] = new PROVE FALSE
    <3>1. own[g].timeMs = t /\ own[g].remainder = counter[t] + 1
      BY <2>3
    <3>2. own[g] # NoId
      BY <2>2, <3>1 DEF NoId
    <3>3. own[g].remainder <= counter[t]
      BY <1>0, <2>2, <3>1, <3>2 DEF CounterOK, Counted
    <3> QED
      BY <2>2, <3>1, <3>3
  <2>4. UNCHANGED saved /\ \A g \in Fetches : own'[g] = own[g] \/ (g = f /\ own'[g] = new)
    BY <1>0, <1>2 DEF Increment, IdTypeOK
  <2>5. \A g, h \in Fetches : own'[g] = own'[h] /\ own'[g] # NoId => g = h
    BY <1>0, <2>3, <2>4 DEF OwnOK
  <2>6. ASSUME NEW e \in Entities, saved'[e] # NoId
        PROVE  \E g \in Fetches : Wants[g] = e /\ own'[g] = saved'[e]
    <3>1. PICK g \in Fetches : Wants[g] = e /\ own[g] = saved[e]
      BY <1>0, <2>4, <2>6 DEF OwnOK
    <3>2. g # f
      BY <2>1, <2>4, <2>6, <3>1
    <3> QED
      BY <2>4, <3>1, <3>2
  <2> QED
    BY <2>5, <2>6 DEF OwnOK
<1>3. ASSUME NEW f \in Fetches, Save(f) PROVE OwnOK'
  <2>1. UNCHANGED own
    BY <1>3 DEF Save
  <2>2. Wants[f] \in Entities
    OBVIOUS
  <2>3. \A e \in Entities : saved'[e] = saved[e] \/ (e = Wants[f] /\ saved'[e] = own[f])
    BY <1>0, <1>3, <2>2 DEF Save, IdTypeOK
  <2> QED
    BY <1>0, <2>1, <2>3 DEF OwnOK
<1>4. ASSUME NEW f \in Fetches, Step(f), ~Increment(f), ~Save(f)
      PROVE  UNCHANGED <<own, saved>>
  BY <1>4 DEF Step, Find, Miss, Create, Expire, Saved, Reread, Resend, Fail
<1>5. CASE Tick
  BY <1>1, <1>5 DEF Tick
<1> QED
  BY <1>1, <1>2, <1>3, <1>4, <1>5 DEF Next, idVars

-----------------------------------------------------------------------------
(* The ids of all fetches fit together in every behaviour. *)
THEOREM Consistency == Spec => []IdsConsistent
<1>1. IdsConsistent /\ [Next]_idVars => IdsConsistent'
  BY StepTypes, StepStages, StepCounters, StepOwn, StepSame DEF IdsConsistent
<1> QED
  BY <1>1, InitConsistent, PTL DEF Spec

(* The variables keep their types. *)
THEOREM TypeCorrect == Spec => []IdTypeOK
<1>1. IdsConsistent => IdTypeOK
  BY DEF IdsConsistent
<1> QED
  BY <1>1, Consistency, PTL

(* Whoever asks for an entity gets the one id that is saved for it. *)
THEOREM Agreement == Spec => []SameIdForAll
<1>1. IdsConsistent => SameIdForAll
  BY DEF IdsConsistent
<1> QED
  BY <1>1, Consistency, PTL

(* No two entities share an id. *)
THEOREM Uniqueness == Spec => []IdsAreUnique
<1>1. IdsConsistent => IdsAreUnique
  BY DEF IdsConsistent, OwnOK, IdsAreUnique
<1> QED
  BY <1>1, Consistency, PTL

(* The id of an entity never changes. *)
THEOREM Stability == Spec => IdIsStable
<1>1. IdsConsistent /\ [Next]_idVars =>
        [\A e \in Entities : saved[e] # NoId => saved'[e] = saved[e]]_idVars
  <2> SUFFICES ASSUME IdsConsistent, Next, NEW e \in Entities, saved[e] # NoId
              PROVE  saved'[e] = saved[e]
    OBVIOUS
  <2>1. saved \in [Entities -> Ids \union {NoId}]
    BY DEF IdsConsistent, IdTypeOK
  <2>2. ASSUME NEW f \in Fetches, Save(f) PROVE saved'[e] = saved[e]
    BY <2>1, <2>2, UniqueIdAssumption DEF Save
  <2>3. ASSUME NEW f \in Fetches, Step(f), ~Save(f) PROVE UNCHANGED saved
    BY <2>3 DEF Step, Find, Miss, Create, Increment, Expire, Saved, Reread, Resend, Fail
  <2> QED
    BY <2>2, <2>3 DEF Next, Tick
<1> QED
  BY <1>1, Consistency, PTL DEF Spec, IdIsStable

-----------------------------------------------------------------------------
(* Refinement: the ids of entities come from an allocator.                 *)

(* A fetch is told an id only when it is done.                             *)
ToldWhenDone == \A f \in Fetches : result[f] # NoId => at[f] = "done"

(* That stays so. *)
LEMMA ToldKept == IdTypeOK /\ ToldWhenDone /\ [Next]_idVars => ToldWhenDone'
<1> SUFFICES ASSUME IdTypeOK, ToldWhenDone, [Next]_idVars, NEW g \in Fetches, result'[g] # NoId
             PROVE  at'[g] = "done"
  BY DEF ToldWhenDone
<1>0. at \in [Fetches -> Stages] /\ DOMAIN result = Fetches
  BY DEF IdTypeOK
<1>1. ASSUME NEW f \in Fetches, Step(f) PROVE at'[g] = "done"
  <2>1. CASE UNCHANGED result /\ at[g] = "done"
    <3>1. at[f] # "done"
      BY <1>1 DEF Step, Find, Miss, Create, Increment, Expire, Save, Saved, Reread, Resend, Fail
    <3>2. at'[g] = at[g]
      BY <1>0, <1>1, <2>1, <3>1
         DEF Step, Find, Miss, Create, Increment, Expire, Save, Saved, Reread, Resend, Fail, Return
    <3> QED
      BY <2>1, <3>2
  <2>2. CASE UNCHANGED result
    BY <2>1, <2>2 DEF ToldWhenDone
  <2>3. ASSUME NEW id, Return(f, id) PROVE at'[g] = "done"
    BY <1>0, <2>3 DEF Return, ToldWhenDone
  <2> QED
    BY <1>1, <2>2, <2>3 DEF Step, Find, Miss, Create, Increment, Expire, Save, Saved, Reread, Resend, Fail
<1>2. CASE UNCHANGED <<at, result>>
  BY <1>2 DEF ToldWhenDone
<1> QED
  BY <1>1, <1>2 DEF Next, Tick, idVars

(* The SET NX that wins allocates, whether or not its answer arrives; every*)
(* answer with an id tells it, and no other command is noticed.            *)
LEMMA StepAllocates ==
  ASSUME IdsConsistent, ToldWhenDone, [Next]_idVars
  PROVE  [Allocator!Next]_<<saved, result>>
<1> USE UniqueIdAssumption
<1>0. /\ saved \in [Entities -> Ids \union {NoId}] /\ own \in [Fetches -> Ids \union {NoId}]
      /\ DOMAIN result = Fetches
  BY DEF IdsConsistent, IdTypeOK
<1>1. ASSUME NEW f \in Fetches, Save(f), saved[Wants[f]] = NoId PROVE Allocator!Allocate(f)
  <2>1. own[f] \in Ids /\ own[f] # NoId
    BY <1>0, <1>1 DEF Save, IdsConsistent, StageOK
  <2>2. ASSUME NEW e \in Entities, saved[e] = own[f] PROVE FALSE
    <3>1. PICK g \in Fetches : Wants[g] = e /\ own[g] = saved[e]
      BY <2>1, <2>2 DEF IdsConsistent, OwnOK
    <3>2. g = f
      BY <2>1, <2>2, <3>1 DEF IdsConsistent, OwnOK
    <3> QED
      BY <1>1, <2>1, <2>2, <3>1, <3>2
  <2>3. /\ saved' = [saved EXCEPT ![Wants[f]] = own[f]] /\ saved'[Wants[f]] = own[f]
        /\ UNCHANGED result
    BY <1>0, <1>1 DEF Save
  <2>4. result[f] = NoId
    BY <1>1 DEF Save, ToldWhenDone
  <2> QED
    BY <1>1, <2>1, <2>2, <2>3, <2>4 DEF Allocator!Allocate
<1>2. ASSUME NEW f \in Fetches, Find(f) \/ Saved(f) \/ Reread(f) PROVE Allocator!Tell(f)
  <2>1. saved[Wants[f]] # NoId /\ (Saved(f) => own[f] = saved[Wants[f]])
    BY <1>2 DEF Find, Saved, Reread, IdsConsistent, SameIdForAll
  <2>2. result[f] = NoId
    BY <1>2 DEF Find, Saved, Reread, ToldWhenDone
  <2> QED
    BY <1>2, <2>1, <2>2 DEF Find, Saved, Reread, Return, Allocator!Tell
<1>3. ASSUME NEW f \in Fetches, Step(f), ~Find(f), ~Saved(f), ~Reread(f),
             ~(Save(f) /\ saved[Wants[f]] = NoId)
      PROVE  UNCHANGED <<saved, result>>
  BY <1>3 DEF Step, Miss, Create, Increment, Expire, Save, Resend, Fail
<1> QED
  BY <1>1, <1>2, <1>3 DEF Next, Tick, idVars, Allocator!Next

(* The id service implements the allocator: an entity gets its id at one   *)
(* moment, an id nobody had, and each call that is answered is told that   *)
(* id, however the commands of its fetches interleave, whenever redis drops*)
(* a counter, and whichever commands fail: before or after they took       *)
(* effect, the SET NX that brought the id about included.                  *)
THEOREM Allocation == Spec => ImplementsAllocator
<1>1. Init => Allocator!Init
  BY DEF Init, Allocator!Init
<1>2. Init => ToldWhenDone
  BY DEF Init, ToldWhenDone
<1>3. IdsConsistent => IdTypeOK
  BY DEF IdsConsistent
<1>4. Spec => []ToldWhenDone
  BY <1>2, <1>3, ToldKept, Consistency, PTL DEF Spec
<1> QED
  BY <1>1, <1>4, StepAllocates, Consistency, PTL DEF Spec, ImplementsAllocator, Allocator!Spec

-----------------------------------------------------------------------------
(* All services on one redis. Its clock drops the keys of all of them at   *)
(* the same moment; whatever else a service does leaves the others' keys   *)
(* alone.                                                                  *)
ServicesInit == Init /\ RateInit /\ SessInit /\ CountInit /\ LabelInit

ServicesTick == RateTick /\ SessTick /\ CountTick /\ LabelTick /\ Tick

RateCall  == \E take \in Takes, t \in EventTimes : RateFetch(take, t)
SessCall  == \E take \in Takes, t \in EventTimes : SessionFails(take, t) \/ Sessionize(take, t)
CountCall ==
  \E e \in Bumps :
    Mutate(e) \/ \E w \in Windows : Bump(e, w) \/ ExpireKey(e, w) \/ BumpFails(e, w)
LabelCall ==
  \/ \E c \in Adds : SetLabel(c) \/ ExpireLabel(c)
  \/ \E c \in Removes : DeleteLabel(c)
  \/ \E c \in Adds \union Removes : CallbackFails(c)
IdCall == \E f \in Fetches : Step(f)

ServicesNext ==
  \/ ServicesTick
  \/ RateCall  /\ UNCHANGED <<sessVars, countVars, labelVars, fetchVars>>
  \/ SessCall  /\ UNCHANGED <<rateVars, countVars, labelVars, fetchVars>>
  \/ CountCall /\ UNCHANGED <<rateVars, sessVars, labelVars, fetchVars>>
  \/ LabelCall /\ UNCHANGED <<rateVars, sessVars, countVars, fetchVars>>
  \/ IdCall    /\ UNCHANGED <<rateVars, sessVars, countVars, labelVars>>

redisVars == <<clock, rateVars, sessVars, countVars, labelVars, idVars>>

ServicesSpec == ServicesInit /\ [][ServicesNext]_redisVars

(* A call leaves the clock alone.                                          *)
LEMMA CallsTakeNoTime ==
  RateCall \/ SessCall \/ CountCall \/ LabelCall \/ IdCall => UNCHANGED clock
<1>1. RateCall => UNCHANGED clock
  BY DEF RateCall, RateFetch, Peek, Take
<1>2. SessCall => UNCHANGED clock
  BY DEF SessCall, SessionFails, Sessionize
<1>3. CountCall => UNCHANGED clock
  BY DEF CountCall, Mutate, Bump, ExpireKey, BumpFails
<1>4. LabelCall => UNCHANGED clock
  BY DEF LabelCall, SetLabel, ExpireLabel, DeleteLabel, CallbackFails
<1>5. IdCall => UNCHANGED clock
  BY DEF IdCall, Step, Find, Miss, Create, Increment, Expire, Save, Saved, Reread, Resend, Fail
<1> QED
  BY <1>1, <1>2, <1>3, <1>4, <1>5

(* To each service, a step of the others is a step of its own or none.     *)
LEMMA ServicesStep ==
  ASSUME [ServicesNext]_redisVars
  PROVE  /\ [RateNext]_<<clock, rateVars>>
         /\ [SessNext]_<<clock, sessVars>>
         /\ [CountNext]_<<clock, countVars>>
         /\ [LabelNext]_<<clock, labelVars>>
         /\ [Next]_idVars
<1>1. CASE ServicesTick
  BY <1>1 DEF ServicesTick, RateNext, SessNext, CountNext, LabelNext, Next
<1>2. CASE RateCall /\ UNCHANGED <<sessVars, countVars, labelVars, fetchVars>>
  <2>1. RateNext
    BY <1>2 DEF RateCall, RateNext
  <2> QED
    BY <1>2, <2>1, CallsTakeNoTime DEF idVars, fetchVars
<1>3. CASE SessCall /\ UNCHANGED <<rateVars, countVars, labelVars, fetchVars>>
  <2>1. SessNext
    BY <1>3 DEF SessCall, SessNext
  <2> QED
    BY <1>3, <2>1, CallsTakeNoTime DEF idVars, fetchVars
<1>4. CASE CountCall /\ UNCHANGED <<rateVars, sessVars, labelVars, fetchVars>>
  <2>1. CountNext
    BY <1>4 DEF CountCall, CountNext
  <2> QED
    BY <1>4, <2>1, CallsTakeNoTime DEF idVars, fetchVars
<1>5. CASE LabelCall /\ UNCHANGED <<rateVars, sessVars, countVars, fetchVars>>
  <2>1. LabelNext
    BY <1>5 DEF LabelCall, LabelNext
  <2> QED
    BY <1>5, <2>1, CallsTakeNoTime DEF idVars, fetchVars
<1>6. CASE IdCall /\ UNCHANGED <<rateVars, sessVars, countVars, labelVars>>
  <2>1. Next
    BY <1>6 DEF IdCall, Next
  <2> QED
    BY <1>6, <2>1, CallsTakeNoTime
<1>7. CASE UNCHANGED redisVars
  BY <1>7 DEF redisVars, idVars
<1> QED
  BY <1>1, <1>2, <1>3, <1>4, <1>5, <1>6, <1>7 DEF ServicesNext

(* The services on one redis do what each of them is specified to do,      *)
(* however their calls interleave: what was proved of each of them by      *)
(* itself holds when all of them are used.                                 *)
THEOREM ServicesAreIndependent ==
  ServicesSpec => RateSpec /\ SessSpec /\ CountSpec /\ LabelSpec /\ Spec
<1>1. ServicesInit => Init /\ clock = 0 /\ RateInit /\ SessInit /\ CountInit /\ LabelInit
  BY DEF ServicesInit, Init
<1> QED
  BY <1>1, ServicesStep, PTL DEF ServicesSpec, RateSpec, SessSpec, CountSpec, LabelSpec, Spec


(***************************************************************************)
(* The specification TLC checks lets one service be used in a behaviour.   *)
(* The others have no keys, so that they do not notice that time passes.   *)
(***************************************************************************)
RateIdle  == bucket = NoBucket /\ dies = Never
SessIdle  == kept = NoSession /\ keptTill = Never
CountIdle ==
  /\ stage = [e \in Bumps |-> [w \in Windows |-> "idle"]]
  /\ inBucket = [k \in Keys |-> {}]
  /\ keyTill = [k \in Keys |-> Never]
LabelIdle == labelTill = Never
IdIdle ==
  /\ at = [f \in Fetches |-> "start"]
  /\ counter = [t \in Times |-> 0]
  /\ expires = [t \in Times |-> Never]

OthersIdle ==
  /\ asked \in Rulesets
  /\ service # "rateLimit" => RateIdle
  /\ service # "session"   => SessIdle
  /\ service # "counter"   => CountIdle
  /\ service # "label"     => LabelIdle
  /\ service # "entityId"  => IdIdle

(* To a service that is idle, the passing of time is a step.               *)
LEMMA RateIdles == RateIdle /\ PassTime /\ UNCHANGED rateVars => RateTick
BY DEF RateIdle, RateTick, rateVars, Dropped

(* The same of sessionize(). *)
LEMMA SessIdles == SessIdle /\ PassTime /\ UNCHANGED sessVars => SessTick
BY DEF SessIdle, SessTick, sessVars, Dropped

(* The same of a counter. *)
LEMMA CountIdles ==
  ASSUME asked \in Rulesets, CountIdle, PassTime, UNCHANGED countVars
  PROVE  CountTick
<1>1. asked \subseteq Windows
  BY DEF Windows
<1>2. \A e \in Bumps, w \in asked : InTime(e, w)
  BY <1>1 DEF CountIdle, InTime
<1>3. \A k \in Keys : ~Dropped(keyTill[k])
  BY DEF CountIdle, Dropped
<1>4. {k \in Keys : Dropped(keyTill[k])} = {}
  BY <1>3
<1>5. /\ inBucket' = [k \in Keys |-> IF k \in {} THEN {} ELSE inBucket[k]]
      /\ keyTill' = [k \in Keys |-> IF k \in {} THEN Never ELSE keyTill[k]]
  BY DEF CountIdle, countVars
<1> QED
  BY <1>2, <1>4, <1>5 DEF CountTick, countVars

(* The same of a label. *)
LEMMA LabelIdles == LabelIdle /\ PassTime /\ UNCHANGED labelVars => LabelTick
BY DEF LabelIdle, LabelTick, labelVars, Dropped

(* The same of the ids. *)
LEMMA IdIdles ==
  ASSUME IdIdle, PassTime, UNCHANGED fetchVars
  PROVE  Tick
<1>1. \A f \in Fetches : at[f] # "increment"
  BY DEF IdIdle
<1>2. {t \in Times : expires[t] # Never /\ expires[t] <= clock'} = {}
  BY DEF IdIdle
<1>3. /\ counter' = [t \in Times |-> IF t \in {} THEN 0 ELSE counter[t]]
      /\ expires' = [t \in Times |-> IF t \in {} THEN Never ELSE expires[t]]
  BY DEF IdIdle, fetchVars
<1> QED
  BY <1>1, <1>2, <1>3 DEF Tick, PassTime, fetchVars

(* In every tick of a service the clock is one later.                      *)
LEMMA TicksPass == RateTick \/ SessTick \/ CountTick \/ LabelTick \/ Tick => PassTime
BY DEF RateTick, SessTick, CountTick, LabelTick, Tick, PassTime

(* What a service does while the others are idle, all of them could do.    *)
LEMMA OneServiceStep ==
  ASSUME OthersIdle, [MCNext]_mcVars
  PROVE  [ServicesNext]_redisVars
<1>1. CASE service = "rateLimit" /\ RateNext
           /\ UNCHANGED <<sessVars, countVars, labelVars, fetchVars>>
  <2>1. CASE RateTick
    BY <1>1, <2>1, TicksPass, SessIdles, CountIdles, LabelIdles, IdIdles
       DEF OthersIdle, ServicesNext, ServicesTick
  <2>2. CASE RateCall
    BY <1>1, <2>2 DEF ServicesNext
  <2> QED
    BY <1>1, <2>1, <2>2 DEF RateNext, RateCall
<1>2. CASE service = "session" /\ SessNext
           /\ UNCHANGED <<rateVars, countVars, labelVars, fetchVars>>
  <2>1. CASE SessTick
    BY <1>2, <2>1, TicksPass, RateIdles, CountIdles, LabelIdles, IdIdles
       DEF OthersIdle, ServicesNext, ServicesTick
  <2>2. CASE SessCall
    BY <1>2, <2>2 DEF ServicesNext
  <2> QED
    BY <1>2, <2>1, <2>2 DEF SessNext, SessCall
<1>3. CASE service = "counter" /\ CountNext
           /\ UNCHANGED <<rateVars, sessVars, labelVars, fetchVars>>
  <2>1. CASE CountTick
    BY <1>3, <2>1, TicksPass, RateIdles, SessIdles, LabelIdles, IdIdles
       DEF OthersIdle, ServicesNext, ServicesTick
  <2>2. CASE CountCall
    BY <1>3, <2>2 DEF ServicesNext
  <2> QED
    BY <1>3, <2>1, <2>2 DEF CountNext, CountCall
<1>4. CASE service = "label" /\ LabelNext
           /\ UNCHANGED <<rateVars, sessVars, countVars, fetchVars>>
  <2>1. CASE LabelTick
    BY <1>4, <2>1, TicksPass, RateIdles, SessIdles, CountIdles, IdIdles
       DEF OthersIdle, ServicesNext, ServicesTick
  <2>2. CASE LabelCall
    BY <1>4, <2>2 DEF ServicesNext
  <2> QED
    BY <1>4, <2>1, <2>2 DEF LabelNext, LabelCall
<1>5. CASE service = "entityId" /\ Next
           /\ UNCHANGED <<rateVars, sessVars, countVars, labelVars>>
  <2>1. CASE Tick
    BY <1>5, <2>1, TicksPass, RateIdles, SessIdles, CountIdles, LabelIdles
       DEF OthersIdle, ServicesNext, ServicesTick
  <2>2. CASE IdCall
    BY <1>5, <2>2 DEF ServicesNext
  <2> QED
    BY <1>5, <2>1, <2>2 DEF Next, IdCall
<1>6. CASE UNCHANGED mcVars
  BY <1>6 DEF mcVars, redisVars
<1> QED
  BY <1>1, <1>2, <1>3, <1>4, <1>5, <1>6 DEF MCNext

(* The others stay idle. *)
LEMMA OthersStayIdle == OthersIdle /\ [MCNext]_mcVars => OthersIdle'
<1> SUFFICES ASSUME OthersIdle, [MCNext]_mcVars PROVE OthersIdle'
  OBVIOUS
<1>1. UNCHANGED service
  BY DEF MCNext, mcVars
<1>2. UNCHANGED asked
  BY DEF MCNext, mcVars, countVars, CountNext, CountTick, Mutate, Bump, ExpireKey, BumpFails
<1>3. /\ service # "rateLimit" => UNCHANGED <<bucket, dies>>
      /\ service # "session"   => UNCHANGED <<kept, keptTill>>
      /\ service # "counter"   => UNCHANGED <<stage, inBucket, keyTill>>
      /\ service # "label"     => UNCHANGED labelTill
      /\ service # "entityId"  => UNCHANGED <<at, counter, expires>>
  BY DEF MCNext, mcVars, rateVars, sessVars, countVars, labelVars, fetchVars, idVars
<1> QED
  BY <1>1, <1>2, <1>3 DEF OthersIdle, RateIdle, SessIdle, CountIdle, LabelIdle, IdIdle

(* What TLC checks of each service by itself is a use of all services.     *)
THEOREM OneServiceOfAll == MCSpec => ServicesSpec
<1>1. MCInit => ServicesInit /\ OthersIdle
  BY DEF MCInit, ServicesInit, OthersIdle, RateIdle, SessIdle, CountIdle, LabelIdle, IdIdle,
         Init, RateInit, SessInit, CountInit, LabelInit
<1>2. MCSpec => []OthersIdle
  BY <1>1, OthersStayIdle, PTL DEF MCSpec
<1> QED
  BY <1>1, <1>2, OneServiceStep, PTL DEF MCSpec, ServicesSpec

(* All variables of all services keep their types, although the services   *)
(* share the clock.                                                        *)
THEOREM ServicesTypes == ServicesSpec => []RedisTypeOK
<1>1. RateInv => RateTypeOK
  BY DEF RateInv
<1>2. SessInv => SessTypeOK
  BY DEF SessInv
<1>3. CountInv => CountTypeOK
  BY DEF CountInv
<1>4. LabelInv => LabelTypeOK
  BY DEF LabelInv
<1> QED
  BY <1>1, <1>2, <1>3, <1>4, ServicesAreIndependent, RateConsistent, SessionConsistent,
     CounterConsistent, LabelConsistent, PTL DEF RedisTypeOK

(* What the services promise they keep while others use the same redis, by *)
(* calls in any order: no promise rests on a service being left alone.     *)
THEOREM ServicesAreRight ==
  ServicesSpec => /\ [](/\ RateWithinBucket /\ ExpiryIsHarmless
                        /\ LimitedForACause /\ StrictHolds
                        /\ SessionIsTheChain
                        /\ CountersAreRight /\ KeysExpire
                        /\ LabelLasts
                        /\ SameIdForAll /\ IdsAreUnique)
                  /\ ImplementsAllocator
BY ServicesAreIndependent, BucketNotOverdrawn, ExpiryGivesNothing, NobodyLimitedWithoutCause,
   StrictIsStrict, SessionsAreChains, CountsRight, CountersExpire, LabelsLast, Agreement,
   Uniqueness, Allocation, PTL

=============================================================================
