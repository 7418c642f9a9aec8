---------------------------- MODULE SemaphoreProofs ----------------------------
(***************************************************************************)
(* The semaphore, for any finite set of requests, any limits and whichever *)
(* requests may time out.                                                  *)
(*                                                                         *)
(* The inductive invariant is the conjunction of the two invariants the    *)
(* runs check: the queue alone does not bound the count from below, which  *)
(* decrement() needs, and the count alone does not know that whoever is    *)
(* handed a permit had none.                                               *)
(***************************************************************************)
EXTENDS Semaphore, FunctionTheorems, FiniteSetTheorems, SequenceTheorems, TLAPS

(* The queue and who is in it: the part of NoIdlePermit that does not      *)
(* speak of permits.                                                       *)
QueueOK ==
  /\ \A i, j \in 1..Len(resolvers) : resolvers[i] = resolvers[j] => i = j
  /\ \A i \in 1..Len(resolvers) : status[resolvers[i]] \in {"waiting", "refused"}
  /\ \A r \in Requests : status[r] = "waiting" => \E i \in 1..Len(resolvers) : resolvers[i] = r

SemInv == NoIdlePermit /\ HoldersAreCounted

(* What Decrement and SetMax have in common: the first k of the queue are  *)
(* granted, starting from the statuses st.                                 *)
First(k) == {resolvers[i] : i \in 1..k}
Granting(st, k) ==
  /\ resolvers' = SubSeq(resolvers, k + 1, Len(resolvers))
  /\ status' = Passed(st, First(k))

-----------------------------------------------------------------------------
(* Lemmas about sequences.                                                 *)

(* What is left of a queue without its first k. *)
LEMMA RestOfQueue ==
  ASSUME NEW S, NEW q \in Seq(S), NEW k \in 0..Len(q)
  PROVE  LET rest == SubSeq(q, k + 1, Len(q))
         IN /\ rest \in Seq(S)
            /\ Len(rest) = Len(q) - k
            /\ \A i \in 1..Len(q) - k : rest[i] = q[i + k]
<1>1. Len(q) \in Nat /\ k \in Nat /\ k <= Len(q)
  OBVIOUS
<1>2. \A i \in (k + 1)..Len(q) : q[i] \in S
  BY <1>1
<1> QED
  BY <1>1, <1>2, SubSeqProperties

(* The first k of a queue are at most k, and k if none is in it twice. *)
LEMMA CountFirst ==
  ASSUME NEW S, NEW q \in Seq(S), NEW k \in 0..Len(q)
  PROVE  LET first == {q[i] : i \in 1..k}
         IN /\ IsFiniteSet(first)
            /\ Cardinality(first) <= k
            /\ (\A i, j \in 1..Len(q) : q[i] = q[j] => i = j) => Cardinality(first) = k
<1> DEFINE first == {q[i] : i \in 1..k}
           f == [i \in 1..k |-> q[i]]
<1>1. k \in Nat /\ Len(q) \in Nat /\ k <= Len(q)
  OBVIOUS
<1>2. IsFiniteSet(1..k) /\ Cardinality(1..k) = k
  BY <1>1, FS_Interval
<1>3. f \in Surjection(1..k, first)
  BY DEF Surjection
<1>4. IsFiniteSet(first) /\ Cardinality(first) <= k
  BY <1>2, <1>3, FS_Surjection
<1>5. ASSUME \A i, j \in 1..Len(q) : q[i] = q[j] => i = j PROVE Cardinality(first) = k
  <2>1. f \in Injection(1..k, first)
    <3>1. \A i, j \in 1..k : f[i] = f[j] => i = j
      BY <1>1, <1>5
    <3> QED
      BY <3>1 DEF Injection, IsInjective
  <2> QED
    BY <1>2, <1>3, <2>1, FS_Surjection
<1> QED
  BY <1>4, <1>5

-----------------------------------------------------------------------------
(* NoIdlePermit: the queue.                                                *)

(* What the lemmas below use of the invariant.                             *)
LEMMA Types == SemInv => SemTypeOK /\ QueueOK /\ (resolvers # << >> => ~HasRoom)
BY DEF SemInv, NoIdlePermit, QueueOK

(* Granting the first k keeps the queue in order, if the statuses it starts*)
(* from differ from the current ones only in what is not in the queue.     *)
LEMMA GrantingQueue ==
  ASSUME SemTypeOK, QueueOK,
         NEW k \in 0..Len(resolvers),
         NEW st \in [Requests -> Statuses],
         \A r \in Requests : status[r] \in {"waiting", "refused"} => st[r] = status[r],
         \A r \in Requests : st[r] = "waiting" => status[r] = "waiting",
         Granting(st, k)
  PROVE  /\ resolvers' \in Seq(Requests)
         /\ status' \in [Requests -> Statuses]
         /\ Len(resolvers') = Len(resolvers) - k
         /\ QueueOK'
<1>0. resolvers \in Seq(Requests) /\ Len(resolvers) \in Nat /\ k \in Nat
  BY DEF SemTypeOK
<1>1. /\ resolvers' \in Seq(Requests)
      /\ Len(resolvers') = Len(resolvers) - k
      /\ \A i \in 1..Len(resolvers) - k : resolvers'[i] = resolvers[i + k]
  BY <1>0, RestOfQueue DEF Granting
<1>2. status' \in [Requests -> Statuses]
  BY DEF Granting, Passed, Statuses
<1>3. \A i, j \in 1..Len(resolvers') : resolvers'[i] = resolvers'[j] => i = j
  <2> SUFFICES ASSUME NEW i \in 1..Len(resolvers'), NEW j \in 1..Len(resolvers'),
                      resolvers'[i] = resolvers'[j]
               PROVE  i = j
    OBVIOUS
  <2>1. i + k \in 1..Len(resolvers) /\ j + k \in 1..Len(resolvers)
    BY <1>0, <1>1
  <2>2. resolvers[i + k] = resolvers[j + k]
    BY <1>1
  <2> QED
    BY <1>0, <2>1, <2>2 DEF QueueOK
<1>4. \A i \in 1..Len(resolvers') : status'[resolvers'[i]] \in {"waiting", "refused"}
  <2> SUFFICES ASSUME NEW i \in 1..Len(resolvers')
               PROVE  status'[resolvers'[i]] \in {"waiting", "refused"}
    OBVIOUS
  <2> DEFINE r == resolvers[i + k]
  <2>1. i + k \in 1..Len(resolvers) /\ r \in Requests /\ resolvers'[i] = r
    BY <1>0, <1>1
  <2>2. r \notin First(k)
    <3> SUFFICES ASSUME NEW j \in 1..k, resolvers[j] = r PROVE FALSE
      BY DEF First
    <3>1. j \in 1..Len(resolvers)
      BY <1>0
    <3> QED
      BY <1>0, <2>1, <3>1 DEF QueueOK
  <2>3. status[r] \in {"waiting", "refused"} /\ st[r] = status[r]
    BY <2>1 DEF QueueOK
  <2> QED
    BY <2>1, <2>2, <2>3 DEF Granting, Passed
<1>5. \A r \in Requests : status'[r] = "waiting" =>
        \E i \in 1..Len(resolvers') : resolvers'[i] = r
  <2> SUFFICES ASSUME NEW r \in Requests, status'[r] = "waiting"
               PROVE  \E i \in 1..Len(resolvers') : resolvers'[i] = r
    OBVIOUS
  <2>1. st[r] = "waiting" /\ r \notin First(k)
    BY DEF Granting, Passed
  <2>2. PICK i \in 1..Len(resolvers) : resolvers[i] = r
    BY <2>1 DEF QueueOK
  <2>3. i \notin 1..k
    BY <2>1, <2>2 DEF First
  <2>4. i - k \in 1..Len(resolvers') /\ (i - k) + k = i
    BY <1>0, <1>1, <2>3
  <2> QED
    BY <1>1, <2>2, <2>4
<1> QED
  BY <1>1, <1>2, <1>3, <1>4, <1>5 DEF QueueOK

(* A release starts from statuses that differ in the holder's alone. *)
LEMMA ReleasedStatuses ==
  ASSUME SemTypeOK, NEW r \in Requests, status[r] = "holding"
  PROVE  LET st == [status EXCEPT ![r] = "done"]
         IN /\ st \in [Requests -> Statuses]
            /\ \A q \in Requests : status[q] \in {"waiting", "refused"} => st[q] = status[q]
            /\ \A q \in Requests : st[q] = "waiting" => status[q] = "waiting"
BY DEF SemTypeOK, Statuses

(* Handing the permit on is granting to the first of the queue. *)
LEMMA HandingOn ==
  ASSUME SemTypeOK, NEW r \in Requests, Decrement(r),
         resolvers # << >>, max = NoMax \/ count <= max
  PROVE  /\ 1 \in 0..Len(resolvers)
         /\ Granting([status EXCEPT ![r] = "done"], 1)
         /\ UNCHANGED <<count, zeroPending, max>>
<1>1. resolvers \in Seq(Requests) /\ Len(resolvers) \in Nat \ {0}
  BY EmptySeq DEF SemTypeOK
<1>2. {Head(resolvers)} = First(1)
  <2>1. 1..1 = {1}
    OBVIOUS
  <2>2. Head(resolvers) = resolvers[1]
    BY <1>1
  <2>3. First(1) = {resolvers[i] : i \in {1}}
    BY <2>1 DEF First
  <2> QED
    BY <2>2, <2>3
<1>3. Tail(resolvers) = SubSeq(resolvers, 1 + 1, Len(resolvers))
  BY <1>1, TailIsSubSeq
<1>4. /\ resolvers' = Tail(resolvers)
      /\ status' = Passed([status EXCEPT ![r] = "done"], {Head(resolvers)})
      /\ UNCHANGED <<count, zeroPending, max>>
  BY DEF Decrement
<1>5. Granting([status EXCEPT ![r] = "done"], 1)
  BY <1>2, <1>3, <1>4 DEF Granting
<1> QED
  BY <1>1, <1>4, <1>5

(* How many setMax(m) admits: all that m leaves room for, and no more.     *)
LEMMA AdmittedFits ==
  ASSUME SemTypeOK, NEW m \in Limits
  PROVE  /\ Admitted(m) \in 0..Len(resolvers)
         /\ m # NoMax => m \in Nat
         /\ m = NoMax => Admitted(m) = Len(resolvers)
         /\ m # NoMax /\ Admitted(m) < Len(resolvers) => count + Admitted(m) >= m
         /\ m # NoMax /\ Admitted(m) > 0 => count + Admitted(m) <= m
<1>1. Len(resolvers) \in Nat /\ count \in Nat
  BY DEF SemTypeOK
<1>2. m # NoMax => m \in Nat
  BY SemaphoreAssumption
<1>3. CASE m = NoMax
  BY <1>1, <1>3 DEF Admitted
<1>4. CASE m # NoMax
  BY <1>1, <1>2, <1>4 DEF Admitted
<1> QED
  BY <1>2, <1>3, <1>4

(* Who holds a permit is counted, so that release() finds one to return.   *)
LEMMA HolderCounts ==
  ASSUME SemInv, NEW r \in Requests, status[r] = "holding"
  PROVE  count >= 1
<1>1. IsFiniteSet(Holders) /\ r \in Holders
  BY SemaphoreAssumption, FS_Subset DEF Holders
<1>2. Cardinality(Holders) \in Nat /\ Cardinality(Holders) # 0
  BY <1>1, FS_EmptySet, FS_CardinalityType
<1> QED
  BY <1>2 DEF SemInv, HoldersAreCounted, NoIdlePermit, SemTypeOK

(* The invariant holds at the beginning.                                   *)
LEMMA InitOK == SemInit => SemInv
<1> SUFFICES ASSUME SemInit PROVE SemInv
  OBVIOUS
<1>1. SemTypeOK
  BY EmptySeq DEF SemInit, SemTypeOK, Statuses
<1>2. NoIdlePermit
  BY <1>1, EmptySeq DEF SemInit, NoIdlePermit
<1>3. Holders = {}
  BY DEF SemInit, Holders
<1> QED
  BY <1>2, <1>3, FS_EmptySet DEF SemInit, SemInv, HoldersAreCounted

(* Every step leaves nobody in the queue who could be admitted.            *)
LEMMA StepQueue ==
  ASSUME SemInv, [SemNext]_semVars
  PROVE  NoIdlePermit'
<1>0. SemTypeOK /\ QueueOK /\ (resolvers # << >> => ~HasRoom)
  BY Types
<1> SUFFICES SemTypeOK' /\ QueueOK' /\ (resolvers # << >> => ~HasRoom)'
  BY DEF NoIdlePermit, QueueOK
<1>1. ASSUME NEW r \in Requests, Increment(r)
      PROVE  SemTypeOK' /\ QueueOK' /\ (resolvers # << >> => ~HasRoom)'
  <2>1. CASE HasRoom
    <3>1. resolvers = << >>
      BY <1>0, <2>1
    <3>2. \A q \in Requests : status[q] # "waiting"
      BY <1>0, <3>1 DEF QueueOK
    <3> QED
      BY <1>0, <1>1, <2>1, <3>1, <3>2 DEF Increment, SemTypeOK, QueueOK, Statuses
  <2>2. CASE ~HasRoom
    <3>0. status[r] = "idle" /\ resolvers' = Append(resolvers, r)
          /\ status' = [status EXCEPT ![r] = "waiting"] /\ UNCHANGED <<count, max, zeroPending>>
      BY <1>1, <2>2 DEF Increment
    <3>1. /\ resolvers' \in Seq(Requests)
          /\ Len(resolvers') = Len(resolvers) + 1
          /\ \A i \in 1..Len(resolvers) : resolvers'[i] = resolvers[i]
          /\ resolvers'[Len(resolvers) + 1] = r
      BY <1>0, <3>0, AppendProperties DEF SemTypeOK
    <3>2. status' \in [Requests -> Statuses] /\ Len(resolvers) \in Nat
      BY <1>0, <3>0 DEF SemTypeOK, Statuses
    <3>3. \A i \in 1..Len(resolvers) : resolvers[i] \in Requests /\ resolvers[i] # r
      BY <1>0, <3>0 DEF QueueOK, SemTypeOK
    <3>4. SemTypeOK'
      BY <1>0, <3>0, <3>1, <3>2 DEF SemTypeOK
    <3>5. \A i, j \in 1..Len(resolvers') : resolvers'[i] = resolvers'[j] => i = j
      <4> SUFFICES ASSUME NEW i \in 1..Len(resolvers'), NEW j \in 1..Len(resolvers'),
                          resolvers'[i] = resolvers'[j]
                   PROVE  i = j
        OBVIOUS
      <4>1. i \in 1..Len(resolvers) \/ i = Len(resolvers) + 1
        BY <3>1, <3>2
      <4>2. j \in 1..Len(resolvers) \/ j = Len(resolvers) + 1
        BY <3>1, <3>2
      <4> QED
        BY <1>0, <3>1, <3>3, <4>1, <4>2 DEF QueueOK
    <3>6. \A i \in 1..Len(resolvers') : status'[resolvers'[i]] \in {"waiting", "refused"}
      <4> SUFFICES ASSUME NEW i \in 1..Len(resolvers')
                   PROVE  status'[resolvers'[i]] \in {"waiting", "refused"}
        OBVIOUS
      <4>1. CASE i \in 1..Len(resolvers)
        BY <1>0, <3>0, <3>1, <3>3, <4>1 DEF QueueOK, SemTypeOK
      <4>2. CASE i = Len(resolvers) + 1
        BY <1>0, <3>0, <3>1, <4>2 DEF SemTypeOK
      <4> QED
        BY <3>1, <3>2, <4>1, <4>2
    <3>7. ASSUME NEW q \in Requests, status'[q] = "waiting"
          PROVE  \E i \in 1..Len(resolvers') : resolvers'[i] = q
      <4>1. CASE q = r
        <5>1. Len(resolvers) + 1 \in 1..Len(resolvers')
          BY <3>1, <3>2
        <5> QED
          BY <3>1, <4>1, <5>1
      <4>2. CASE q # r
        <5>1. status[q] = "waiting"
          BY <1>0, <3>0, <3>7, <4>2 DEF SemTypeOK
        <5>2. PICK i \in 1..Len(resolvers) : resolvers[i] = q
          BY <1>0, <5>1 DEF QueueOK
        <5>3. i \in 1..Len(resolvers')
          BY <3>1, <3>2
        <5> QED
          BY <3>1, <5>2, <5>3
      <4> QED
        BY <4>1, <4>2
    <3> QED
      BY <2>2, <3>0, <3>4, <3>5, <3>6, <3>7 DEF QueueOK, HasRoom
  <2> QED
    BY <2>1, <2>2
<1>2. ASSUME NEW r \in Requests, Resume(r) \/ TimeOut(r)
      PROVE  SemTypeOK' /\ QueueOK' /\ (resolvers # << >> => ~HasRoom)'
  <2>1. /\ UNCHANGED <<count, max, resolvers, zeroPending>>
        /\ \/ status[r] = "passed" /\ status' = [status EXCEPT ![r] = "holding"]
           \/ status' = [status EXCEPT ![r] = "refused"]
    BY <1>2 DEF Resume, TimeOut
  <2>2. status' \in [Requests -> Statuses]
    BY <1>0, <2>1 DEF SemTypeOK, Statuses
  <2>3. \A q \in Requests : status[q] \in {"waiting", "refused"} => status'[q] \in {"waiting", "refused"}
    BY <1>0, <2>1 DEF SemTypeOK
  <2>4. \A q \in Requests : status'[q] = "waiting" => status[q] = "waiting"
    BY <1>0, <2>1 DEF SemTypeOK
  <2>5. \A i \in 1..Len(resolvers) : resolvers[i] \in Requests
    BY <1>0 DEF SemTypeOK
  <2> QED
    BY <1>0, <2>1, <2>2, <2>3, <2>4, <2>5 DEF SemTypeOK, QueueOK, HasRoom
<1>3. ASSUME NEW r \in Requests, Release(r)
      PROVE  SemTypeOK' /\ QueueOK' /\ (resolvers # << >> => ~HasRoom)'
  <2>0. status[r] = "holding" /\ Decrement(r) /\ count >= 1
    BY <1>3, HolderCounts DEF Release
  <2>1. CASE resolvers # << >> /\ (max = NoMax \/ count <= max)
    <3>1. /\ 1 \in 0..Len(resolvers)
          /\ Granting([status EXCEPT ![r] = "done"], 1)
          /\ UNCHANGED <<count, zeroPending, max>>
      BY <1>0, <2>0, <2>1, HandingOn
    <3>2. /\ resolvers' \in Seq(Requests)
          /\ status' \in [Requests -> Statuses]
          /\ QueueOK'
      BY <1>0, <2>0, <3>1, ReleasedStatuses, GrantingQueue
    <3> QED
      BY <1>0, <2>1, <3>1, <3>2 DEF SemTypeOK, HasRoom
  <2>2. CASE ~(resolvers # << >> /\ (max = NoMax \/ count <= max))
    <3>1. /\ count' = count - 1
          /\ status' = [status EXCEPT ![r] = "done"]
          /\ zeroPending' = (zeroPending /\ count' # 0)
          /\ UNCHANGED <<resolvers, max>>
      BY <2>0, <2>2 DEF Decrement
    <3>2. SemTypeOK'
      BY <1>0, <2>0, <3>1 DEF SemTypeOK, Statuses
    <3>3. QueueOK'
      BY <1>0, <2>0, <3>1 DEF SemTypeOK, QueueOK
    <3>4. ~(max = NoMax \/ count <= max) => ~HasRoom'
      <4>1. max # NoMax => max \in Nat
        BY <1>0, SemaphoreAssumption DEF SemTypeOK
      <4> QED
        BY <1>0, <3>1, <4>1 DEF SemTypeOK, HasRoom
    <3> QED
      BY <2>2, <3>1, <3>2, <3>3, <3>4
  <2> QED
    BY <2>1, <2>2
<1>4. ASSUME NEW m \in Limits, SetMax(m)
      PROVE  SemTypeOK' /\ QueueOK' /\ (resolvers # << >> => ~HasRoom)'
  <2> DEFINE k == Admitted(m)
  <2>0. /\ max' = m /\ count' = count + k /\ UNCHANGED zeroPending
        /\ Granting(status, k)
    BY <1>4 DEF SetMax, Granting, First
  <2>1. k \in 0..Len(resolvers)
    BY <1>0, AdmittedFits
  <2>2. status \in [Requests -> Statuses] /\ Len(resolvers) \in Nat /\ count \in Nat
    BY <1>0 DEF SemTypeOK
  <2> HIDE DEF k
  <2>3. /\ resolvers' \in Seq(Requests)
        /\ status' \in [Requests -> Statuses]
        /\ Len(resolvers') = Len(resolvers) - k
        /\ QueueOK'
    BY <1>0, <2>0, <2>1, <2>2, GrantingQueue
  <2>4. SemTypeOK'
    BY <1>0, <2>0, <2>1, <2>2, <2>3 DEF SemTypeOK
  <2>5. ASSUME resolvers' # << >> PROVE ~HasRoom'
    <3>1. k < Len(resolvers)
      BY <2>1, <2>2, <2>3, <2>5, EmptySeq
    <3>2. m # NoMax /\ m \in Nat /\ count + k >= m
      BY <1>0, <3>1, <2>2, AdmittedFits DEF k
    <3> QED
      BY <2>0, <2>1, <2>2, <3>2 DEF HasRoom
  <2> QED
    BY <2>3, <2>4, <2>5
<1>5. CASE WaitForZero
  BY <1>0, <1>5 DEF WaitForZero, SemTypeOK, QueueOK, HasRoom
<1>6. CASE UNCHANGED semVars
  BY <1>0, <1>6 DEF semVars, SemTypeOK, QueueOK, HasRoom
<1> QED
  BY <1>1, <1>2, <1>3, <1>4, <1>5, <1>6 DEF SemNext

-----------------------------------------------------------------------------
(* HoldersAreCounted: the permits.                                         *)

HoldersOf(st) == {r \in Requests : st[r] \in {"passed", "holding"}}

(* Permits can be counted.                                                 *)
LEMMA HoldersFinite ==
  ASSUME NEW st
  PROVE  IsFiniteSet(HoldersOf(st)) /\ Cardinality(HoldersOf(st)) \in Nat
BY SemaphoreAssumption, FS_Subset, FS_CardinalityType DEF HoldersOf

(* Granting the first k makes at most k more holders, and k more if nobody *)
(* in the queue has given up.                                              *)
LEMMA GrantingCount ==
  ASSUME SemTypeOK, QueueOK,
         NEW k \in 0..Len(resolvers),
         NEW st \in [Requests -> Statuses],
         \A r \in Requests : status[r] \in {"waiting", "refused"} => st[r] = status[r],
         Granting(st, k)
  PROVE  /\ Cardinality(Holders') <= Cardinality(HoldersOf(st)) + k
         /\ NobodyRefused' =>
              NobodyRefused /\ Cardinality(Holders') = Cardinality(HoldersOf(st)) + k
<1> DEFINE granted == {r \in First(k) : st[r] = "waiting"}
<1>0. resolvers \in Seq(Requests) /\ Len(resolvers) \in Nat /\ k \in Nat
  BY DEF SemTypeOK
<1>1. First(k) \subseteq Requests
  BY <1>0 DEF First
<1>2. Holders' = HoldersOf(st) \union granted
  BY <1>1 DEF Holders, HoldersOf, Granting, Passed
<1>3. HoldersOf(st) \intersect granted = {}
  BY DEF HoldersOf
<1>4. /\ IsFiniteSet(First(k))
      /\ Cardinality(First(k)) = k
  BY ZenonT(60), <1>0, CountFirst DEF First, QueueOK
<1>5. IsFiniteSet(granted) /\ Cardinality(granted) \in Nat /\ Cardinality(granted) <= k
  BY <1>4, FS_Subset, FS_CardinalityType
<1>6. Cardinality(Holders') = Cardinality(HoldersOf(st)) + Cardinality(granted)
  <2>1. Cardinality(HoldersOf(st) \union granted)
          = Cardinality(HoldersOf(st)) + Cardinality(granted)
              - Cardinality(HoldersOf(st) \intersect granted)
    BY <1>5, HoldersFinite, FS_Union
  <2>2. Cardinality(HoldersOf(st) \intersect granted) = 0
    BY <1>3, FS_EmptySet
  <2> HIDE DEF granted
  <2> QED
    BY <1>2, <1>5, <2>1, <2>2, HoldersFinite
<1>7. ASSUME NobodyRefused' PROVE NobodyRefused /\ granted = First(k)
  <2>1. \A r \in Requests : status[r] = "refused" => status'[r] = "refused"
    BY DEF Granting, Passed
  <2>2. NobodyRefused
    BY <1>7, <2>1 DEF NobodyRefused
  <2>3. \A r \in First(k) : st[r] = "waiting"
    <3> SUFFICES ASSUME NEW i \in 1..k PROVE st[resolvers[i]] = "waiting"
      BY DEF First
    <3>1. i \in 1..Len(resolvers) /\ resolvers[i] \in Requests
      BY <1>0
    <3> QED
      BY <2>2, <3>1 DEF QueueOK, NobodyRefused
  <2> QED
    BY <2>2, <2>3
<1> HIDE DEF granted
<1> QED
  BY <1>0, <1>4, <1>5, <1>6, <1>7, HoldersFinite

(* Every step moves the count as it moves the holders.                     *)
LEMMA StepCount ==
  ASSUME SemInv, [SemNext]_semVars
  PROVE  HoldersAreCounted'
<1>0. /\ SemTypeOK /\ QueueOK /\ HoldersAreCounted
      /\ count \in Nat /\ zeroPending \in BOOLEAN
      /\ status \in [Requests -> Statuses]
      /\ Holders = HoldersOf(status) /\ Holders' = HoldersOf(status')
  BY Types DEF SemInv, SemTypeOK, Holders, HoldersOf
<1>f. /\ IsFiniteSet(Holders) /\ Cardinality(Holders) \in Nat
      /\ IsFiniteSet(Holders') /\ Cardinality(Holders') \in Nat
  BY <1>0, HoldersFinite
<1>1. ASSUME NEW r \in Requests, Increment(r)
      PROVE  HoldersAreCounted'
  <2>0. status[r] = "idle" /\ r \notin Holders
    BY <1>1 DEF Increment, Holders
  <2>1. CASE HasRoom
    <3>1. count' = count + 1 /\ status' = [status EXCEPT ![r] = "holding"] /\ UNCHANGED zeroPending
      BY <1>1, <2>1 DEF Increment
    <3>2. Holders' = Holders \union {r}
      BY <1>0, <3>1 DEF Holders
    <3>3. Cardinality(Holders') = Cardinality(Holders) + 1
      BY <1>f, <2>0, <3>2, FS_AddElement
    <3>4. NobodyRefused' => NobodyRefused
      BY <1>0, <2>0, <3>1 DEF NobodyRefused
    <3> QED
      BY <1>0, <1>f, <3>1, <3>3, <3>4 DEF HoldersAreCounted
  <2>2. CASE ~HasRoom
    <3>1. UNCHANGED <<count, zeroPending>> /\ status' = [status EXCEPT ![r] = "waiting"]
      BY <1>1, <2>2 DEF Increment
    <3>2. Holders' = Holders /\ (NobodyRefused' => NobodyRefused)
      BY <1>0, <2>0, <3>1 DEF Holders, NobodyRefused
    <3> QED
      BY <1>0, <1>f, <3>1, <3>2 DEF HoldersAreCounted
  <2> QED
    BY <2>1, <2>2
<1>2. ASSUME NEW r \in Requests, Resume(r)
      PROVE  HoldersAreCounted'
  <2>1. /\ UNCHANGED <<count, zeroPending>>
        /\ status[r] = "passed" /\ status' = [status EXCEPT ![r] = "holding"]
    BY <1>2 DEF Resume
  <2>2. Holders' = Holders /\ (NobodyRefused' => NobodyRefused)
    BY <1>0, <2>1 DEF Holders, NobodyRefused
  <2> QED
    BY <1>0, <1>f, <2>1, <2>2 DEF HoldersAreCounted
<1>3. ASSUME NEW r \in Requests, TimeOut(r)
      PROVE  HoldersAreCounted'
  <2>1. UNCHANGED <<count, zeroPending>> /\ status' = [status EXCEPT ![r] = "refused"]
    BY <1>3 DEF TimeOut
  <2>2. Holders' \subseteq Holders /\ ~NobodyRefused'
    BY <1>0, <2>1 DEF Holders, NobodyRefused
  <2>3. Cardinality(Holders') <= Cardinality(Holders)
    BY <1>f, <2>2, FS_Subset
  <2> QED
    BY <1>0, <1>f, <2>1, <2>2, <2>3 DEF HoldersAreCounted
<1>4. ASSUME NEW r \in Requests, Release(r)
      PROVE  HoldersAreCounted'
  <2> DEFINE st == [status EXCEPT ![r] = "done"]
  <2>0. status[r] = "holding" /\ Decrement(r) /\ count >= 1
    BY <1>4, HolderCounts DEF Release
  <2>1. HoldersOf(st) = Holders \ {r} /\ r \in Holders
    BY <1>0, <2>0 DEF Holders, HoldersOf
  <2>2. Cardinality(HoldersOf(st)) = Cardinality(Holders) - 1
    BY <1>f, <2>1, FS_RemoveElement
  <2>3. CASE resolvers # << >> /\ (max = NoMax \/ count <= max)
    <3>1. /\ 1 \in 0..Len(resolvers)
          /\ Granting(st, 1)
          /\ UNCHANGED <<count, zeroPending, max>>
      BY <1>0, <2>0, <2>3, HandingOn
    <3>2. /\ st \in [Requests -> Statuses]
          /\ \A q \in Requests : status[q] \in {"waiting", "refused"} => st[q] = status[q]
      BY <1>0, <2>0, ReleasedStatuses
    <3>3. /\ Cardinality(Holders') <= Cardinality(HoldersOf(st)) + 1
          /\ NobodyRefused' =>
               NobodyRefused /\ Cardinality(Holders') = Cardinality(HoldersOf(st)) + 1
      BY <1>0, <3>1, <3>2, GrantingCount
    <3> QED
      BY <1>0, <1>f, <2>2, <3>1, <3>3 DEF HoldersAreCounted
  <2>4. CASE ~(resolvers # << >> /\ (max = NoMax \/ count <= max))
    <3>1. count' = count - 1 /\ status' = st /\ zeroPending' = (zeroPending /\ count' # 0)
      BY <2>0, <2>4 DEF Decrement
    <3>2. Holders' = HoldersOf(st)
      BY <1>0, <3>1
    <3>3. NobodyRefused' => NobodyRefused
      BY <1>0, <2>0, <3>1 DEF NobodyRefused
    <3>4. zeroPending' => count' > 0
      <4>1. zeroPending' => count' # 0
        BY <3>1, Zenon
      <4>2. count' \in Nat
        BY <1>0, <2>0, <3>1
      <4> QED
        BY <4>1, <4>2
    <3> QED
      BY <1>0, <1>f, <2>0, <2>2, <3>1, <3>2, <3>3, <3>4 DEF HoldersAreCounted
  <2> QED
    BY <2>3, <2>4
<1>5. ASSUME NEW m \in Limits, SetMax(m)
      PROVE  HoldersAreCounted'
  <2> DEFINE k == Admitted(m)
  <2>0. count' = count + k /\ UNCHANGED zeroPending /\ Granting(status, k)
    BY <1>5 DEF SetMax, Granting, First
  <2>1. k \in 0..Len(resolvers) /\ k \in Nat
    BY <1>0, AdmittedFits DEF SemTypeOK
  <2> HIDE DEF k
  <2>2. /\ Cardinality(Holders') <= Cardinality(Holders) + k
        /\ NobodyRefused' =>
             NobodyRefused /\ Cardinality(Holders') = Cardinality(Holders) + k
    BY <1>0, <2>0, <2>1, GrantingCount
  <2> QED
    BY <1>0, <1>f, <2>0, <2>1, <2>2 DEF HoldersAreCounted
<1>6. CASE WaitForZero
  <2>1. zeroPending' = (count # 0) /\ UNCHANGED <<count, status>>
    BY <1>6 DEF WaitForZero
  <2> QED
    BY <1>0, <1>f, <2>1 DEF HoldersAreCounted, NobodyRefused
<1>7. CASE UNCHANGED semVars
  BY <1>0, <1>7 DEF semVars, HoldersAreCounted, NobodyRefused
<1> QED
  BY <1>1, <1>2, <1>3, <1>4, <1>5, <1>6, <1>7 DEF SemNext

-----------------------------------------------------------------------------
(* Queue and count fit together in every behaviour.                        *)
THEOREM SemaphoreConsistent == SemSpec => []SemInv
<1>1. SemInv /\ [SemNext]_semVars => SemInv'
  BY StepQueue, StepCount DEF SemInv
<1> QED
  BY <1>1, InitOK, PTL DEF SemSpec

(* No permit is idle while somebody waits for it, whatever setMax() and    *)
(* the timers of the requests do.                                          *)
THEOREM NoneIdle == SemSpec => []NoIdlePermit
<1>1. SemInv => NoIdlePermit
  BY DEF SemInv
<1> QED
  BY <1>1, SemaphoreConsistent, PTL

(* Mutual exclusion: at most as many hold a permit as the count says, and  *)
(* exactly as many until a request times out.                              *)
THEOREM HoldersCounted == SemSpec => []HoldersAreCounted
<1>1. SemInv => HoldersAreCounted
  BY DEF SemInv
<1> QED
  BY <1>1, SemaphoreConsistent, PTL

(* A count that is not zero is that of somebody, and nobody waits while it *)
(* is zero: no limit is.                                                   *)
LEMMA SomeHolder == SemInv => SomebodyServes
<1> SUFFICES ASSUME SemInv, NobodyRefused, zeroPending \/ \E r \in Requests : status[r] = "waiting"
             PROVE  Holders # {}
  BY DEF SomebodyServes
<1>1. SemTypeOK /\ count = Cardinality(Holders)
  BY Types DEF SemInv, HoldersAreCounted
<1>2. count # 0
  <2>1. CASE zeroPending
    BY <1>1, <2>1 DEF SemInv, HoldersAreCounted
  <2>2. ASSUME NEW r \in Requests, status[r] = "waiting" PROVE count # 0
    <3>1. PICK i \in 1..Len(resolvers) : resolvers[i] = r
      BY <2>2, Types DEF QueueOK
    <3>2. ~HasRoom
      BY <1>1, <3>1, Types DEF SemTypeOK
    <3>3. max \in Nat \ {0}
      BY <1>1, <3>2, SemaphoreAssumption DEF SemTypeOK, HasRoom
    <3> QED
      BY <1>1, <3>2, <3>3 DEF SemTypeOK, HasRoom
  <2> QED
    BY <2>1, <2>2
<1> QED
  BY <1>1, <1>2, FS_EmptySet

(* No deadlock: whoever waits, for a permit or for zero, waits for         *)
(* somebody who has one, whatever setMax() does; until a timer runs out.   *)
THEOREM NobodyWaitsInVain == SemSpec => []SomebodyServes
BY SomeHolder, SemaphoreConsistent, PTL

(* The count grows within the maximum only.                                *)
THEOREM CountGrowsWithinMax == SemSpec => GrowsWithinMax
<1>1. SemInv /\ [SemNext]_semVars => [count' > count => max' = NoMax \/ count' <= max']_semVars
  <2> SUFFICES ASSUME SemInv, SemNext, count' > count
               PROVE  max' = NoMax \/ count' <= max'
    OBVIOUS
  <2>0. SemTypeOK /\ count \in Nat /\ (max # NoMax => max \in Nat)
    BY Types, SemaphoreAssumption DEF SemTypeOK
  <2>1. ASSUME NEW r \in Requests, Increment(r) PROVE max' = NoMax \/ count' <= max'
    BY <2>0, <2>1 DEF Increment, HasRoom
  <2>2. ASSUME NEW r \in Requests, Resume(r) \/ TimeOut(r) \/ Release(r) PROVE ~(count' > count)
    BY <2>0, <2>2 DEF Resume, TimeOut, Release, Decrement
  <2>3. ASSUME NEW m \in Limits, SetMax(m) PROVE max' = NoMax \/ count' <= max'
    <3>1. max' = m /\ count' = count + Admitted(m)
      BY <2>3 DEF SetMax
    <3>2. Len(resolvers) \in Nat
      BY <2>0 DEF SemTypeOK
    <3>3. Admitted(m) \in Nat /\ (m # NoMax /\ Admitted(m) > 0 => count + Admitted(m) <= m)
      BY <2>0, <3>2, AdmittedFits
    <3> QED
      BY <2>0, <3>1, <3>3
  <2>4. CASE WaitForZero
    BY <2>4, <2>0 DEF WaitForZero
  <2> QED
    BY <2>0, <2>1, <2>2, <2>3, <2>4 DEF SemNext
<1> QED
  BY <1>1, SemaphoreConsistent, PTL DEF SemSpec, GrowsWithinMax

(* Where the first k are granted, nobody is granted ahead of one who waited*)
(* before: the queue is in the order of arrival.                           *)
LEMMA GrantingInOrder ==
  ASSUME SemTypeOK, QueueOK,
         NEW k \in 0..Len(resolvers),
         NEW st \in [Requests -> Statuses],
         \A r \in Requests : status[r] \in {"waiting", "refused"} => st[r] = status[r],
         \A r \in Requests : status[r] = "idle" => st[r] = "idle",
         Granting(st, k),
         NEW q \in Requests, NEW r \in Requests,
         Granted(r), status[q] = "waiting", Before(q, r)
  PROVE  Granted(q)
<1>0. resolvers \in Seq(Requests) /\ Len(resolvers) \in Nat /\ k \in Nat /\ k <= Len(resolvers)
  BY DEF SemTypeOK
<1>1. status[r] # "idle"
  BY DEF Granted, Granting, Passed
<1>2. status[r] = "waiting" /\ r \in First(k)
  BY <1>1 DEF Granted, Granting, Passed
<1>3. PICK n \in 1..k : resolvers[n] = r
  BY <1>2 DEF First
<1>4. PICK i \in 1..Len(resolvers), j \in 1..Len(resolvers) :
        i < j /\ resolvers[i] = q /\ resolvers[j] = r
  BY <1>1 DEF Before
<1>5. j = n
  <2>1. n \in 1..Len(resolvers)
    BY <1>0
  <2> QED
    BY <2>1, <1>3, <1>4 DEF QueueOK
<1>6. i \in 1..k
  BY <1>0, <1>4, <1>5
<1>7. q \in First(k)
  BY <1>4, <1>6 DEF First
<1> QED
  BY <1>7 DEF Granting, Passed, Granted

(* Whoever waited first is served first: neither setMax() nor a new caller *)
(* of increment() lets a later request pass.                               *)
THEOREM FirstComeFirstServed == SemSpec => ServedInOrder
<1> DEFINE InOrder ==
      \A q, r \in Requests :
        Granted(r) /\ status[q] = "waiting" /\ Before(q, r) => Granted(q)
<1>1. SemInv /\ [SemNext]_semVars => [InOrder]_semVars
  <2> SUFFICES ASSUME SemInv, SemNext,
                      NEW q \in Requests, NEW r \in Requests,
                      Granted(r), status[q] = "waiting", Before(q, r)
               PROVE  Granted(q)
    OBVIOUS
  <2>0. /\ SemTypeOK /\ QueueOK /\ (resolvers # << >> => ~HasRoom)
        /\ status \in [Requests -> Statuses]
    BY Types DEF SemTypeOK
  <2>1. ~HasRoom
    <3>1. \E i \in 1..Len(resolvers) : resolvers[i] = q
      BY <2>0 DEF QueueOK
    <3>2. resolvers # << >>
      BY <3>1, EmptySeq
    <3> QED
      BY <2>0, <3>2
  <2>2. ASSUME NEW p \in Requests, Increment(p) PROVE FALSE
    <3>1. status[p] = "idle" /\ status' = [status EXCEPT ![p] = "waiting"]
      BY <2>1, <2>2 DEF Increment
    <3> QED
      BY <2>0, <3>1 DEF Granted
  <2>3. ASSUME NEW p \in Requests, Resume(p) \/ TimeOut(p) PROVE FALSE
    BY <2>0, <2>3 DEF Resume, TimeOut, Granted
  <2>4. ASSUME NEW p \in Requests, Release(p) PROVE Granted(q)
    <3> DEFINE st == [status EXCEPT ![p] = "done"]
    <3>0. status[p] = "holding" /\ Decrement(p)
      BY <2>4 DEF Release
    <3>1. CASE resolvers # << >> /\ (max = NoMax \/ count <= max)
      <4>1. 1 \in 0..Len(resolvers) /\ Granting(st, 1)
        BY <2>0, <3>0, <3>1, HandingOn
      <4>2. /\ st \in [Requests -> Statuses]
            /\ \A s \in Requests : status[s] \in {"waiting", "refused"} => st[s] = status[s]
            /\ \A s \in Requests : status[s] = "idle" => st[s] = "idle"
        BY <2>0, <3>0, ReleasedStatuses
      <4> QED
        BY <2>0, <4>1, <4>2, GrantingInOrder
    <3>2. CASE ~(resolvers # << >> /\ (max = NoMax \/ count <= max))
      <4>1. status' = st
        BY <3>0, <3>2 DEF Decrement
      <4> QED
        BY <2>0, <3>0, <4>1 DEF Granted
    <3> QED
      BY <3>1, <3>2
  <2>5. ASSUME NEW m \in Limits, SetMax(m) PROVE Granted(q)
    <3>1. Granting(status, Admitted(m))
      BY <2>5 DEF SetMax, Granting, First
    <3>2. Admitted(m) \in 0..Len(resolvers)
      BY <2>0, AdmittedFits
    <3> QED
      BY <2>0, <3>1, <3>2, GrantingInOrder
  <2>6. CASE WaitForZero
    BY <2>6 DEF WaitForZero, Granted
  <2> QED
    BY <2>2, <2>3, <2>4, <2>5, <2>6 DEF SemNext
<1> QED
  BY <1>1, SemaphoreConsistent, PTL DEF SemSpec, ServedInOrder

-----------------------------------------------------------------------------
(* A semaphore as a lock, and what its users need to know of its steps.    *)

MutualExclusion == \A a, b \in Holders : a = b

(* A count of one at most is one holder at most.                           *)
LEMMA OneHolder ==
  ASSUME SemInv, count <= 1
  PROVE  MutualExclusion
<1> SUFFICES ASSUME NEW a \in Holders, NEW b \in Holders, a # b PROVE FALSE
  BY DEF MutualExclusion
<1>1. IsFiniteSet(Holders) /\ Cardinality(Holders) \in Nat
  BY SemaphoreAssumption, FS_Subset, FS_CardinalityType DEF Holders
<1>2. IsFiniteSet({a}) /\ Cardinality({a}) = 1
  BY FS_Singleton
<1>3. Cardinality({a} \union {b}) = 2
  BY <1>2, FS_AddElement
<1>4. Cardinality({a} \union {b}) <= Cardinality(Holders)
  BY <1>1, FS_Subset
<1>5. count \in Nat
  BY Types DEF SemTypeOK
<1> QED
  BY <1>1, <1>3, <1>4, <1>5 DEF SemInv, HoldersAreCounted

(* No step takes the count above the highest limit.                        *)
LEMMA CeilingKept ==
  ASSUME SemInv, [SemNext]_semVars,
         NEW n \in Nat, \A m \in Limits : m # NoMax /\ m <= n, count <= n
  PROVE  count' <= n
<1>0. SemTypeOK /\ count \in Nat /\ max \in Nat /\ max # NoMax /\ max <= n
  BY Types, SemaphoreAssumption DEF SemTypeOK
<1>1. ASSUME NEW r \in Requests, Increment(r) PROVE count' <= n
  BY <1>0, <1>1 DEF Increment, HasRoom
<1>2. ASSUME NEW r \in Requests, Resume(r) \/ TimeOut(r) \/ Release(r) PROVE count' <= n
  BY <1>0, <1>2 DEF Resume, TimeOut, Release, Decrement
<1>3. ASSUME NEW m \in Limits, SetMax(m) PROVE count' <= n
  <2>1. count' = count + Admitted(m)
    BY <1>3 DEF SetMax
  <2>2. Len(resolvers) \in Nat
    BY <1>0 DEF SemTypeOK
  <2>3. /\ Admitted(m) \in Nat /\ m \in Nat
        /\ m # NoMax /\ Admitted(m) > 0 => count + Admitted(m) <= m
    BY <1>0, <2>2, AdmittedFits
  <2>4. m # NoMax /\ m <= n
    OBVIOUS
  <2> QED
    BY <1>0, <2>1, <2>3, <2>4
<1>4. CASE WaitForZero \/ UNCHANGED semVars
  BY <1>0, <1>4 DEF WaitForZero, semVars
<1> QED
  BY <1>1, <1>2, <1>3, <1>4 DEF SemNext

(* With a maximum of one, as compilingLock of CliMain.ts has, no two       *)
(* requests hold it at a time, whoever waits, gives up or releases.        *)
THEOREM OneMaxExcludes ==
  ASSUME Limits = {1}
  PROVE  SemSpec => []MutualExclusion
<1> DEFINE Inv == SemInv /\ count <= 1
<1>0. \A m \in Limits : m # NoMax /\ m <= 1
  BY SemaphoreAssumption
<1>1. SemInit => Inv
  BY InitOK DEF SemInit
<1>2. Inv /\ [SemNext]_semVars => Inv'
  BY <1>0, StepQueue, StepCount, CeilingKept DEF SemInv
<1>3. Inv => MutualExclusion
  BY OneHolder
<1> QED
  BY <1>1, <1>2, <1>3, PTL DEF SemSpec

(* A semaphore that was taken once, before anybody else asks.              *)
LEMMA TakenOK ==
  ASSUME NEW r \in Requests,
         count = 1, max \in Limits, resolvers = << >>, zeroPending = FALSE,
         status = [q \in Requests |-> IF q = r THEN "holding" ELSE "idle"]
  PROVE  SemInv
<1>1. SemTypeOK
  BY EmptySeq DEF SemTypeOK, Statuses
<1>2. NoIdlePermit
  BY <1>1, EmptySeq DEF NoIdlePermit
<1>3. Holders = {r}
  BY DEF Holders
<1>4. Cardinality(Holders) = 1
  BY <1>3, FS_Singleton
<1> QED
  BY <1>2, <1>4 DEF SemInv, HoldersAreCounted

(* A request that acts changes where the others stand in one way only: one *)
(* that waits may be handed a permit.                                      *)
LEMMA OthersOnlyPass ==
  ASSUME SemTypeOK, NEW r \in Requests,
         Increment(r) \/ Resume(r) \/ TimeOut(r) \/ Release(r)
  PROVE  /\ \A q \in Requests \ {r} :
              status'[q] = status[q] \/ (status[q] = "waiting" /\ status'[q] = "passed")
         /\ Increment(r) => status[r] = "idle" /\ status'[r] \in {"holding", "waiting"}
         /\ Resume(r) => status[r] = "passed" /\ status'[r] = "holding"
         /\ TimeOut(r) => status[r] \in {"waiting", "passed"} /\ status'[r] = "refused"
         /\ Release(r) => status[r] = "holding" /\ status'[r] = "done"
<1>0. status \in [Requests -> Statuses]
  BY DEF SemTypeOK
<1>1. CASE Increment(r)
  BY <1>0, <1>1 DEF Increment, Resume, TimeOut, Release
<1>2. CASE Resume(r)
  BY <1>0, <1>2 DEF Increment, Resume, TimeOut, Release
<1>3. CASE TimeOut(r)
  BY <1>0, <1>3 DEF Increment, Resume, TimeOut, Release
<1>4. CASE Release(r)
  <2>1. status[r] = "holding" /\ Decrement(r)
    BY <1>4 DEF Release
  <2>2. CASE resolvers # << >> /\ (max = NoMax \/ count <= max)
    <3>1. status' = Passed([status EXCEPT ![r] = "done"], {Head(resolvers)})
      BY <2>1, <2>2 DEF Decrement
    <3> QED
      BY <1>0, <2>1, <3>1 DEF Passed, Increment, Resume, TimeOut
  <2>3. CASE ~(resolvers # << >> /\ (max = NoMax \/ count <= max))
    <3>1. status' = [status EXCEPT ![r] = "done"]
      BY <2>1, <2>3 DEF Decrement
    <3> QED
      BY <1>0, <2>1, <3>1 DEF Increment, Resume, TimeOut
  <2> QED
    BY <2>2, <2>3
<1> QED
  BY <1>1, <1>2, <1>3, <1>4

=============================================================================
