----------------------------- MODULE CliRunProofs -----------------------------
(***************************************************************************)
(* `sqrl run --stream`: the stream of actions, for any input, concurrency  *)
(* and size of the tables; the recompilations beside it, for any number of *)
(* edits; and `sqrl repl`, for any inputs. The three use the semaphore,    *)
(* and their steps are steps of it, so that what is proved of it there is  *)
(* cited here. In the end all programs of MCPrograms, the demonstration    *)
(* page among them, as TLC explores them.                                  *)
(***************************************************************************)
EXTENDS MCPrograms, StreamPageProofs, FunctionTheorems, FiniteSetTheorems, SequenceTheorems,
        WellFoundedInduction, TLAPS

(* What the pause of the stream keeps: while it flows there is room for    *)
(* one more action, and when it waits for zero the semaphore knows.        *)
StreamInv ==
  /\ ConcurrencyRespected
  /\ flowing /\ Concurrency # 0 => count < Concurrency
  /\ run \in {"draining", "waiting", "closed"} => read = NumLines
  /\ run = "waiting" => (zeroPending <=> count # 0)
  /\ run = "closed" => count = 0

(* The table begins empty, and is not full then.                           *)
LEMMA NoRows == << >> \in Seq(Lines) /\ Len(<< >>) = 0 /\ 0 < MaxTableRows
BY EmptySeq, StreamAssumption

(* Actions under way can be counted.                                       *)
LEMMA LinesFinite == IsFiniteSet(Lines) /\ IsFiniteSet(Acting) /\ Cardinality(Acting) \in Nat
<1>1. IsFiniteSet(Lines)
  BY StreamAssumption, FS_Interval DEF Lines
<1>2. Acting \in SUBSET Lines
  BY DEF Acting
<1> QED
  BY <1>1, <1>2, FS_Subset, FS_CardinalityType

(* An action that starts is not yet under way: wrap() counts it at once.   *)
LEMMA Starts ==
  ASSUME CliTypeOK, StartAction
  PROVE  /\ read + 1 \in Lines
         /\ act[read + 1] = "unread"
         /\ act' = [act EXCEPT ![read + 1] = "executing"]
         /\ count' = count + 1
         /\ UNCHANGED <<zeroPending, max, resolvers>>
<1>1. /\ read + 1 \in Lines
      /\ act' = [act EXCEPT ![read + 1] = "executing"]
      /\ Busy!Increment(read + 1)
  BY StreamAssumption DEF StartAction
<1>2. LockStatus[read + 1] = "idle"
  BY <1>1 DEF Busy!Increment
<1>3. act[read + 1] = "unread"
  BY <1>1, <1>2 DEF LockStatus
<1>4. Busy!HasRoom
  BY DEF CliTypeOK, Busy!HasRoom
<1> QED
  BY <1>1, <1>3, <1>4 DEF Busy!Increment

(* An action that ends is counted down and resumes the stream.             *)
LEMMA Finishes ==
  ASSUME CliTypeOK, NEW l \in Lines, NEW how, Finish(l, how)
  PROVE  /\ act' = [act EXCEPT ![l] = how]
         /\ count' = count - 1
         /\ zeroPending' = (zeroPending /\ count' # 0)
         /\ UNCHANGED <<max, resolvers, read, run>>
         /\ flowing' = TRUE
BY DEF CliTypeOK, Finish, Busy!Decrement

(* The invariant of the stream holds at the beginning,                     *)
LEMMA StreamInitOK == StreamInit => StreamInv
<1> SUFFICES ASSUME StreamInit PROVE StreamInv
  OBVIOUS
<1>1. CliTypeOK
  <2>1. act \in [Lines -> {"unread", "executing", "mutating", "done", "failed"}]
    BY DEF StreamInit
  <2>2. read \in 0..NumLines /\ count \in Nat
    BY StreamAssumption DEF StreamInit
  <2>3. rows \in Seq(Lines) /\ Len(rows) < MaxTableRows /\ printed \in Seq(Lines)
    BY NoRows DEF StreamInit
  <2> QED
    BY <2>1, <2>2, <2>3 DEF StreamInit, CliTypeOK
<1>2. Acting = {}
  BY DEF StreamInit, Acting
<1> QED
  BY <1>1, <1>2, StreamAssumption, FS_EmptySet DEF StreamInit, StreamInv, ConcurrencyRespected

(* The rows and lines that were printed are lines in every step.           *)
LEMMA ShowTypes ==
  ASSUME CliTypeOK, NEW l \in Lines, Show(l)
  PROVE  rows' \in Seq(Lines) /\ Len(rows') < MaxTableRows /\ printed' \in Seq(Lines)
<1>1. rows \in Seq(Lines) /\ Len(rows) \in Nat /\ printed \in Seq(Lines) /\ Len(rows) < MaxTableRows
  BY DEF CliTypeOK
<1>2. /\ Append(rows, l) \in Seq(Lines) /\ Len(Append(rows, l)) = Len(rows) + 1
      /\ printed \o Append(rows, l) \in Seq(Lines)
  BY <1>1, AppendProperties, ConcatProperties
<1>3. CASE Shown(l) /\ Len(rows) + 1 = MaxTableRows
  BY <1>2, <1>3, NoRows DEF Show
<1>4. CASE Shown(l) /\ Len(rows) + 1 # MaxTableRows
  BY <1>1, <1>2, <1>4, StreamAssumption DEF Show
<1>5. CASE ~Shown(l)
  BY <1>1, <1>5 DEF Show
<1> QED
  BY <1>3, <1>4, <1>5

(* and every step keeps it.                                                *)
LEMMA StreamStep == StreamInv /\ [StreamNext]_cliVars => StreamInv'
<1> SUFFICES ASSUME StreamInv, [StreamNext]_cliVars PROVE StreamInv'
  OBVIOUS
<1>0. /\ CliTypeOK /\ count = Cardinality(Acting) /\ count \in Nat
      /\ Concurrency \in Nat /\ NumLines \in Nat
      /\ act \in [Lines -> {"unread", "executing", "mutating", "done", "failed"}]
      /\ rows \in Seq(Lines) /\ Len(rows) < MaxTableRows /\ printed \in Seq(Lines)
  BY StreamAssumption DEF StreamInv, ConcurrencyRespected, CliTypeOK
<1>1. CASE SkipLine
  <2>1. /\ run = "reading" /\ read < NumLines /\ read' = read + 1
        /\ UNCHANGED <<flowing, act, busyVars, run, rows, printed>>
    BY <1>1 DEF SkipLine
  <2>2. read' \in 0..NumLines
    BY <1>0, <2>1 DEF CliTypeOK
  <2> QED
    BY <1>0, <2>1, <2>2 DEF StreamInv, ConcurrencyRespected, CliTypeOK, busyVars, Acting
<1>2. CASE StartAction
  <2>1. /\ read + 1 \in Lines /\ act[read + 1] = "unread"
        /\ act' = [act EXCEPT ![read + 1] = "executing"] /\ count' = count + 1
        /\ UNCHANGED <<zeroPending, max, resolvers>>
    BY <1>0, <1>2, Starts
  <2>2. /\ run = "reading" /\ flowing /\ read' = read + 1 /\ flowing' = ~AtLimit(count')
        /\ UNCHANGED <<run, rows, printed>>
    BY <1>2 DEF StartAction
  <2>3. Acting' = Acting \union {read + 1} /\ read + 1 \notin Acting
    BY <1>0, <2>1 DEF Acting
  <2>4. count' = Cardinality(Acting')
    BY <1>0, <2>1, <2>3, LinesFinite, FS_AddElement
  <2>5. CliTypeOK'
    BY <1>0, <2>1, <2>2 DEF CliTypeOK, Lines
  <2>6. Concurrency # 0 => count < Concurrency
    BY <2>2 DEF StreamInv
  <2>7. Concurrency # 0 => count' <= Concurrency /\ (flowing' => count' < Concurrency)
    <3>1. flowing' => ~AtLimit(count')
      BY <2>2
    <3>2. Concurrency # 0 => count' <= Concurrency
      BY <1>0, <2>1, <2>6
    <3> QED
      BY <1>0, <2>1, <3>1, <3>2 DEF AtLimit
  <2>8. count' > 0
    BY <1>0, <2>1
  <2> QED
    BY <2>2, <2>4, <2>5, <2>7, <2>8 DEF StreamInv, ConcurrencyRespected
<1>3. ASSUME NEW l \in Lines, Executed(l) PROVE StreamInv'
  <2>1. /\ act[l] = "executing" /\ act' = [act EXCEPT ![l] = "mutating"]
        /\ UNCHANGED <<read, flowing, busyVars, run, rows, printed>>
    BY <1>3 DEF Executed
  <2>2. Acting' = Acting
    BY <1>0, <2>1 DEF Acting
  <2> QED
    BY <1>0, <2>1, <2>2 DEF StreamInv, ConcurrencyRespected, CliTypeOK, busyVars
<1>4. ASSUME NEW l \in Lines, Settle(l) PROVE StreamInv'
  <2>1. PICK how \in {"done", "failed"} : l \in Acting /\ Finish(l, how)
    BY <1>4 DEF Settle, Complete, Fail, Acting
  <2>2. /\ act' = [act EXCEPT ![l] = how]
        /\ count' = count - 1 /\ zeroPending' = (zeroPending /\ count' # 0)
        /\ UNCHANGED <<max, resolvers, read, run>> /\ flowing' = TRUE
    BY <1>0, <2>1, Finishes
  <2>3. rows' \in Seq(Lines) /\ Len(rows') < MaxTableRows /\ printed' \in Seq(Lines)
    BY <1>0, <1>4, ShowTypes DEF Settle, Complete, Fail
  <2>4. Acting' = Acting \ {l}
    BY <1>0, <2>1, <2>2 DEF Acting
  <2>5. count' = Cardinality(Acting') /\ count' \in Nat
    <3>1. Cardinality(Acting') = Cardinality(Acting) - 1
      BY <2>1, <2>4, LinesFinite, FS_RemoveElement
    <3>2. IsFiniteSet(Acting')
      BY <2>4, LinesFinite, FS_RemoveElement
    <3> QED
      BY <1>0, <2>2, <3>1, <3>2, FS_CardinalityType
  <2>6. CliTypeOK'
    BY <1>0, <2>1, <2>2, <2>3, <2>5 DEF CliTypeOK
  <2>7. Concurrency # 0 => count' <= Concurrency /\ count' < Concurrency
    BY <1>0, <2>2 DEF StreamInv, ConcurrencyRespected
  <2>8. run = "waiting" => (zeroPending' <=> count' # 0)
    <3>1. run = "waiting" => zeroPending
      BY <1>0, <2>2, <2>5 DEF StreamInv
    <3> QED
      BY <2>2, <3>1
  <2>9. run # "closed"
    BY <1>0, <2>2, <2>5 DEF StreamInv
  <2> QED
    BY <2>2, <2>5, <2>6, <2>7, <2>8, <2>9 DEF StreamInv, ConcurrencyRespected
<1>5. CASE EndOfInput
  BY <1>0, <1>5 DEF EndOfInput, StreamInv, ConcurrencyRespected, CliTypeOK, busyVars, Acting
<1>6. CASE StreamError
  BY <1>0, <1>6 DEF StreamError, StreamInv, ConcurrencyRespected, CliTypeOK, busyVars, Acting
<1>7. CASE AwaitZero
  <2>1. /\ run = "draining" /\ run' = "waiting" /\ zeroPending' = (count # 0)
        /\ UNCHANGED <<read, flowing, act, count, max, resolvers, rows, printed>>
    BY <1>7 DEF AwaitZero, Busy!WaitForZero
  <2> QED
    BY <1>0, <2>1 DEF StreamInv, ConcurrencyRespected, CliTypeOK, Acting
<1>8. CASE Close
  <2>1. /\ run = "waiting" /\ ~zeroPending /\ run' = "closed"
        /\ rows' = << >> /\ printed' = printed \o rows
        /\ UNCHANGED <<read, flowing, act, busyVars>>
    BY <1>8 DEF Close
  <2>2. rows' \in Seq(Lines) /\ Len(rows') < MaxTableRows /\ printed' \in Seq(Lines)
    BY <1>0, <2>1, NoRows, ConcatProperties
  <2> QED
    BY <1>0, <2>1, <2>2 DEF StreamInv, ConcurrencyRespected, CliTypeOK, busyVars, Acting
<1>9. CASE UNCHANGED cliVars
  BY <1>0, <1>9 DEF cliVars, StreamInv, ConcurrencyRespected, CliTypeOK, busyVars, Acting
<1> QED
  BY <1>1, <1>2, <1>3, <1>4, <1>5, <1>6, <1>7, <1>8, <1>9 DEF StreamNext

(* The stream is never busier than it may be, in every behaviour.          *)
THEOREM ConcurrencyKept ==
  StreamInit /\ [][StreamNext]_cliVars => []ConcurrencyRespected
<1>1. StreamInv => ConcurrencyRespected
  BY DEF StreamInv
<1> QED
  BY <1>1, StreamInitOK, StreamStep, PTL

-----------------------------------------------------------------------------
(* PrintedOnce.                                                            *)

All == printed \o rows
Elements(q) == {q[i] : i \in 1..Len(q)}
Distinct(q) == \A i, j \in 1..Len(q) : q[i] = q[j] => i = j
DoneAndShown == {l \in Lines : act[l] = "done" /\ Shown(l)}

PrintInv ==
  /\ StreamInv
  /\ Elements(All) = DoneAndShown
  /\ Distinct(All)
  /\ run = "closed" => rows = << >>

(* A new element at the end of a sequence leaves it without repetitions.   *)
LEMMA OneMore ==
  ASSUME NEW S, NEW q \in Seq(S), NEW e \in S, e \notin Elements(q), Distinct(q)
  PROVE  Elements(Append(q, e)) = Elements(q) \union {e} /\ Distinct(Append(q, e))
<1> DEFINE p == Append(q, e)
<1>1. /\ Len(q) \in Nat /\ Len(p) = Len(q) + 1
      /\ \A i \in 1..Len(q) : p[i] = q[i]
      /\ p[Len(q) + 1] = e
  BY AppendProperties
<1> HIDE DEF p
<1>2. \A i \in 1..Len(p) : i \in 1..Len(q) \/ i = Len(q) + 1
  BY <1>1
<1>3. 1..Len(q) \subseteq 1..Len(p) /\ Len(q) + 1 \in 1..Len(p)
  BY <1>1
<1>4. \A i \in 1..Len(q) : p[i] # e
  BY <1>1 DEF Elements
<1>5. Elements(p) = Elements(q) \union {e}
  BY <1>1, <1>2, <1>3 DEF Elements
<1>6. Distinct(p)
  <2> SUFFICES ASSUME NEW i \in 1..Len(p), NEW j \in 1..Len(p), p[i] = p[j] PROVE i = j
    BY DEF Distinct
  <2>1. CASE i \in 1..Len(q) /\ j \in 1..Len(q)
    BY <1>1, <2>1 DEF Distinct
  <2>2. CASE i = Len(q) + 1 \/ j = Len(q) + 1
    BY <1>1, <1>2, <1>4, <2>2
  <2> QED
    BY <1>2, <2>1, <2>2
<1> QED
  BY <1>5, <1>6 DEF p

(* However the batches split, what is shown is the end of what is printed  *)
(* and about to be.                                                        *)
LEMMA ShowAppends ==
  ASSUME CliTypeOK, NEW l \in Lines, Show(l)
  PROVE  /\ Shown(l) => All' = Append(All, l)
         /\ ~Shown(l) => All' = All
<1>1. /\ rows \in Seq(Lines) /\ printed \in Seq(Lines) /\ <<l>> \in Seq(Lines)
      /\ printed \o rows \in Seq(Lines) /\ Append(rows, l) \in Seq(Lines)
      /\ printed \o Append(rows, l) \in Seq(Lines)
  BY ConcatProperties, AppendProperties DEF CliTypeOK
<1>2. Append(rows, l) = rows \o <<l>> /\ Append(printed \o rows, l) = (printed \o rows) \o <<l>>
  BY <1>1, AppendIsConcat
<1>3. printed \o Append(rows, l) = Append(printed \o rows, l)
  BY <1>1, <1>2, ConcatAssociative
<1>4. CASE Shown(l) /\ Len(rows) + 1 = MaxTableRows
  <2>1. rows' = << >> /\ printed' = printed \o Append(rows, l)
    BY <1>4 DEF Show
  <2>2. printed' \o rows' = printed'
    BY <1>1, <2>1, ConcatEmptySeq
  <2> QED
    BY <1>3, <1>4, <2>1, <2>2 DEF All
<1>5. CASE Shown(l) /\ Len(rows) + 1 # MaxTableRows
  BY <1>3, <1>5 DEF Show, All
<1>6. CASE ~Shown(l)
  BY <1>6 DEF Show, All
<1> QED
  BY <1>4, <1>5, <1>6

(* Nothing has been printed at the beginning,                              *)
LEMMA PrintInitOK == StreamInit => PrintInv
<1> SUFFICES ASSUME StreamInit PROVE PrintInv
  OBVIOUS
<1>1. StreamInv
  BY StreamInitOK
<1>2. All = << >>
  BY NoRows, ConcatEmptySeq DEF StreamInit, All
<1>3. Elements(All) = {} /\ Distinct(All)
  BY <1>2, NoRows DEF Elements, Distinct
<1>4. DoneAndShown = {}
  BY DEF StreamInit, DoneAndShown
<1> QED
  BY <1>1, <1>3, <1>4 DEF StreamInit, PrintInv

(* and no step loses a row or prints one twice.                            *)
LEMMA PrintStep == PrintInv /\ [StreamNext]_cliVars => PrintInv'
<1> SUFFICES ASSUME PrintInv, [StreamNext]_cliVars PROVE PrintInv'
  OBVIOUS
<1>0. /\ StreamInv /\ StreamInv' /\ CliTypeOK
      /\ Elements(All) = DoneAndShown /\ Distinct(All)
      /\ act \in [Lines -> {"unread", "executing", "mutating", "done", "failed"}]
      /\ rows \in Seq(Lines) /\ printed \in Seq(Lines) /\ All \in Seq(Lines)
  BY StreamStep, ConcatProperties DEF PrintInv, StreamInv, ConcurrencyRespected, CliTypeOK, All
<1>1. ASSUME UNCHANGED <<rows, printed>>, DoneAndShown' = DoneAndShown,
             run' = "closed" => run = "closed"
      PROVE  PrintInv'
  BY <1>0, <1>1 DEF PrintInv, All, Elements, Distinct
<1>2. CASE SkipLine \/ EndOfInput \/ StreamError \/ AwaitZero \/ UNCHANGED cliVars
  <2>1. UNCHANGED <<act, rows, printed>> /\ (run' = "closed" => run = "closed")
    BY <1>2 DEF SkipLine, EndOfInput, StreamError, AwaitZero, cliVars
  <2> QED
    BY <1>1, <2>1 DEF DoneAndShown, Shown
<1>3. CASE StartAction
  <2>1. /\ read + 1 \in Lines /\ act[read + 1] = "unread"
        /\ act' = [act EXCEPT ![read + 1] = "executing"]
        /\ UNCHANGED <<run, rows, printed>>
    BY <1>0, <1>3, Starts DEF StartAction
  <2>2. DoneAndShown' = DoneAndShown
    BY <1>0, <2>1 DEF DoneAndShown, Shown
  <2> QED
    BY <1>1, <2>1, <2>2
<1>4. ASSUME NEW l \in Lines, Executed(l) PROVE PrintInv'
  <2>1. /\ act[l] = "executing" /\ act' = [act EXCEPT ![l] = "mutating"]
        /\ UNCHANGED <<run, rows, printed>>
    BY <1>4 DEF Executed
  <2>2. DoneAndShown' = DoneAndShown
    BY <1>0, <2>1 DEF DoneAndShown, Shown
  <2> QED
    BY <1>1, <2>1, <2>2
<1>5. ASSUME NEW l \in Lines, Fail(l) PROVE PrintInv'
  <2>1. /\ act[l] # "done" /\ act' = [act EXCEPT ![l] = "failed"]
        /\ UNCHANGED <<run, rows, printed>>
    BY <1>0, <1>5, Finishes DEF Fail, Acting
  <2>2. DoneAndShown' = DoneAndShown
    BY <1>0, <2>1 DEF DoneAndShown, Shown
  <2> QED
    BY <1>1, <2>1, <2>2
<1>6. ASSUME NEW l \in Lines, Complete(l) PROVE PrintInv'
  <2>1. /\ act[l] = "mutating" /\ act' = [act EXCEPT ![l] = "done"]
        /\ Show(l) /\ l \in Acting /\ run' = run /\ count' = count - 1
    BY <1>0, <1>6, Finishes DEF Complete, Acting
  <2>2. run # "closed"
    BY <1>0, <2>1, LinesFinite, FS_EmptySet DEF StreamInv, ConcurrencyRespected
  <2>3. DoneAndShown' = IF Shown(l) THEN DoneAndShown \union {l} ELSE DoneAndShown
    BY <1>0, <2>1 DEF DoneAndShown, Shown
  <2>4. l \notin DoneAndShown
    BY <2>1 DEF DoneAndShown
  <2>5. CASE Shown(l)
    <3>1. All' = Append(All, l)
      BY <1>0, <2>1, <2>5, ShowAppends
    <3>2. Elements(Append(All, l)) = Elements(All) \union {l} /\ Distinct(Append(All, l))
      BY <1>0, <2>4, OneMore
    <3>3. Elements(All)' = DoneAndShown' /\ Distinct(All)'
      BY <1>0, <2>3, <2>5, <3>1, <3>2 DEF Elements, Distinct
    <3> QED
      BY <1>0, <2>1, <2>2, <3>3 DEF PrintInv
  <2>6. CASE ~Shown(l)
    <3>1. All' = All
      BY <1>0, <2>1, <2>6, ShowAppends
    <3> QED
      BY <1>0, <2>1, <2>2, <2>3, <2>6, <3>1 DEF PrintInv, Elements, Distinct
  <2> QED
    BY <2>5, <2>6
<1>7. CASE Close
  <2>1. rows' = << >> /\ printed' = printed \o rows /\ UNCHANGED act
    BY <1>7 DEF Close
  <2>2. All' = All
    BY <1>0, <2>1, ConcatEmptySeq DEF All
  <2>3. DoneAndShown' = DoneAndShown
    BY <2>1 DEF DoneAndShown, Shown
  <2> QED
    BY <1>0, <2>1, <2>2, <2>3 DEF PrintInv, Elements, Distinct
<1> QED
  BY <1>2, <1>3, <1>4, <1>5, <1>6, <1>7 DEF StreamNext, Settle

(* Each action that was to be shown is printed once, and none is under way *)
(* when the program ends.                                                  *)
THEOREM EachPrintedOnce ==
  StreamInit /\ [][StreamNext]_cliVars => []PrintedOnce
<1>1. PrintInv => PrintedOnce
  <2> SUFFICES ASSUME PrintInv PROVE PrintedOnce
    OBVIOUS
  <2>1. /\ {All[i] : i \in 1..Len(All)} = {l \in Lines : act[l] = "done" /\ Shown(l)}
        /\ \A i, j \in 1..Len(All) : All[i] = All[j] => i = j
    BY DEF PrintInv, Elements, DoneAndShown, Distinct
  <2>2. run = "closed" => rows = << >> /\ read = NumLines /\ Acting = {}
    BY LinesFinite, FS_EmptySet DEF PrintInv, StreamInv, ConcurrencyRespected
  <2> QED
    BY <2>1, <2>2 DEF PrintedOnce, All
<1> QED
  BY <1>1, PrintInitOK, PrintStep, PTL

-----------------------------------------------------------------------------
(* wrap() and waitForZero() of the stream are operations of the semaphore, *)
(* and every step of the stream is one of it or does not touch it.         *)
THEOREM StreamUsesSemaphore ==
  StreamInit /\ [][StreamNext]_cliVars => Busy!SemInit /\ [][Busy!SemNext]_(Busy!semVars)
<1>1. StreamInit => Busy!SemInit
  BY DEF StreamInit, Busy!SemInit, LockStatus, Acting
<1>2. StreamInv /\ [StreamNext]_cliVars => [Busy!SemNext]_(Busy!semVars)
  <2> SUFFICES ASSUME StreamInv, [StreamNext]_cliVars
               PROVE  Busy!SemNext \/ UNCHANGED Busy!semVars
    OBVIOUS
  <2>0. /\ CliTypeOK
        /\ act \in [Lines -> {"unread", "executing", "mutating", "done", "failed"}]
    BY DEF StreamInv, ConcurrencyRespected, CliTypeOK
  <2>1. ASSUME UNCHANGED <<busyVars, act>> PROVE UNCHANGED Busy!semVars
    BY <2>1 DEF Busy!semVars, busyVars, LockStatus, Acting
  <2>2. CASE SkipLine \/ EndOfInput \/ StreamError \/ Close \/ UNCHANGED cliVars
    BY <2>1, <2>2 DEF SkipLine, EndOfInput, StreamError, Close, cliVars
  <2>3. CASE StartAction
    BY <2>3, <2>0, Starts DEF StartAction, Busy!SemNext
  <2>4. CASE AwaitZero
    BY <2>4 DEF AwaitZero, Busy!SemNext
  <2>5. ASSUME NEW l \in Lines, Executed(l) PROVE UNCHANGED Busy!semVars
    <3>1. UNCHANGED busyVars /\ act[l] = "executing" /\ act' = [act EXCEPT ![l] = "mutating"]
      BY <2>5 DEF Executed
    <3>2. Acting' = Acting
      BY <2>0, <3>1 DEF Acting
    <3>3. LockStatus' = LockStatus
      BY <2>0, <3>1, <3>2 DEF LockStatus
    <3> QED
      BY <3>1, <3>3 DEF Busy!semVars, busyVars
  <2>6. ASSUME NEW l \in Lines, Settle(l) PROVE Busy!Release(l)
    <3>1. l \in Acting /\ Busy!Decrement(l)
      BY <2>6 DEF Settle, Complete, Fail, Finish, Acting
    <3>2. LockStatus[l] = "holding"
      BY <3>1 DEF LockStatus, Acting
    <3> QED
      BY <3>1, <3>2 DEF Busy!Release
  <2> QED
    BY <2>2, <2>3, <2>4, <2>5, <2>6 DEF StreamNext, Busy!SemNext
<1> QED
  BY <1>1, <1>2, StreamInitOK, StreamStep, PTL

(* The stream is not paused, and does not wait for zero, with no action    *)
(* left to end it: pausing, resuming and the count go together.            *)
THEOREM StreamNeverStuck == StreamInit /\ [][StreamNext]_cliVars => []StreamNotStuck
<1>1. StreamInv => StreamNotStuck
  <2> SUFFICES ASSUME StreamInv, run \notin {"closed", "failed", "draining"}, Acting = {}
               PROVE  \/ run = "reading" /\ flowing
                      \/ run = "waiting" /\ ~zeroPending
    BY DEF StreamNotStuck
  <2>1. count = 0
    BY FS_EmptySet DEF StreamInv, ConcurrencyRespected
  <2> QED
    BY <2>1 DEF StreamInv, ConcurrencyRespected, CliTypeOK
<1> QED
  BY <1>1, StreamInitOK, StreamStep, PTL

-----------------------------------------------------------------------------
(* Recompile: the lock. Its lemmas are those of the semaphore.             *)

LockLemmas == INSTANCE SemaphoreProofs WITH
  Requests <- Handlers \union {0}, NoMax <- -1, Limits <- {1}, Impatient <- Handlers,
  count <- lockCount, max <- lockMax, resolvers <- lockQueue,
  status <- lockOf, zeroPending <- lockZero

(* What the semaphore assumes holds of compilingLock.                      *)
LEMMA LockAssumption ==
  /\ LockLemmas!IsFiniteSet(Handlers \union {0})
  /\ -1 \notin Nat
  /\ {1} \subseteq (Nat \ {0}) \union {-1}
  /\ Handlers \subseteq Handlers \union {0}
<1>1. IsFiniteSet(Handlers)
  BY FS_Interval, RecompileAssumption DEF Handlers
<1>2. IsFiniteSet(Handlers \union {0})
  BY <1>1, FS_AddElement
<1> QED
  BY <1>2 DEF LockLemmas!IsFiniteSet, IsFiniteSet

(* The lock in order, and with one holder at most.                         *)
LockOK == LockLemmas!SemInv /\ lockCount <= 1

(* A handler and its place at the lock.                                    *)
PlaceOK(h) ==
  /\ handler[h] = "none" <=> lockOf[h] = "idle"
  /\ handler[h] = "taking" => lockOf[h] \in {"waiting", "passed", "holding"}
  /\ handler[h] \in {"compiled", "adopted"} => lockOf[h] = "holding"
  /\ handler[h] = "gone" => lockOf[h] \in {"refused", "done"}

(* A handler and what it compiled: the source of that moment, which is no  *)
(* older than the change it was called for.                                *)
CompiledOK(h) ==
  IF \/ handler[h] \in {"compiled", "adopted"}
     \/ handler[h] = "gone" /\ lockOf[h] = "done"
    THEN compiled[h] \in h..source
    ELSE compiled[h] = None

(* The handlers that are through with their executable.                    *)
Through == {h \in Handlers : handler[h] \in {"adopted", "gone"}}
Tried == {compiled[h] : h \in Through} \ (Broken \union {None})

RecompileTypeOK ==
  /\ source \in Sources
  /\ noticed \in 0..source
  /\ main \in {"loading", "failed", "loaded", "running"}
  /\ executable \in Sources \union {None}
  /\ handler \in [Handlers -> {"none", "taking", "compiled", "adopted", "gone"}]
  /\ compiled \in [Handlers -> Sources \union {None}]

(* cliMain() has the lock until it runs; before the program is loaded      *)
(* nobody else asks for it.                                                *)
MainOK ==
  /\ lockOf[0] = IF main = "running" THEN "done" ELSE "holding"
  /\ main \in {"loading", "failed"} => \A h \in Handlers : handler[h] = "none"

(* There is a handler for the last change that was noticed, unless the     *)
(* program was loaded after it and nothing has changed since.              *)
NoticedOK ==
  /\ \A h \in Handlers : h > noticed => handler[h] = "none"
  /\ main \in {"loaded", "running"} /\ (noticed = 0 \/ handler[noticed] = "none") =>
       executable = noticed /\ \A h \in Handlers : handler[h] = "none"

(* The executable is the newest that was tried, and what is compiled and   *)
(* not adopted yet is newer still.                                         *)
OrderOK ==
  /\ main \in {"loaded", "running"} => executable \in Sources \ Broken /\ executable <= source
  /\ \A s \in Tried : s <= executable
  /\ Tried # {} => executable \in Tried
  /\ \A h \in Handlers : handler[h] = "compiled" => \A s \in Tried : s <= compiled[h]

RecompileInv ==
  /\ RecompileTypeOK
  /\ LockOK
  /\ \A h \in Handlers : PlaceOK(h) /\ CompiledOK(h)
  /\ MainOK
  /\ NoticedOK
  /\ OrderOK

(* The operations of the instance of the proofs are those of the model's.  *)
LEMMA SameLock ==
  ASSUME NEW r
  PROVE  /\ Lock!Increment(r) <=> LockLemmas!Increment(r)
         /\ Lock!Resume(r) <=> LockLemmas!Resume(r)
         /\ Lock!TimeOut(r) <=> LockLemmas!TimeOut(r)
         /\ Lock!Release(r) <=> LockLemmas!Release(r)
<1>1. Lock!HasRoom <=> LockLemmas!HasRoom
  BY DEF Lock!HasRoom, LockLemmas!HasRoom
<1>2. Lock!Decrement(r) <=> LockLemmas!Decrement(r)
  BY DEF Lock!Decrement, LockLemmas!Decrement, Lock!Passed, LockLemmas!Passed
<1> QED
  BY <1>1, <1>2 DEF Lock!Increment, LockLemmas!Increment, Lock!Resume, LockLemmas!Resume,
       Lock!TimeOut, LockLemmas!TimeOut, Lock!Release, LockLemmas!Release

LockOp(r) == Lock!Increment(r) \/ Lock!Resume(r) \/ Lock!TimeOut(r) \/ Lock!Release(r)

(* What an operation of the lock does to it and to those who wait for it.  *)
LEMMA LockSteps ==
  ASSUME LockOK, NEW r \in Handlers \union {0}, LockOp(r)
  PROVE  /\ LockOK'
         /\ \A q \in (Handlers \union {0}) \ {r} :
              lockOf'[q] = lockOf[q] \/ (lockOf[q] = "waiting" /\ lockOf'[q] = "passed")
         /\ Lock!Increment(r) => lockOf[r] = "idle" /\ lockOf'[r] \in {"holding", "waiting"}
         /\ Lock!Resume(r) => lockOf[r] = "passed" /\ lockOf'[r] = "holding"
         /\ Lock!TimeOut(r) => lockOf[r] \in {"waiting", "passed"} /\ lockOf'[r] = "refused"
         /\ Lock!Release(r) => lockOf[r] = "holding" /\ lockOf'[r] = "done"
<1>1. /\ LockLemmas!Increment(r) \/ LockLemmas!Resume(r)
           \/ LockLemmas!TimeOut(r) \/ LockLemmas!Release(r)
      /\ LockLemmas!SemInv
  BY SameLock DEF LockOp, LockOK
<1>2. LockLemmas!SemTypeOK
  BY <1>1, LockAssumption, LockLemmas!Types
<1>3. [LockLemmas!SemNext]_(LockLemmas!semVars)
  BY <1>1 DEF LockLemmas!SemNext
<1>4. LockLemmas!SemInv'
  <2>1. LockLemmas!NoIdlePermit'
    BY <1>1, <1>3, LockAssumption, LockLemmas!StepQueue
  <2>2. LockLemmas!HoldersAreCounted'
    BY <1>1, <1>3, LockAssumption, LockLemmas!StepCount
  <2> QED
    BY <2>1, <2>2 DEF LockLemmas!SemInv
<1>5. lockCount' <= 1
  <2>1. \A m \in {1} : m # -1 /\ m <= 1
    OBVIOUS
  <2>2. 1 \in Nat /\ lockCount <= 1
    BY DEF LockOK
  <2> QED
    BY <1>1, <1>3, <2>1, <2>2, LockAssumption, LockLemmas!CeilingKept
<1> QED
  BY <1>1, <1>2, <1>4, <1>5, SameLock, LockAssumption, LockLemmas!OthersOnlyPass DEF LockOK

(* A step that leaves the lock alone leaves it in order.                   *)
LEMMA LockUntouched ==
  ASSUME LockOK, UNCHANGED lockVars
  PROVE  LockOK' /\ UNCHANGED lockOf
BY DEF lockVars, LockOK, LockLemmas!SemInv,
       LockLemmas!NoIdlePermit, LockLemmas!SemTypeOK, LockLemmas!HasRoom,
       LockLemmas!HoldersAreCounted, LockLemmas!Holders, LockLemmas!NobodyRefused

(* Two handlers are never both between taking the lock and releasing it.   *)
LEMMA LockExcludes ==
  ASSUME LockOK, NEW a \in Handlers \union {0}, NEW b \in Handlers \union {0},
         lockOf[a] = "holding", lockOf[b] = "holding"
  PROVE  a = b
<1>1. LockLemmas!MutualExclusion
  BY LockAssumption, LockLemmas!OneHolder DEF LockOK
<1> QED
  BY <1>1 DEF LockLemmas!MutualExclusion, LockLemmas!Holders

(* The invariant of the recompilations holds at the beginning,             *)
LEMMA RecompileInitOK == RecompileInit => RecompileInv
<1> SUFFICES ASSUME RecompileInit PROVE RecompileInv
  OBVIOUS
<1>1. 0 \in Sources /\ None \notin Sources /\ Handlers \subseteq Sources \ {0}
  BY RecompileAssumption DEF Sources, None, Handlers
<1>2. RecompileTypeOK
  BY <1>1 DEF RecompileInit, RecompileTypeOK
<1>3. LockOK
  <2>1. LockLemmas!SemInv
    <3>1. 0 \in Handlers \union {0}
      OBVIOUS
    <3> QED
      BY <3>1, LockAssumption, LockLemmas!TakenOK DEF RecompileInit
  <2> QED
    BY <2>1 DEF LockOK, RecompileInit
<1>4. \A h \in Handlers : PlaceOK(h) /\ CompiledOK(h)
  BY <1>1 DEF RecompileInit, PlaceOK, CompiledOK
<1>5. Tried = {}
  BY DEF RecompileInit, Tried, Through
<1> QED
  BY <1>2, <1>3, <1>4, <1>5 DEF RecompileInit, RecompileInv, MainOK, NoticedOK, OrderOK

(* Numbers of sources and handlers.                                        *)
LEMMA Numbers ==
  /\ Sources \subseteq Nat /\ None \in Nat /\ None \notin Sources
  /\ Handlers \subseteq Sources \ {0}
  /\ NumEdits \in Nat
  /\ \A s \in Sources : s = 0 \/ s \in Handlers
BY RecompileAssumption DEF Sources, None, Handlers

(* Where a handler stands is not disturbed by the others.                  *)
LEMMA PlaceKept ==
  ASSUME NEW h \in Handlers, PlaceOK(h), CompiledOK(h),
         handler'[h] = handler[h], compiled'[h] = compiled[h], source' = source,
         lockOf'[h] = lockOf[h] \/ (lockOf[h] = "waiting" /\ lockOf'[h] = "passed")
  PROVE  PlaceOK(h)' /\ CompiledOK(h)'
BY DEF PlaceOK, CompiledOK

(* Nor is anything else by what a handler does, the executable apart.      *)
LEMMA HandlerStep ==
  ASSUME RecompileInv,
         NEW h \in Handlers, handler[h] # "none",
         NEW to \in {"taking", "compiled", "adopted", "gone"},
         handler' = [handler EXCEPT ![h] = to],
         UNCHANGED <<source, noticed, main>>,
         NEW c \in Sources \union {None}, compiled' = [compiled EXCEPT ![h] = c],
         executable' \in Sources \union {None},
         LockOK',
         \A q \in (Handlers \union {0}) \ {h} :
           lockOf'[q] = lockOf[q] \/ (lockOf[q] = "waiting" /\ lockOf'[q] = "passed"),
         PlaceOK(h)', CompiledOK(h)',
         OrderOK'
  PROVE  RecompileInv'
<1>0. /\ RecompileTypeOK /\ LockOK /\ MainOK /\ NoticedOK
      /\ \A q \in Handlers : PlaceOK(q) /\ CompiledOK(q)
      /\ handler \in [Handlers -> {"none", "taking", "compiled", "adopted", "gone"}]
      /\ compiled \in [Handlers -> Sources \union {None}]
  BY DEF RecompileInv, RecompileTypeOK
<1>1. \A q \in Handlers : handler'[q] = "none" <=> handler[q] = "none"
  BY <1>0
<1>2. RecompileTypeOK'
  BY <1>0 DEF RecompileTypeOK
<1>3. ASSUME NEW q \in Handlers PROVE PlaceOK(q)' /\ CompiledOK(q)'
  <2>1. CASE q = h
    BY <2>1
  <2>2. CASE q # h
    <3>1. handler'[q] = handler[q] /\ compiled'[q] = compiled[q]
      BY <1>0, <2>2
    <3>2. lockOf'[q] = lockOf[q] \/ (lockOf[q] = "waiting" /\ lockOf'[q] = "passed")
      BY <2>2
    <3> QED
      BY <1>0, <3>1, <3>2, PlaceKept
  <2> QED
    BY <2>1, <2>2
<1>4. MainOK'
  <2>1. 0 # h
    BY Numbers
  <2>2. lockOf[0] \in {"done", "holding"}
    BY <1>0 DEF MainOK
  <2>3. lockOf'[0] = lockOf[0]
    BY <2>1, <2>2
  <2> QED
    BY <1>0, <1>1, <2>3 DEF MainOK
<1>5. NoticedOK'
  <2>1. ~(\A q \in Handlers : handler[q] = "none")
    OBVIOUS
  <2>2. main \in {"loaded", "running"} => noticed \in Handlers /\ handler[noticed] # "none"
    <3>1. noticed \in Sources
      BY <1>0, Numbers DEF RecompileTypeOK, Sources
    <3> QED
      BY <1>0, <2>1, <3>1, Numbers DEF NoticedOK
  <2>3. noticed \in Handlers => noticed # 0
    BY Numbers
  <2> QED
    BY <1>0, <1>1, <2>2, <2>3 DEF NoticedOK
<1> QED
  BY <1>2, <1>3, <1>4, <1>5 DEF RecompileInv

(* and every step keeps it.                                                *)
LEMMA RecompileStep == RecompileInv /\ [RecompileNext]_recompileVars => RecompileInv'
<1> SUFFICES ASSUME RecompileInv, [RecompileNext]_recompileVars PROVE RecompileInv'
  OBVIOUS
<1>0. /\ RecompileTypeOK /\ LockOK /\ MainOK /\ NoticedOK /\ OrderOK
      /\ \A q \in Handlers : PlaceOK(q) /\ CompiledOK(q)
      /\ source \in Sources /\ source \in Nat /\ noticed \in 0..source
      /\ handler \in [Handlers -> {"none", "taking", "compiled", "adopted", "gone"}]
      /\ compiled \in [Handlers -> Sources \union {None}]
      /\ executable \in Sources \union {None}
  BY Numbers DEF RecompileInv, RecompileTypeOK
<1>1. CASE Edit
  <2>1. /\ source < NumEdits /\ source' = source + 1
        /\ UNCHANGED <<noticed, main, executable, handler, compiled, lockVars>>
    BY <1>1 DEF Edit
  <2>2. source' \in Sources /\ noticed' \in 0..source'
    BY <1>0, <2>1, Numbers DEF Sources
  <2>3. RecompileTypeOK'
    BY <1>0, <2>1, <2>2 DEF RecompileTypeOK
  <2>4. LockOK' /\ MainOK' /\ NoticedOK'
    BY <1>0, <2>1, LockUntouched DEF MainOK, NoticedOK
  <2>5. \A q \in Handlers : PlaceOK(q)' /\ CompiledOK(q)'
    <3> SUFFICES ASSUME NEW q \in Handlers PROVE PlaceOK(q)' /\ CompiledOK(q)'
      OBVIOUS
    <3>1. PlaceOK(q)'
      BY <1>0, <2>1 DEF PlaceOK, lockVars
    <3>2. q..source \subseteq q..source'
      BY <1>0, <2>1, Numbers
    <3> QED
      BY <1>0, <2>1, <3>1, <3>2 DEF CompiledOK, lockVars
  <2>6. OrderOK'
    <3>1. Tried' = Tried
      BY <2>1 DEF Tried, Through
    <3>2. executable \in Sources => (executable <= source => executable <= source')
      BY <1>0, <2>1, Numbers
    <3> QED
      BY <1>0, <2>1, <3>1, <3>2 DEF OrderOK
  <2> QED
    BY <2>3, <2>4, <2>5, <2>6 DEF RecompileInv
<1>2. CASE FirstLoad
  <2>1. /\ main = "loading" /\ noticed' = source
        /\ main' \in {"failed", "loaded"}
        /\ main' = "loaded" => executable' = source /\ source \notin Broken
        /\ executable' \in {executable, source}
        /\ UNCHANGED <<source, handler, compiled, lockVars>>
    BY <1>2 DEF FirstLoad
  <2>2. \A h \in Handlers : handler[h] = "none"
    BY <1>0, <2>1 DEF MainOK
  <2>3. RecompileTypeOK'
    BY <1>0, <2>1 DEF RecompileTypeOK
  <2>4. LockOK'
    BY <1>0, <2>1, LockUntouched
  <2>5. MainOK' /\ NoticedOK'
    BY <1>0, <2>1, <2>2 DEF MainOK, NoticedOK, lockVars
  <2>6. \A q \in Handlers : PlaceOK(q)' /\ CompiledOK(q)'
    BY <1>0, <2>1 DEF PlaceOK, CompiledOK, lockVars
  <2>7. OrderOK'
    <3>1. Tried' = {}
      BY <2>1, <2>2 DEF Tried, Through
    <3> QED
      BY <1>0, <2>1, <3>1 DEF OrderOK
  <2> QED
    BY <2>3, <2>4, <2>5, <2>6, <2>7 DEF RecompileInv
<1>3. CASE StartRun
  <2>1. /\ main = "loaded" /\ main' = "running" /\ Lock!Release(0)
        /\ UNCHANGED <<source, noticed, executable, handler, compiled>>
    BY <1>3 DEF StartRun
  <2>2. /\ LockOK'
        /\ \A q \in (Handlers \union {0}) \ {0} :
             lockOf'[q] = lockOf[q] \/ (lockOf[q] = "waiting" /\ lockOf'[q] = "passed")
        /\ lockOf'[0] = "done"
    BY <1>0, <2>1, LockSteps DEF LockOp
  <2>3. RecompileTypeOK' /\ MainOK' /\ NoticedOK'
    BY <1>0, <2>1, <2>2 DEF RecompileTypeOK, MainOK, NoticedOK
  <2>4. \A q \in Handlers : PlaceOK(q)' /\ CompiledOK(q)'
    <3> SUFFICES ASSUME NEW q \in Handlers PROVE PlaceOK(q)' /\ CompiledOK(q)'
      OBVIOUS
    <3>1. q \in (Handlers \union {0}) \ {0}
      BY Numbers
    <3> QED
      BY <1>0, <2>1, <2>2, <3>1, PlaceKept
  <2>5. OrderOK'
    BY <1>0, <2>1 DEF OrderOK, Tried, Through
  <2> QED
    BY <2>2, <2>3, <2>4, <2>5 DEF RecompileInv
<1>4. CASE Change
  <2>1. /\ main \in {"loaded", "running"} /\ noticed # source /\ noticed' = source
        /\ handler' = [handler EXCEPT ![source] = "taking"]
        /\ Lock!Increment(source)
        /\ UNCHANGED <<source, main, executable, compiled>>
    BY <1>4 DEF Change
  <2>2. noticed < source /\ source \in Handlers /\ source # 0
    BY <1>0, <2>1, Numbers
  <2>3. /\ LockOK'
        /\ \A q \in (Handlers \union {0}) \ {source} :
             lockOf'[q] = lockOf[q] \/ (lockOf[q] = "waiting" /\ lockOf'[q] = "passed")
        /\ lockOf'[source] \in {"holding", "waiting"}
    BY <1>0, <2>1, <2>2, LockSteps DEF LockOp
  <2>4. handler[source] = "none"
    BY <1>0, <2>2 DEF NoticedOK
  <2>5. RecompileTypeOK'
    <3>1. source \in 0..source
      BY <1>0
    <3>2. handler' \in [Handlers -> {"none", "taking", "compiled", "adopted", "gone"}]
      BY <1>0, <2>1
    <3> QED
      BY <1>0, <2>1, <3>1, <3>2 DEF RecompileTypeOK
  <2>6. \A q \in Handlers : PlaceOK(q)' /\ CompiledOK(q)'
    <3> SUFFICES ASSUME NEW q \in Handlers PROVE PlaceOK(q)' /\ CompiledOK(q)'
      OBVIOUS
    <3>1. CASE q = source
      <4>1. handler'[q] = "taking" /\ compiled'[q] = None
        BY <1>0, <2>1, <2>4, <3>1 DEF CompiledOK
      <4> QED
        BY <2>3, <3>1, <4>1 DEF PlaceOK, CompiledOK
    <3>2. CASE q # source
      <4>1. handler'[q] = handler[q] /\ compiled'[q] = compiled[q]
        BY <1>0, <2>1, <3>2
      <4> QED
        BY <1>0, <2>1, <2>3, <3>2, <4>1, PlaceKept
    <3> QED
      BY <3>1, <3>2
  <2>7. MainOK'
    <3>1. lockOf'[0] = lockOf[0]
      <4>1. lockOf[0] \in {"done", "holding"}
        BY <1>0 DEF MainOK
      <4> QED
        BY <2>2, <2>3, <4>1
    <3> QED
      BY <1>0, <2>1, <3>1 DEF MainOK
  <2>8. NoticedOK'
    <3>1. \A h \in Handlers : h > source => handler'[h] = "none"
      <4> SUFFICES ASSUME NEW h \in Handlers, h > source PROVE handler'[h] = "none"
        OBVIOUS
      <4>1. h > noticed /\ h # source
        BY <1>0, <2>2, Numbers
      <4> QED
        BY <1>0, <2>1, <4>1 DEF NoticedOK
    <3>2. handler'[source] # "none"
      BY <1>0, <2>1, <2>2
    <3> QED
      BY <2>1, <2>2, <3>1, <3>2 DEF NoticedOK
  <2>9. OrderOK'
    <3>1. Through' = Through /\ \A h \in Handlers : handler'[h] = "compiled" => handler[h] = "compiled"
      BY <1>0, <2>1, <2>2, <2>4 DEF Through
    <3>2. Tried' = Tried
      BY <2>1, <3>1 DEF Tried
    <3> QED
      BY <1>0, <2>1, <3>1, <3>2 DEF OrderOK
  <2> QED
    BY <2>3, <2>5, <2>6, <2>7, <2>8, <2>9 DEF RecompileInv
<1>5. ASSUME NEW h \in Handlers, GiveUp(h) PROVE RecompileInv'
  <2>1. /\ handler[h] = "taking" /\ Lock!TimeOut(h)
        /\ handler' = [handler EXCEPT ![h] = "gone"]
        /\ UNCHANGED <<source, noticed, main, executable, compiled>>
    BY <1>5 DEF GiveUp
  <2>2. /\ LockOK'
        /\ \A q \in (Handlers \union {0}) \ {h} :
             lockOf'[q] = lockOf[q] \/ (lockOf[q] = "waiting" /\ lockOf'[q] = "passed")
        /\ lockOf'[h] = "refused"
    BY <1>0, <2>1, LockSteps DEF LockOp
  <2>3. compiled[h] = None
    BY <1>0, <2>1 DEF CompiledOK
  <2>4. PlaceOK(h)' /\ CompiledOK(h)'
    BY <1>0, <2>1, <2>2, <2>3 DEF PlaceOK, CompiledOK
  <2>5. OrderOK'
    <3>1. Through' = Through \union {h}
      BY <1>0, <2>1 DEF Through
    <3>2. Tried' = Tried
      BY <2>1, <2>3, <3>1 DEF Tried
    <3>3. \A q \in Handlers : handler'[q] = "compiled" => handler[q] = "compiled"
      BY <1>0, <2>1
    <3> QED
      BY <1>0, <2>1, <3>2, <3>3 DEF OrderOK
  <2>6. compiled' = [compiled EXCEPT ![h] = None] /\ executable' \in Sources \union {None}
    BY <1>0, <2>1, <2>3
  <2> QED
    BY <2>1, <2>2, <2>4, <2>5, <2>6, HandlerStep
<1>6. ASSUME NEW h \in Handlers, GetLock(h) PROVE RecompileInv'
  <2>1. Lock!Resume(h) /\ UNCHANGED <<source, noticed, main, executable, handler, compiled>>
    BY <1>6 DEF GetLock
  <2>2. /\ LockOK'
        /\ \A q \in (Handlers \union {0}) \ {h} :
             lockOf'[q] = lockOf[q] \/ (lockOf[q] = "waiting" /\ lockOf'[q] = "passed")
        /\ lockOf[h] = "passed" /\ lockOf'[h] = "holding"
    BY <1>0, <2>1, LockSteps DEF LockOp
  <2>3. handler[h] = "taking"
    BY <1>0, <2>2 DEF PlaceOK
  <2>4. PlaceOK(h)' /\ CompiledOK(h)'
    BY <1>0, <2>1, <2>2, <2>3 DEF PlaceOK, CompiledOK
  <2>5. OrderOK'
    BY <1>0, <2>1 DEF OrderOK, Tried, Through
  <2>6. handler' = [handler EXCEPT ![h] = "taking"] /\ compiled' = [compiled EXCEPT ![h] = compiled[h]]
    BY <1>0, <2>1, <2>3
  <2>7. compiled[h] \in Sources \union {None} /\ executable' \in Sources \union {None}
    BY <1>0, <2>1
  <2> QED
    BY <2>1, <2>2, <2>3, <2>4, <2>5, <2>6, <2>7, HandlerStep
<1>7. ASSUME NEW h \in Handlers, Compile(h) PROVE RecompileInv'
  <2>1. /\ handler[h] = "taking" /\ lockOf[h] = "holding"
        /\ handler' = [handler EXCEPT ![h] = "compiled"]
        /\ compiled' = [compiled EXCEPT ![h] = source]
        /\ UNCHANGED <<source, noticed, main, executable, lockVars>>
    BY <1>7 DEF Compile, HasLock
  <2>2. LockOK' /\ UNCHANGED lockOf
    BY <1>0, <2>1, LockUntouched
  <2>3. h <= source
    BY <1>0, <2>1, Numbers DEF NoticedOK
  <2>4. PlaceOK(h)' /\ CompiledOK(h)'
    BY <1>0, <2>1, <2>2, <2>3, Numbers DEF PlaceOK, CompiledOK
  <2>5. OrderOK'
    <3>1. Through' = Through /\ h \notin Through
      BY <1>0, <2>1 DEF Through
    <3>2. Tried' = Tried
      BY <1>0, <2>1, <3>1 DEF Tried, Through
    <3>3. \A s \in Tried : s <= source
      <4> SUFFICES ASSUME NEW q \in Through, compiled[q] # None PROVE compiled[q] <= source
        BY DEF Tried
      <4>1. q \in Handlers /\ compiled[q] \in q..source
        BY <1>0 DEF CompiledOK, Through
      <4> QED
        BY <1>0, <4>1, Numbers
    <3>4. ASSUME NEW q \in Handlers, handler'[q] = "compiled" PROVE \A s \in Tried : s <= compiled'[q]
      <4>1. CASE q = h
        BY <1>0, <2>1, <3>3, <4>1
      <4>2. CASE q # h
        BY <1>0, <2>1, <3>4, <4>2 DEF OrderOK
      <4> QED
        BY <4>1, <4>2
    <3> QED
      BY <1>0, <2>1, <3>2, <3>4 DEF OrderOK
  <2> QED
    BY <1>0, <2>1, <2>2, <2>4, <2>5, HandlerStep
<1>8. ASSUME NEW h \in Handlers, Adopt(h) PROVE RecompileInv'
  <2>1. /\ handler[h] = "compiled"
        /\ handler' = [handler EXCEPT ![h] = "adopted"]
        /\ executable' = IF compiled[h] \in Broken THEN executable ELSE compiled[h]
        /\ UNCHANGED <<source, noticed, main, compiled, lockVars>>
    BY <1>8 DEF Adopt
  <2>2. LockOK' /\ UNCHANGED lockOf
    BY <1>0, <2>1, LockUntouched
  <2>3. lockOf[h] = "holding" /\ compiled[h] \in h..source
    BY <1>0, <2>1 DEF PlaceOK, CompiledOK
  <2>4. compiled[h] \in Sources /\ compiled[h] # None
    BY <1>0, <2>3, Numbers DEF Sources, None
  <2>5. PlaceOK(h)' /\ CompiledOK(h)'
    BY <1>0, <2>1, <2>2, <2>3 DEF PlaceOK, CompiledOK
  <2>6. \A q \in Handlers : handler'[q] # "compiled"
    <3> SUFFICES ASSUME NEW q \in Handlers, handler'[q] = "compiled" PROVE FALSE
      OBVIOUS
    <3>1. q # h /\ handler[q] = "compiled"
      BY <1>0, <2>1
    <3>2. lockOf[q] = "holding"
      BY <1>0, <3>1 DEF PlaceOK
    <3> QED
      BY <1>0, <2>3, <3>1, <3>2, LockExcludes
  <2>7. Through' = Through \union {h}
    BY <1>0, <2>1 DEF Through
  <2>8. executable' \in Sources \union {None}
    BY <1>0, <2>1, <2>4
  <2>9. OrderOK'
    <3>1. \A s \in Tried : s <= compiled[h] /\ s \in Sources
      BY <1>0, <2>1 DEF OrderOK, Tried, Through
    <3>2. CASE compiled[h] \in Broken
      <4>1. Tried' = Tried
        BY <2>1, <2>7, <3>2 DEF Tried
      <4> QED
        BY <1>0, <2>1, <2>6, <3>2, <4>1 DEF OrderOK
    <3>3. CASE compiled[h] \notin Broken
      <4>1. Tried' = Tried \union {compiled[h]}
        BY <2>1, <2>4, <2>7, <3>3 DEF Tried
      <4>2. executable' = compiled[h] /\ compiled[h] <= source
        <5>1. h \in Int /\ source \in Int
          BY <1>0, Numbers
        <5>2. compiled[h] <= source
          BY <2>3, <5>1
        <5> QED
          BY <2>1, <3>3, <5>2
      <4>3. compiled[h] <= compiled[h]
        <5>1. compiled[h] \in Nat
          BY <2>4, Numbers
        <5>2. \A k \in Nat : k <= k
          OBVIOUS
        <5> QED
          BY <5>1, <5>2, Zenon
      <4>4. \A s \in Tried' : s <= executable'
        BY <3>1, <4>1, <4>2, <4>3
      <4>5. executable' \in Tried' /\ executable' \in Sources \ Broken /\ executable' <= source'
        BY <2>1, <2>4, <3>3, <4>1, <4>2
      <4> QED
        BY <2>6, <4>4, <4>5 DEF OrderOK
    <3> QED
      BY <3>2, <3>3
  <2>10. compiled' = [compiled EXCEPT ![h] = compiled[h]]
    BY <1>0, <2>1
  <2> QED
    BY <1>0, <2>1, <2>2, <2>4, <2>5, <2>8, <2>9, <2>10, HandlerStep
<1>9. ASSUME NEW h \in Handlers, Unlock(h) PROVE RecompileInv'
  <2>1. /\ handler[h] = "adopted" /\ Lock!Release(h)
        /\ handler' = [handler EXCEPT ![h] = "gone"]
        /\ UNCHANGED <<source, noticed, main, executable, compiled>>
    BY <1>9 DEF Unlock
  <2>2. /\ LockOK'
        /\ \A q \in (Handlers \union {0}) \ {h} :
             lockOf'[q] = lockOf[q] \/ (lockOf[q] = "waiting" /\ lockOf'[q] = "passed")
        /\ lockOf'[h] = "done"
    BY <1>0, <2>1, LockSteps DEF LockOp
  <2>3. PlaceOK(h)' /\ CompiledOK(h)'
    BY <1>0, <2>1, <2>2 DEF PlaceOK, CompiledOK
  <2>4. OrderOK'
    <3>1. Through' = Through /\ \A q \in Handlers : handler'[q] = "compiled" => handler[q] = "compiled"
      BY <1>0, <2>1 DEF Through
    <3>2. Tried' = Tried
      BY <2>1, <3>1 DEF Tried
    <3> QED
      BY <1>0, <2>1, <3>1, <3>2 DEF OrderOK
  <2>5. compiled' = [compiled EXCEPT ![h] = compiled[h]] /\ compiled[h] \in Sources \union {None}
        /\ executable' \in Sources \union {None}
    BY <1>0, <2>1
  <2> QED
    BY <2>1, <2>2, <2>3, <2>4, <2>5, HandlerStep
<1>10. CASE UNCHANGED recompileVars
  <2>1. LockOK'
    BY <1>0, <1>10, LockUntouched DEF recompileVars
  <2>2. UNCHANGED <<source, noticed, main, executable, handler, compiled, lockOf>>
    BY <1>10 DEF recompileVars, lockVars
  <2> QED
    BY <1>0, <2>1, <2>2 DEF RecompileInv, RecompileTypeOK, MainOK, NoticedOK, OrderOK,
         Tried, Through, PlaceOK, CompiledOK
<1> QED
  BY <1>1, <1>2, <1>3, <1>4, <1>5, <1>6, <1>7, <1>8, <1>9, <1>10 DEF RecompileNext, Handle

(* Whatever the edits and however compilations overlap, the stream runs on *)
(* the newest source that compiles, once all changes were handled.         *)
THEOREM NewestRuns ==
  RecompileInit /\ [][RecompileNext]_recompileVars => []NewestSourceRuns
<1>1. RecompileInv => NewestSourceRuns
  <2> SUFFICES ASSUME RecompileInv PROVE NewestSourceRuns
    OBVIOUS
  <2>0. /\ RecompileTypeOK /\ LockOK /\ NoticedOK /\ OrderOK
        /\ \A h \in Handlers : PlaceOK(h) /\ CompiledOK(h)
        /\ source \in Sources /\ source \in Nat
    BY Numbers DEF RecompileInv, RecompileTypeOK
  <2>1. main = "running" => executable \in Sources \ Broken
    BY <2>0 DEF OrderOK
  <2>2. ASSUME Settled PROVE executable = Newest
    <3> DEFINE tried == {compiled[h] : h \in Handlers} \ (Broken \union {None})
    <3>1. \A h \in Handlers : handler[h] \in {"none", "gone"}
      BY <2>2 DEF Settled
    <3>2. \A h \in Handlers : handler[h] = "none" => compiled[h] = None
      BY <2>0 DEF CompiledOK
    <3>3. tried = Tried
      BY <3>1, <3>2 DEF Tried, Through
    <3>4. Tried \subseteq Nat
      BY <2>0, Numbers DEF Tried, Through, RecompileTypeOK
    <3>5. CASE Tried = {}
      BY <3>3, <3>5 DEF Newest
    <3>6. CASE Tried # {}
      <4>1. executable \in Tried /\ \A t \in Tried : t <= executable
        BY <2>0, <3>6 DEF OrderOK
      <4>2. \A s \in Tried : (\A t \in Tried : t <= s) => s = executable
        BY <3>4, <4>1
      <4>3. executable = CHOOSE s \in Tried : \A t \in Tried : t <= s
        BY <4>1, <4>2
      <4> HIDE DEF tried
      <4> QED
        BY <3>3, <4>1, <4>3 DEF Newest, tried
    <3> QED
      BY <3>5, <3>6
  <2>3. ASSUME Settled, Lock!NobodyRefused, source # 0, source \notin Broken
        PROVE  executable = source
    <3>1. main = "running" /\ noticed = source /\ source \in Handlers
          /\ handler[source] \in {"none", "gone"}
      BY <2>0, <2>3, Numbers DEF Settled
    <3>2. CASE handler[source] = "none"
      BY <2>0, <3>1, <3>2 DEF NoticedOK
    <3>3. CASE handler[source] = "gone"
      <4>1. lockOf[source] = "done"
        BY <2>0, <2>3, <3>1, <3>3 DEF PlaceOK, Lock!NobodyRefused
      <4>2. compiled[source] \in source..source
        BY <2>0, <3>1, <3>3, <4>1 DEF CompiledOK
      <4>3. compiled[source] = source
        BY <2>0, <4>2
      <4>4. source \in Tried
        BY <2>0, <2>3, <3>1, <3>3, <4>3, Numbers DEF Tried, Through
      <4>5. source <= executable /\ executable <= source /\ executable \in Nat
        BY <2>0, <3>1, <4>4, Numbers DEF OrderOK
      <4> QED
        BY <2>0, <4>5
    <3> QED
      BY <3>1, <3>2, <3>3
  <2> QED
    BY <2>1, <2>2, <2>3 DEF NewestSourceRuns
<1> QED
  BY <1>1, RecompileInitOK, RecompileStep, PTL


(* What the handlers do to compilingLock are operations of the semaphore,  *)
(* and every step of the program is one of them or does not touch it. (It  *)
(* begins where cliMain() has taken the lock.)                             *)
THEOREM RecompileUsesSemaphore ==
  RecompileInit /\ [][RecompileNext]_recompileVars => [][Lock!SemNext]_(Lock!semVars)
<1>1. RecompileInv /\ [RecompileNext]_recompileVars => [Lock!SemNext]_(Lock!semVars)
  <2> SUFFICES ASSUME RecompileInv, [RecompileNext]_recompileVars
               PROVE  Lock!SemNext \/ UNCHANGED Lock!semVars
    OBVIOUS
  <2>1. UNCHANGED lockVars => UNCHANGED Lock!semVars
    BY DEF lockVars, Lock!semVars
  <2>2. CASE Edit \/ FirstLoad \/ UNCHANGED recompileVars
    BY <2>1, <2>2 DEF Edit, FirstLoad, recompileVars
  <2>3. CASE StartRun
    BY <2>3 DEF StartRun, Lock!SemNext
  <2>4. CASE Change
    <3>1. source \in Handlers
      BY <2>4 DEF Change, RecompileInv, RecompileTypeOK, Sources, Handlers
    <3> QED
      BY <2>4, <3>1 DEF Change, Lock!SemNext
  <2>5. ASSUME NEW h \in Handlers, Handle(h) \/ GiveUp(h)
        PROVE  Lock!SemNext \/ UNCHANGED lockVars
    BY <2>5 DEF Handle, GetLock, Compile, Adopt, Unlock, GiveUp, Lock!SemNext
  <2> QED
    BY <2>1, <2>2, <2>3, <2>4, <2>5 DEF RecompileNext
<1> QED
  BY <1>1, RecompileInitOK, RecompileStep, PTL

(* Two compilations are never under way, nor is one that was made while    *)
(* another is yet to be adopted; and none beside the first one.            *)
OneCompiles ==
  \A h \in Handlers : handler[h] \in {"compiled", "adopted"} =>
    /\ main = "running"
    /\ \A g \in Handlers : handler[g] \in {"compiled", "adopted"} => g = h

(* One compilation at a time, however long it takes to be adopted, and     *)
(* whichever handlers have given up.                                       *)
THEOREM CompilationsExclude == RecompileInit /\ [][RecompileNext]_recompileVars => []OneCompiles
<1>1. RecompileInv => OneCompiles
  <2> SUFFICES ASSUME RecompileInv, NEW h \in Handlers, handler[h] \in {"compiled", "adopted"}
               PROVE  /\ main = "running"
                      /\ \A g \in Handlers : handler[g] \in {"compiled", "adopted"} => g = h
    BY DEF OneCompiles
  <2>1. LockOK /\ MainOK /\ \A g \in Handlers : PlaceOK(g)
    BY DEF RecompileInv
  <2>2. lockOf[h] = "holding" /\ h # 0
    BY <2>1 DEF PlaceOK, Handlers
  <2>3. lockOf[0] # "holding"
    BY <2>1, <2>2, LockExcludes
  <2>4. \A g \in Handlers : handler[g] \in {"compiled", "adopted"} => g = h
    BY <2>1, <2>2, LockExcludes DEF PlaceOK
  <2> QED
    BY <2>1, <2>3, <2>4 DEF MainOK
<1> QED
  BY <1>1, RecompileInitOK, RecompileStep, PTL

(* No change waits for ever for a lock that nobody will return, until a    *)
(* timer runs out.                                                         *)
THEOREM RecompileNeverStuck == RecompileInit /\ [][RecompileNext]_recompileVars => []RecompileNotStuck
<1>1. RecompileInv => RecompileNotStuck
  <2> SUFFICES ASSUME RecompileInv, Lock!NobodyRefused, NEW h \in Handlers, handler[h] = "taking",
                      main # "loaded"
               PROVE  \E g \in Handlers :
                        \/ lockOf[g] = "passed"
                        \/ lockOf[g] = "holding" /\ handler[g] \in {"taking", "compiled", "adopted"}
    BY DEF RecompileNotStuck
  <2>1. /\ LockOK /\ MainOK /\ RecompileTypeOK /\ \A g \in Handlers : PlaceOK(g)
        /\ LockLemmas!SomebodyServes
    BY LockAssumption, LockLemmas!SomeHolder DEF RecompileInv, LockOK
  <2>2. main = "running" /\ lockOf[0] = "done"
    BY <2>1 DEF MainOK, RecompileTypeOK
  <2>3. ASSUME lockOf[h] = "waiting"
        PROVE  \E g \in Handlers : lockOf[g] \in {"passed", "holding"}
    <3>1. PICK g \in Handlers \union {0} : lockOf[g] \in {"passed", "holding"}
      BY <2>1, <2>3 DEF LockLemmas!SomebodyServes, LockLemmas!Holders,
                        LockLemmas!NobodyRefused, Lock!NobodyRefused
    <3> QED
      BY <2>2, <3>1
  <2>4. PICK g \in Handlers : lockOf[g] \in {"passed", "holding"}
    BY <2>1, <2>3 DEF PlaceOK
  <2>5. handler[g] \in {"taking", "compiled", "adopted"}
    BY <2>1, <2>4 DEF PlaceOK, RecompileTypeOK
  <2> QED
    BY <2>4, <2>5
<1> QED
  BY <1>1, RecompileInitOK, RecompileStep, PTL

-----------------------------------------------------------------------------
(* Repl: the turns. Their lemmas are those of the semaphore.               *)

TurnLemmas == INSTANCE SemaphoreProofs WITH
  Requests <- InputIds, NoMax <- -1, Limits <- {1}, Impatient <- InputIds,
  count <- busyCount, max <- busyMax, resolvers <- busyQueue,
  status <- busyOf, zeroPending <- busyZero

(* Inputs are entered one after the other.                                 *)
LEMMA ManyInputs ==
  /\ InputIds = 1..Len(Inputs) /\ Len(Inputs) \in Nat /\ IsFiniteSet(InputIds)
  /\ \A j \in InputIds : /\ Len(List(j)) \in Nat /\ DOMAIN List(j) = 1..Len(List(j))
                         /\ \A k \in DOMAIN List(j) : List(j)[k].sort \in Sorts
<1> DEFINE Items == [sort : Sorts, feature : STRING, repeat : Nat]
           Entries == [wish : BOOLEAN, list : Seq(Items)]
<1>1. Inputs \in Seq(Entries)
  BY ReplAssumption
<1>2. \A e \in Entries : e.list \in Seq(Items)
  OBVIOUS
<1>3. \A i \in Items : i.sort \in Sorts
  OBVIOUS
<1> HIDE DEF Items, Entries
<1>4. InputIds = 1..Len(Inputs) /\ Len(Inputs) \in Nat
  BY <1>1 DEF InputIds
<1>5. IsFiniteSet(InputIds)
  BY <1>4, FS_Interval
<1>6. \A j \in InputIds : List(j) \in Seq(Items)
  BY <1>1, <1>2, <1>4, ElementOfSeq DEF List
<1>7. ASSUME NEW j \in InputIds
      PROVE  /\ Len(List(j)) \in Nat /\ DOMAIN List(j) = 1..Len(List(j))
             /\ \A k \in DOMAIN List(j) : List(j)[k].sort \in Sorts
  <2>1. List(j) \in Seq(Items)
    BY <1>6
  <2>2. \A k \in 1..Len(List(j)) : List(j)[k] \in Items
    BY <2>1, ElementOfSeq
  <2> QED
    BY <1>3, <2>1, <2>2
<1> QED
  BY <1>4, <1>5, <1>7

(* What the semaphore assumes holds of the turns.                          *)
LEMMA TurnAssumption ==
  /\ TurnLemmas!IsFiniteSet(InputIds)
  /\ -1 \notin Nat
  /\ {1} \subseteq (Nat \ {0}) \union {-1}
  /\ InputIds \subseteq InputIds
BY ManyInputs DEF TurnLemmas!IsFiniteSet, IsFiniteSet

(* One input has its turn at most.                                         *)
TurnOK == TurnLemmas!SemInv /\ busyCount <= 1

(* The operations of the instance of the proofs are those of the model's.  *)
LEMMA SameTurn ==
  ASSUME NEW r
  PROVE  /\ Turn!Increment(r) <=> TurnLemmas!Increment(r)
         /\ Turn!Resume(r) <=> TurnLemmas!Resume(r)
         /\ Turn!TimeOut(r) <=> TurnLemmas!TimeOut(r)
         /\ Turn!Release(r) <=> TurnLemmas!Release(r)
         /\ Turn!Release(r) => TurnLemmas!Decrement(r)
<1>1. Turn!HasRoom <=> TurnLemmas!HasRoom
  BY DEF Turn!HasRoom, TurnLemmas!HasRoom
<1>2. Turn!Decrement(r) <=> TurnLemmas!Decrement(r)
  BY DEF Turn!Decrement, TurnLemmas!Decrement, Turn!Passed, TurnLemmas!Passed
<1> QED
  BY <1>1, <1>2 DEF Turn!Increment, TurnLemmas!Increment, Turn!Resume, TurnLemmas!Resume,
       Turn!TimeOut, TurnLemmas!TimeOut, Turn!Release, TurnLemmas!Release

TurnOp(r) == Turn!Increment(r) \/ Turn!Resume(r) \/ Turn!TimeOut(r) \/ Turn!Release(r)
ZeroIsKnown == busyZero <=> busyCount # 0

(* What an operation on the turns does to them and to those who wait.      *)
LEMMA TurnSteps ==
  ASSUME TurnOK, NEW r \in InputIds, TurnOp(r)
  PROVE  /\ TurnOK'
         /\ \A q \in InputIds \ {r} :
              busyOf'[q] = busyOf[q] \/ (busyOf[q] = "waiting" /\ busyOf'[q] = "passed")
         /\ Turn!Increment(r) => busyOf[r] = "idle"
         /\ Turn!Resume(r) => busyOf[r] = "passed" /\ busyOf'[r] = "holding"
         /\ Turn!TimeOut(r) => busyOf[r] \in {"waiting", "passed"}
         /\ ~Turn!Increment(r) /\ ZeroIsKnown => ZeroIsKnown'
<1>1. /\ TurnLemmas!Increment(r) \/ TurnLemmas!Resume(r)
           \/ TurnLemmas!TimeOut(r) \/ TurnLemmas!Release(r)
      /\ TurnLemmas!SemInv
  BY SameTurn DEF TurnOp, TurnOK
<1>2. TurnLemmas!SemTypeOK
  BY <1>1, TurnAssumption, TurnLemmas!Types
<1>3. [TurnLemmas!SemNext]_(TurnLemmas!semVars)
  BY <1>1 DEF TurnLemmas!SemNext
<1>4. TurnLemmas!SemInv'
  <2>1. TurnLemmas!NoIdlePermit'
    BY <1>1, <1>3, TurnAssumption, TurnLemmas!StepQueue
  <2>2. TurnLemmas!HoldersAreCounted'
    BY <1>1, <1>3, TurnAssumption, TurnLemmas!StepCount
  <2> QED
    BY <2>1, <2>2 DEF TurnLemmas!SemInv
<1>5. busyCount' <= 1
  <2>1. \A m \in {1} : m # -1 /\ m <= 1
    OBVIOUS
  <2>2. 1 \in Nat /\ busyCount <= 1
    BY DEF TurnOK
  <2> QED
    BY <1>1, <1>3, <2>1, <2>2, TurnAssumption, TurnLemmas!CeilingKept
<1>6. ASSUME ~Turn!Increment(r), ZeroIsKnown PROVE ZeroIsKnown'
  <2>1. CASE Turn!Resume(r) \/ Turn!TimeOut(r)
    BY <1>6, <2>1 DEF Turn!Resume, Turn!TimeOut, ZeroIsKnown
  <2>2. CASE Turn!Release(r)
    <3>1. TurnLemmas!Decrement(r) /\ busyOf[r] = "holding"
      BY <2>2, SameTurn DEF Turn!Release
    <3>2. busyCount >= 1
      BY <1>1, <3>1, TurnAssumption, TurnLemmas!HolderCounts
    <3>3. busyZero
      BY <1>2, <1>6, <3>2 DEF ZeroIsKnown, TurnLemmas!SemTypeOK
    <3> QED
      BY <1>6, <3>1, <3>3 DEF ZeroIsKnown, TurnLemmas!Decrement
  <2> QED
    BY <1>6, <2>1, <2>2 DEF TurnOp
<1>7. /\ \A q \in InputIds \ {r} :
           busyOf'[q] = busyOf[q] \/ (busyOf[q] = "waiting" /\ busyOf'[q] = "passed")
      /\ TurnLemmas!Increment(r) => busyOf[r] = "idle"
      /\ TurnLemmas!Resume(r) => busyOf[r] = "passed" /\ busyOf'[r] = "holding"
      /\ TurnLemmas!TimeOut(r) => busyOf[r] \in {"waiting", "passed"}
  BY <1>1, <1>2, TurnAssumption, TurnLemmas!OthersOnlyPass
<1> QED
  BY <1>4, <1>5, <1>6, <1>7, SameTurn DEF TurnOK

(* A step that leaves the turns alone leaves them in order,                *)
LEMMA TurnUntouched ==
  ASSUME TurnOK, UNCHANGED turnVars
  PROVE  TurnOK' /\ UNCHANGED busyOf
BY DEF turnVars, TurnOK, TurnLemmas!SemInv,
       TurnLemmas!NoIdlePermit, TurnLemmas!SemTypeOK, TurnLemmas!HasRoom,
       TurnLemmas!HoldersAreCounted, TurnLemmas!Holders, TurnLemmas!NobodyRefused

(* and so does the wait of "exit", which knows whether somebody is busy.   *)
LEMMA TurnZero ==
  ASSUME TurnOK, Turn!WaitForZero
  PROVE  TurnOK' /\ UNCHANGED busyOf /\ ZeroIsKnown'
<1>1. TurnLemmas!WaitForZero /\ TurnLemmas!SemInv
  BY DEF Turn!WaitForZero, TurnLemmas!WaitForZero, TurnOK
<1>2. [TurnLemmas!SemNext]_(TurnLemmas!semVars)
  BY <1>1 DEF TurnLemmas!SemNext
<1>3. TurnLemmas!NoIdlePermit'
  BY <1>1, <1>2, TurnAssumption, TurnLemmas!StepQueue
<1>4. TurnLemmas!HoldersAreCounted'
  BY <1>1, <1>2, TurnAssumption, TurnLemmas!StepCount
<1> QED
  BY <1>3, <1>4 DEF TurnOK, TurnLemmas!SemInv, Turn!WaitForZero, ZeroIsKnown

(* Two inputs are never both in their turn, and nobody is if nobody is     *)
(* busy.                                                                   *)
LEMMA TurnExcludes ==
  ASSUME TurnOK, NEW a \in InputIds, busyOf[a] = "holding"
  PROVE  /\ busyCount # 0
         /\ \A b \in InputIds : busyOf[b] = "holding" => b = a
<1>1. TurnLemmas!MutualExclusion
  BY TurnAssumption, TurnLemmas!OneHolder DEF TurnOK
<1>2. busyCount >= 1
  BY TurnAssumption, TurnLemmas!HolderCounts DEF TurnOK
<1>3. busyCount # 0
  BY <1>2
<1> QED
  BY <1>1, <1>3 DEF TurnLemmas!MutualExclusion, TurnLemmas!Holders


-----------------------------------------------------------------------------
(* Repl: the list of statements.                                           *)

Stmts == InputIds \X Nat

(* Every set of natural numbers that is not empty has a least one.         *)
LEMMA HasLeast ==
  ASSUME NEW T, T \subseteq Nat, T # {}
  PROVE  \E m \in T : \A k \in T : m <= k
<1>1. IsWellFoundedOn(OpToRel(<, Nat), Nat)
  BY NatLessThanWellFounded
<1>2. PICK m \in T : \A k \in T : <<k, m>> \notin OpToRel(<, Nat)
  BY <1>1, WFMin
<1>3. OpToRel(<, Nat) = {p \in Nat \X Nat : p[1] < p[2]}
  BY Zenon DEF OpToRel
<1>4. \A k, n \in Nat : k < n => <<k, n>> \in OpToRel(<, Nat)
  BY <1>3
<1>5. \A k \in T : ~(k < m)
  BY <1>2, <1>4, Zenon
<1> QED
  BY <1>5

(* What is in a sequence after one more was appended.                      *)
LEMMA RangeOfAppend ==
  ASSUME NEW S, NEW s \in Seq(S), NEW x \in S
  PROVE  Range(Append(s, x)) = Range(s) \union {x}
<1>1. /\ Append(s, x) \in Seq(S) /\ Len(Append(s, x)) = Len(s) + 1 /\ Len(s) \in Nat
      /\ \A i \in 1..Len(s) : Append(s, x)[i] = s[i]
      /\ Append(s, x)[Len(s) + 1] = x
  BY AppendProperties
<1>2. DOMAIN Append(s, x) = DOMAIN s \union {Len(s) + 1} /\ DOMAIN s = 1..Len(s)
  BY <1>1
<1> QED
  BY <1>1, <1>2 DEF Range

SameFeature(s, t) == IsLet(s) /\ IsLet(t) /\ Said(s).feature = Said(t).feature

(* A statement is appended or takes the place of a LET of its feature.     *)
LEMMA AddedIs ==
  ASSUME NEW list \in Seq(Stmts), NEW s \in Stmts
  PROVE  /\ Added(list, s) \in Seq(Stmts)
         /\ \/ Added(list, s) = Append(list, s)
            \/ \E i \in DOMAIN list : SameFeature(list[i], s) /\ Added(list, s) = [list EXCEPT ![i] = s]
<1> DEFINE same == {i \in DOMAIN list : IsLet(list[i]) /\ Said(list[i]).feature = Said(s).feature}
<1>1. CASE Said(s).sort = "let" /\ same # {}
  <2>1. \E i \in same : \A k \in same : i <= k
    <3>1. same \subseteq Nat
      OBVIOUS
    <3> HIDE DEF same
    <3> QED
      BY <1>1, <3>1, HasLeast
  <2> DEFINE first == CHOOSE i \in same : \A k \in same : i <= k
  <2>2. first \in same
    BY <2>1
  <2>3. Added(list, s) = [list EXCEPT ![first] = s]
    BY <1>1 DEF Added
  <2>4. IsLet(s)
    BY <1>1 DEF IsLet
  <2> HIDE DEF first
  <2>5. first \in DOMAIN list /\ SameFeature(list[first], s)
    BY <2>2, <2>4 DEF SameFeature
  <2>6. [list EXCEPT ![first] = s] \in Seq(Stmts)
    BY <2>5, ExceptSeq
  <2> QED
    BY <2>3, <2>5, <2>6
<1>2. CASE ~(Said(s).sort = "let" /\ same # {})
  <2>1. Added(list, s) = Append(list, s)
    BY <1>2 DEF Added
  <2> QED
    BY <2>1, AppendProperties
<1> QED
  BY <1>1, <1>2

(* What was in the list still is, or its feature is defined by the new     *)
(* statement, which is in it too; and nothing else.                        *)
LEMMA AddedHas ==
  ASSUME NEW list \in Seq(Stmts), NEW s \in Stmts
  PROVE  /\ s \in Range(Added(list, s))
         /\ \A t \in Range(list) : t \in Range(Added(list, s)) \/ SameFeature(t, s)
         /\ Range(Added(list, s)) \subseteq Range(list) \union {s}
<1>1. CASE Added(list, s) = Append(list, s)
  BY <1>1, RangeOfAppend
<1>2. CASE \E i \in DOMAIN list : SameFeature(list[i], s) /\ Added(list, s) = [list EXCEPT ![i] = s]
  <2>1. PICK i \in DOMAIN list : SameFeature(list[i], s) /\ Added(list, s) = [list EXCEPT ![i] = s]
    BY <1>2
  <2> DEFINE new == [list EXCEPT ![i] = s]
  <2>2. DOMAIN new = DOMAIN list /\ new[i] = s /\ \A k \in DOMAIN list : k # i => new[k] = list[k]
    OBVIOUS
  <2> HIDE DEF new
  <2>3. s \in Range(new) /\ Range(new) \subseteq Range(list) \union {s}
    BY <2>2 DEF Range
  <2>4. \A t \in Range(list) : t \in Range(new) \/ t = list[i]
    BY <2>2 DEF Range
  <2> QED
    BY <2>1, <2>3, <2>4 DEF new
<1> QED
  BY <1>1, <1>2, AddedIs

(* A list has statement k of input j, or another LET of its feature.       *)
Covers(list, j, k) == \E s \in Range(list) : s = <<j, k>> \/ SameFeature(<<j, k>>, s)

(* What was defined stays defined when a statement is added.               *)
LEMMA CoversMore ==
  ASSUME NEW list \in Seq(Stmts), NEW s \in Stmts
  PROVE  /\ \A j, k : Covers(list, j, k) => Covers(Added(list, s), j, k)
         /\ \A j, k : s = <<j, k>> => Covers(Added(list, s), j, k)
<1>1. /\ s \in Range(Added(list, s))
      /\ \A t \in Range(list) : t \in Range(Added(list, s)) \/ SameFeature(t, s)
  BY AddedHas
<1>2. ASSUME NEW j, NEW k, Covers(list, j, k) PROVE Covers(Added(list, s), j, k)
  <2>1. PICK t \in Range(list) : t = <<j, k>> \/ SameFeature(<<j, k>>, t)
    BY <1>2 DEF Covers
  <2>2. CASE t \in Range(Added(list, s))
    BY <2>1, <2>2 DEF Covers
  <2>3. CASE SameFeature(t, s)
    <3>1. SameFeature(<<j, k>>, s)
      BY <2>1, <2>3 DEF SameFeature
    <3> QED
      BY <1>1, <3>1 DEF Covers
  <2> QED
    BY <1>1, <2>1, <2>2, <2>3
<1> QED
  BY <1>1, <1>2 DEF Covers

(* Before() is a recursive function: one step of it, and all.              *)
Stood(j, i, l) ==
  IF List(j)[i].sort \in {"assert", "execute"} THEN l ELSE Added(l, <<j, i>>)
StandingTo(list, j, n, g) == g = [i \in 0..n |-> IF i = 0 THEN list ELSE Stood(j, i, g[i - 1])]
Standing(list, j, k) ==
  LET S[i \in 0..(k - 1)] ==
        IF i = 0 THEN list
        ELSE IF List(j)[i].sort \in {"assert", "execute"} THEN S[i - 1]
        ELSE Added(S[i - 1], <<j, i>>)
  IN S[k - 1]

(* One step of the recursion.                                              *)
LEMMA StandingStep ==
  ASSUME NEW list, NEW j, NEW n \in Nat, NEW g, StandingTo(list, j, n, g), NEW i \in 0..n
  PROVE  g[i] = IF i = 0 THEN list ELSE Stood(j, i, g[i - 1])
BY DEF StandingTo

(* The recursion has a solution,                                           *)
LEMMA StandingExists ==
  ASSUME NEW list, NEW j, NEW n \in Nat
  PROVE  \E g : StandingTo(list, j, n, g)
<1> DEFINE Bad == {k \in Nat : ~\E g : StandingTo(list, j, k, g)}
<1> SUFFICES ASSUME Bad # {} PROVE FALSE
  OBVIOUS
<1>1. PICK k \in Bad : \A m \in Bad : k <= m
  <2>1. Bad \subseteq Nat
    OBVIOUS
  <2> HIDE DEF Bad
  <2> QED
    BY <2>1, HasLeast
<1>2. k \in Nat /\ ~\E g : StandingTo(list, j, k, g)
  BY <1>1
<1>3. CASE k = 0
  <2> DEFINE h == [i \in 0..0 |-> list]
  <2>1. StandingTo(list, j, 0, h)
    BY DEF StandingTo
  <2> HIDE DEF h
  <2> QED
    BY <1>2, <1>3, <2>1
<1>4. CASE k # 0
  <2>1. k - 1 \in Nat /\ k - 1 \notin Bad
    BY <1>1, <1>2, <1>4
  <2>2. PICK g : StandingTo(list, j, k - 1, g)
    BY <2>1
  <2> DEFINE h == [i \in 0..k |-> IF i < k THEN g[i] ELSE Stood(j, i, g[i - 1])]
  <2>3. ASSUME NEW i \in 0..k PROVE h[i] = IF i = 0 THEN list ELSE Stood(j, i, h[i - 1])
    <3>1. /\ i # 0 => i - 1 \in 0..k /\ i - 1 < k
          /\ i < k => i \in 0..(k - 1)
      BY <1>2
    <3>2. i # 0 => h[i - 1] = g[i - 1]
      BY <3>1
    <3>3. i < k => g[i] = IF i = 0 THEN list ELSE Stood(j, i, g[i - 1])
      BY <2>2, <3>1 DEF StandingTo
    <3> QED
      BY <1>2, <1>4, <3>2, <3>3
  <2>4. h = [i \in 0..k |-> h[i]]
    OBVIOUS
  <2> HIDE DEF h
  <2>5. StandingTo(list, j, k, h)
    BY <2>3, <2>4 DEF StandingTo
  <2> QED
    BY <1>2, <2>5
<1> QED
  BY <1>3, <1>4

(* and a longer one begins like a shorter one.                             *)
LEMMA StandingAgree ==
  ASSUME NEW list, NEW j, NEW n \in Nat, NEW m \in Nat, n <= m,
         NEW g, NEW h, StandingTo(list, j, n, g), StandingTo(list, j, m, h)
  PROVE  g[n] = h[n]
<1> DEFINE Bad == {i \in 0..n : g[i] # h[i]}
<1> SUFFICES ASSUME Bad # {} PROVE FALSE
  OBVIOUS
<1>1. PICK i \in Bad : \A k \in Bad : i <= k
  <2>1. Bad \subseteq Nat
    OBVIOUS
  <2> HIDE DEF Bad
  <2> QED
    BY <2>1, HasLeast
<1>2. i \in 0..n /\ i \in 0..m /\ g[i] # h[i]
  BY <1>1
<1>3. /\ g[i] = IF i = 0 THEN list ELSE Stood(j, i, g[i - 1])
      /\ h[i] = IF i = 0 THEN list ELSE Stood(j, i, h[i - 1])
  BY <1>2 DEF StandingTo
<1>4. i # 0 => i - 1 \in 0..n /\ i - 1 \notin Bad
  BY <1>1, <1>2
<1>5. i # 0 => g[i - 1] = h[i - 1]
  BY <1>4
<1> QED
  BY <1>2, <1>3, <1>5

(* What stands before a statement, from what stands before the one that    *)
(* comes before it.                                                        *)
LEMMA StandingIs ==
  ASSUME NEW list, NEW j
  PROVE  /\ Standing(list, j, 1) = list
         /\ \A k \in Nat \ {0} : Standing(list, j, k + 1) = Stood(j, k, Standing(list, j, k))
<1>1. ASSUME NEW k \in Nat \ {0}
      PROVE  \E g : StandingTo(list, j, k - 1, g) /\ Standing(list, j, k) = g[k - 1]
  <2>1. Standing(list, j, k) = (CHOOSE g : StandingTo(list, j, k - 1, g))[k - 1]
    BY DEF Standing, StandingTo, Stood
  <2>2. \E g : StandingTo(list, j, k - 1, g)
    <3>1. k - 1 \in Nat
      OBVIOUS
    <3> QED
      BY <3>1, StandingExists
  <2> QED
    BY <2>1, <2>2
<1>2. Standing(list, j, 1) = list
  <2>1. PICK g : StandingTo(list, j, 1 - 1, g) /\ Standing(list, j, 1) = g[1 - 1]
    BY <1>1
  <2>2. 1 - 1 = 0 /\ 0 \in Nat /\ 0 \in 0..0
    OBVIOUS
  <2>3. StandingTo(list, j, 0, g) /\ Standing(list, j, 1) = g[0]
    BY <2>1, <2>2
  <2>4. g[0] = list
    BY <2>2, <2>3, StandingStep
  <2> QED
    BY <2>3, <2>4
<1>3. ASSUME NEW k \in Nat \ {0}
      PROVE  Standing(list, j, k + 1) = Stood(j, k, Standing(list, j, k))
  <2>0. (k + 1) - 1 = k /\ k + 1 \in Nat \ {0} /\ k - 1 \in Nat /\ k - 1 <= k /\ k \in 0..k /\ k # 0
    OBVIOUS
  <2>1. PICK g : StandingTo(list, j, k - 1, g) /\ Standing(list, j, k) = g[k - 1]
    BY <1>1
  <2>2. PICK h : StandingTo(list, j, (k + 1) - 1, h) /\ Standing(list, j, k + 1) = h[(k + 1) - 1]
    BY <1>1, <2>0
  <2>3. StandingTo(list, j, k, h) /\ Standing(list, j, k + 1) = h[k]
    BY <2>0, <2>2
  <2>4. h[k] = Stood(j, k, h[k - 1])
    BY <2>0, <2>3, StandingStep
  <2>5. g[k - 1] = h[k - 1]
    BY <2>0, <2>1, <2>3, StandingAgree
  <2> QED
    BY <2>1, <2>3, <2>4, <2>5
<1> QED
  BY <1>2, <1>3

(* Before() is what stands, and only the input's own list matters to it.   *)
LEMMA BeforeIs ==
  ASSUME NEW j
  PROVE  /\ Before(j, 1) = previous[j]
         /\ \A k \in Nat \ {0} : Before(j, k + 1) = Stood(j, k, Before(j, k))
<1>1. \A k : Before(j, k) = Standing(previous[j], j, k)
  BY DEF Before, Standing
<1> QED
  BY <1>1, StandingIs

(* As long as that is kept.                                                *)
LEMMA BeforeKept ==
  ASSUME NEW j, previous'[j] = previous[j]
  PROVE  \A k : Before(j, k)' = Before(j, k)
<1>1. \A k : Before(j, k) = Standing(previous[j], j, k)
  BY DEF Before, Standing
<1>2. \A k : Before(j, k)' = Standing(previous'[j], j, k)
  BY DEF Before, Standing
<1> QED
  BY <1>1, <1>2


-----------------------------------------------------------------------------
(* Repl: what is kept while inputs are evaluated.                          *)

Listing == {"listing", "executing", "mutating"}
Over == {"done", "rejected", "stuck"}
Checks == [asserted : Seq(Nat), saw : Seq(Stmts)]

ReplTypeOK ==
  /\ statements \in Seq(Stmts)
  /\ at \in [InputIds -> Listing \union Over \union {"idle", "fetching"}]
  /\ next \in [InputIds -> Nat \ {0}]
  /\ assertions \in [InputIds -> Seq(Nat)]
  /\ previous \in [InputIds -> Seq(Stmts)]
  /\ checks \in [InputIds -> Seq(Checks)]
  /\ console \in {"open", "exiting", "gone"}

(* An evaluation has its turn, and "exit" waits until the last is over.    *)
TurnsTaken ==
  /\ \A j \in InputIds : at[j] \in Listing \union {"fetching"} => busyOf[j] = "holding"
  /\ console = "exiting" => ZeroIsKnown
  /\ console = "gone" => \A j \in InputIds : at[j] \in Over \union {"idle"}

(* What is in the list, or will be in it if the input is taken back, is of *)
(* inputs that were not taken back.                                        *)
NothingLeftBehind ==
  /\ \A s \in Range(statements) : at[s[1]] \notin {"idle", "rejected"}
  /\ \A j \in InputIds : at[j] \in Listing =>
       \A s \in Range(previous[j]) : s[1] # j /\ at[s[1]] \notin {"idle", "rejected"}

CoversUpto(list, j, n) == \A k \in DOMAIN List(j) : k < n /\ Defines(<<j, k>>) => Covers(list, j, k)
CoversAll(list, j) == \A k \in DOMAIN List(j) : Defines(<<j, k>>) => Covers(list, j, k)

(* What accepted inputs defined is in the list, and in what it would be    *)
(* taken back to.                                                          *)
AcceptedStay ==
  /\ \A j \in InputIds : at[j] \in {"fetching", "done"} =>
       /\ CoversAll(statements, j)
       /\ \A i \in InputIds : at[i] \in Listing => CoversAll(previous[i], j)
  /\ \A j \in InputIds : at[j] \in Listing => CoversUpto(statements, j, next[j])

(* The executions that checked assertion k.                                *)
CheckedIn(j, k) == {i \in DOMAIN checks[j] : k \in Range(checks[j][i].asserted)}
Asserts(j, k) == k \in DOMAIN List(j) /\ List(j)[k].sort = "assert"

WasChecked(j, k) ==
  \/ at[j] \in {"fetching", "done"}
  \/ at[j] \in Listing /\ k < next[j] /\ (k \notin Range(assertions[j]) \/ at[j] = "executing")

(* Each assertion has been checked once, is collected or is yet to come.   *)
OnceEach(j) ==
  \A k \in DOMAIN List(j) : Asserts(j, k) =>
    /\ WasChecked(j, k) => \E i \in DOMAIN checks[j] : CheckedIn(j, k) = {i}
    /\ at[j] \in Listing /\ ~WasChecked(j, k) => CheckedIn(j, k) = {}

(* The list stands as the assertions that are collected expect it.         *)
StandsAsWritten(j) ==
  /\ at[j] = "idle" => next[j] = 1 /\ assertions[j] = << >> /\ checks[j] = << >>
  /\ at[j] \in Listing =>
       /\ next[j] <= Len(List(j)) + 1 /\ statements = Before(j, next[j])
       /\ \A k \in Range(assertions[j]) :
            Asserts(j, k) /\ k < next[j] /\ Before(j, k) = statements
  /\ \A c \in Range(checks[j]) : \A k \in Range(c.asserted) :
       Asserts(j, k) /\ c.saw = Before(j, k)

ReplInv ==
  /\ ReplTypeOK /\ TurnOK /\ TurnsTaken /\ NothingLeftBehind /\ AcceptedStay
  /\ \A j \in InputIds : OnceEach(j) /\ StandsAsWritten(j)

(* While one input is evaluated no other is.                               *)
LEMMA OneEvaluates ==
  ASSUME TurnOK, TurnsTaken, NEW j \in InputIds, busyOf[j] = "holding"
  PROVE  \A q \in InputIds : q # j => at[q] \notin Listing \union {"fetching"}
BY TurnExcludes DEF TurnsTaken

(* What others have come to does not depend on it.                         *)
LEMMA OtherInput ==
  ASSUME NEW q, OnceEach(q), StandsAsWritten(q), at[q] \notin Listing,
         at'[q] = at[q], next'[q] = next[q], assertions'[q] = assertions[q],
         checks'[q] = checks[q], previous'[q] = previous[q]
  PROVE  OnceEach(q)' /\ StandsAsWritten(q)'
<1>1. \A k : /\ CheckedIn(q, k)' = CheckedIn(q, k) /\ (WasChecked(q, k)' <=> WasChecked(q, k))
             /\ (Asserts(q, k)' <=> Asserts(q, k))
  BY DEF CheckedIn, WasChecked, Asserts
<1>2. \A k : Before(q, k)' = Before(q, k)
  BY BeforeKept
<1>3. OnceEach(q)'
  BY <1>1 DEF OnceEach
<1>4. StandsAsWritten(q)'
  BY <1>1, <1>2 DEF StandsAsWritten
<1> QED
  BY <1>3, <1>4

(* A step of an evaluation that does not change the list keeps all of      *)
(* this, if it keeps what is about its input.                              *)
LEMMA StepKeeps ==
  ASSUME ReplInv, ReplTypeOK', NEW j \in InputIds, at[j] \in Listing \union {"fetching"},
         NEW p \in Listing \union {"fetching", "done", "stuck"}, at' = [at EXCEPT ![j] = p],
         UNCHANGED <<statements, previous, console, turnVars>>, console # "gone",
         \A q \in InputIds : q # j => /\ next'[q] = next[q] /\ assertions'[q] = assertions[q]
                                      /\ checks'[q] = checks[q],
         p \in Listing => at[j] \in Listing /\ CoversUpto(statements, j, next'[j]),
         p \in {"fetching", "done"} => CoversAll(statements, j),
         OnceEach(j)', StandsAsWritten(j)'
  PROVE  ReplInv'
<1>0. /\ TurnOK /\ TurnsTaken /\ NothingLeftBehind /\ AcceptedStay
      /\ \A q \in InputIds : OnceEach(q) /\ StandsAsWritten(q)
      /\ at \in [InputIds -> Listing \union Over \union {"idle", "fetching"}]
      /\ statements \in Seq(Stmts) /\ previous \in [InputIds -> Seq(Stmts)]
  BY DEF ReplInv, ReplTypeOK
<1>1. TurnOK' /\ busyOf' = busyOf /\ busyOf[j] = "holding"
  BY <1>0, TurnUntouched DEF TurnsTaken
<1>2. \A q \in InputIds : q # j => at[q] \notin Listing \union {"fetching"} /\ at'[q] = at[q]
  BY <1>0, <1>1, OneEvaluates
<1>3. at'[j] = p
  BY <1>0
<1>4. TurnsTaken'
  BY <1>0, <1>1, <1>2, <1>3 DEF TurnsTaken, ZeroIsKnown, turnVars
<1>5. \A q : at'[q] \in {"idle", "rejected"} => at[q] \in {"idle", "rejected"}
  <2>1. p \notin {"idle", "rejected"}
    BY DEF Listing
  <2> QED
    BY <1>0, <2>1
<1>6. NothingLeftBehind'
  BY <1>0, <1>2, <1>3, <1>5 DEF NothingLeftBehind
<1>7. AcceptedStay'
  <2>1. ASSUME NEW q \in InputIds, at'[q] \in {"fetching", "done"}
        PROVE  /\ CoversAll(statements', q)
               /\ \A i \in InputIds : at'[i] \in Listing => CoversAll(previous'[i], q)
    <3>1. CASE q = j
      <4>1. \A i \in InputIds : at'[i] \notin Listing
        BY <1>2, <1>3, <2>1, <3>1 DEF Listing
      <4> QED
        BY <1>3, <2>1, <3>1, <4>1
    <3>2. CASE q # j
      <4>1. at[q] \in {"fetching", "done"}
        BY <1>2, <2>1, <3>2
      <4>2. \A i \in InputIds : at'[i] \in Listing => at[i] \in Listing
        BY <1>2, <1>3
      <4> QED
        BY <1>0, <4>1, <4>2 DEF AcceptedStay
    <3> QED
      BY <3>1, <3>2
  <2>2. \A q \in InputIds : at'[q] \in Listing => CoversUpto(statements', q, next'[q])
    BY <1>2, <1>3
  <2> QED
    BY <2>1, <2>2 DEF AcceptedStay
<1>8. ASSUME NEW q \in InputIds PROVE OnceEach(q)' /\ StandsAsWritten(q)'
  <2>1. CASE q = j
    BY <2>1
  <2>2. CASE q # j
    BY <1>0, <1>2, <2>2, OtherInput
  <2> QED
    BY <2>1, <2>2
<1> QED
  BY <1>1, <1>4, <1>6, <1>7, <1>8 DEF ReplInv


-----------------------------------------------------------------------------
(* An execution is one more check of what was collected.                   *)
LEMMA OneMoreCheck ==
  ASSUME ReplTypeOK, NEW j \in InputIds,
         checks' = [checks EXCEPT ![j] = Append(@, [asserted |-> assertions[j], saw |-> statements])]
  PROVE  /\ checks' \in [InputIds -> Seq(Checks)]
         /\ \A q \in InputIds : q # j => checks'[q] = checks[q]
         /\ \A c \in Range(checks'[j]) :
              c \in Range(checks[j]) \/ (c.asserted = assertions[j] /\ c.saw = statements)
         /\ \A k : k \notin Range(assertions[j]) => CheckedIn(j, k)' = CheckedIn(j, k)
         /\ \A k : k \in Range(assertions[j]) =>
              CheckedIn(j, k)' = CheckedIn(j, k) \union {Len(checks[j]) + 1}
         /\ DOMAIN checks'[j] = DOMAIN checks[j] \union {Len(checks[j]) + 1}
<1> DEFINE c == [asserted |-> assertions[j], saw |-> statements]
           n == Len(checks[j])
<1>1. /\ checks \in [InputIds -> Seq(Checks)] /\ checks[j] \in Seq(Checks)
      /\ assertions[j] \in Seq(Nat) /\ statements \in Seq(Stmts)
  BY DEF ReplTypeOK
<1>2. c \in Checks /\ c.asserted = assertions[j] /\ c.saw = statements
  BY <1>1 DEF Checks
<1>3. checks' = [checks EXCEPT ![j] = Append(checks[j], c)]
  OBVIOUS
<1> HIDE DEF c
<1>4. /\ Append(checks[j], c) \in Seq(Checks) /\ Len(Append(checks[j], c)) = n + 1 /\ n \in Nat
      /\ \A i \in 1..n : Append(checks[j], c)[i] = checks[j][i]
      /\ Append(checks[j], c)[n + 1] = c
      /\ DOMAIN checks[j] = 1..n /\ DOMAIN Append(checks[j], c) = 1..(n + 1)
  BY <1>1, <1>2, AppendProperties
<1>5. checks'[j] = Append(checks[j], c) /\ checks' \in [InputIds -> Seq(Checks)]
      /\ \A q \in InputIds : q # j => checks'[q] = checks[q]
  BY <1>1, <1>3, <1>4
<1>6. Range(checks'[j]) = Range(checks[j]) \union {c}
  BY <1>1, <1>2, <1>5, RangeOfAppend
<1> HIDE DEF n
<1>7. /\ DOMAIN checks[j] = 1..n /\ DOMAIN checks'[j] = 1..(n + 1) /\ n \in Nat
      /\ 1..(n + 1) = (1..n) \union {n + 1} /\ n + 1 \notin 1..n
      /\ \A i \in 1..n : checks'[j][i] = checks[j][i]
      /\ checks'[j][n + 1] = c
  BY <1>4, <1>5
<1>8. ASSUME NEW k
      PROVE  CheckedIn(j, k)' = IF k \in Range(assertions[j]) THEN CheckedIn(j, k) \union {n + 1}
                                ELSE CheckedIn(j, k)
  <2>1. CheckedIn(j, k)' = {i \in 1..(n + 1) : k \in Range(checks'[j][i].asserted)}
    BY <1>7 DEF CheckedIn
  <2>2. CheckedIn(j, k) = {i \in 1..n : k \in Range(checks[j][i].asserted)}
    BY <1>7 DEF CheckedIn
  <2>3. checks'[j][n + 1].asserted = assertions[j]
    BY <1>2, <1>7
  <2> QED
    BY <1>7, <2>1, <2>2, <2>3
<1> QED
  BY <1>2, <1>5, <1>6, <1>7, <1>8 DEF n

(* Each of the collected assertions is checked in its place, and is now    *)
(* checked once.                                                           *)
LEMMA ExecuteKeeps ==
  ASSUME ReplInv, NEW j \in InputIds, at[j] = "listing", Execute(j),
         UNCHANGED <<console, turnVars>>, console # "gone"
  PROVE  ReplInv'
<1>0. /\ ReplTypeOK /\ AcceptedStay /\ OnceEach(j) /\ StandsAsWritten(j)
      /\ at \in [InputIds -> Listing \union Over \union {"idle", "fetching"}]
      /\ next[j] \in Nat /\ at[j] \in Listing
  BY DEF ReplInv, ReplTypeOK, Listing
<1>1. /\ at' = [at EXCEPT ![j] = "executing"]
      /\ checks' = [checks EXCEPT ![j] = Append(@, [asserted |-> assertions[j], saw |-> statements])]
      /\ UNCHANGED <<statements, next, assertions, previous>>
  BY DEF Execute, Go
<1>2. /\ checks' \in [InputIds -> Seq(Checks)]
      /\ \A q \in InputIds : q # j => checks'[q] = checks[q]
      /\ \A c \in Range(checks'[j]) :
           c \in Range(checks[j]) \/ (c.asserted = assertions[j] /\ c.saw = statements)
      /\ \A k : k \notin Range(assertions[j]) => CheckedIn(j, k)' = CheckedIn(j, k)
      /\ \A k : k \in Range(assertions[j]) =>
           CheckedIn(j, k)' = CheckedIn(j, k) \union {Len(checks[j]) + 1}
      /\ DOMAIN checks'[j] = DOMAIN checks[j] \union {Len(checks[j]) + 1}
  BY <1>0, <1>1, OneMoreCheck
<1>3. at'[j] = "executing" /\ "executing" \in Listing /\ "listing" \in Listing /\ "listing" # "executing"
      /\ "executing" \notin {"fetching", "done", "idle"}
  BY <1>0, <1>1 DEF Listing
<1>4. ReplTypeOK'
  BY <1>0, <1>1, <1>2, <1>3 DEF ReplTypeOK
<1>5. \A k : Before(j, k)' = Before(j, k)
  BY <1>1, BeforeKept
<1>6. /\ statements = Before(j, next[j]) /\ next[j] <= Len(List(j)) + 1
      /\ \A k \in Range(assertions[j]) : Asserts(j, k) /\ k < next[j] /\ Before(j, k) = statements
      /\ \A c \in Range(checks[j]) : \A k \in Range(c.asserted) :
           Asserts(j, k) /\ c.saw = Before(j, k)
  BY <1>0 DEF StandsAsWritten
<1>7. StandsAsWritten(j)'
  <2>1. \A c \in Range(checks'[j]) : \A k \in Range(c.asserted) :
           Asserts(j, k) /\ c.saw = Before(j, k)
    BY <1>2, <1>6
  <2> QED
    BY <1>1, <1>3, <1>5, <1>6, <2>1 DEF StandsAsWritten, Asserts
<1>8. OnceEach(j)'
  <2> SUFFICES ASSUME NEW k \in DOMAIN List(j), Asserts(j, k)
               PROVE  IF k < next[j] THEN \E i \in DOMAIN checks'[j] : CheckedIn(j, k)' = {i}
                      ELSE CheckedIn(j, k)' = {}
    BY <1>1, <1>3 DEF OnceEach, WasChecked, Asserts
  <2>1. CASE k \in Range(assertions[j])
    <3>1. k < next[j] /\ ~WasChecked(j, k)
      BY <1>3, <1>6, <2>1 DEF WasChecked
    <3>2. CheckedIn(j, k) = {}
      BY <1>0, <3>1 DEF OnceEach
    <3> QED
      BY <1>2, <2>1, <3>1, <3>2
  <2>2. CASE k \notin Range(assertions[j])
    <3>1. WasChecked(j, k) <=> k < next[j]
      BY <1>0, <1>3, <2>2 DEF WasChecked
    <3>2. CheckedIn(j, k)' = CheckedIn(j, k)
      BY <1>2, <2>2
    <3>3. CASE k < next[j]
      <4>1. \E i \in DOMAIN checks[j] : CheckedIn(j, k) = {i}
        BY <1>0, <3>1, <3>3 DEF OnceEach
      <4> QED
        BY <1>2, <3>2, <3>3, <4>1
    <3>4. CASE ~(k < next[j])
      BY <1>0, <3>1, <3>2, <3>4 DEF OnceEach
    <3> QED
      BY <3>3, <3>4
  <2> QED
    BY <2>1, <2>2
<1>9. CoversUpto(statements, j, next'[j])
  BY <1>0, <1>1 DEF AcceptedStay
<1> QED
  BY <1>0, <1>1, <1>2, <1>3, <1>4, <1>7, <1>8, <1>9, StepKeeps

(* The statement after one that defines nothing.                           *)
LEMMA PassesOver ==
  ASSUME ReplInv, NEW j \in InputIds, at[j] \in Listing, next[j] <= Len(List(j)),
         List(j)[next[j]].sort \in {"assert", "execute"},
         next' = [next EXCEPT ![j] = @ + 1]
  PROVE  /\ next' \in [InputIds -> Nat \ {0}] /\ next'[j] = next[j] + 1 /\ next[j] \in Nat
         /\ next'[j] <= Len(List(j)) + 1 /\ next[j] \in DOMAIN List(j)
         /\ \A q \in InputIds : q # j => next'[q] = next[q]
         /\ Before(j, next[j] + 1) = statements /\ Before(j, next[j]) = statements
         /\ CoversUpto(statements, j, next'[j])
<1>0. /\ next \in [InputIds -> Nat \ {0}] /\ Len(List(j)) \in Nat /\ DOMAIN List(j) = 1..Len(List(j))
      /\ StandsAsWritten(j) /\ AcceptedStay
  BY ManyInputs DEF ReplInv, ReplTypeOK
<1>1. next[j] \in Nat \ {0} /\ next[j] \in DOMAIN List(j)
  BY <1>0
<1>2. /\ next' \in [InputIds -> Nat \ {0}] /\ next'[j] = next[j] + 1 /\ next'[j] <= Len(List(j)) + 1
      /\ \A q \in InputIds : q # j => next'[q] = next[q]
  BY <1>0, <1>1
<1>3. Before(j, next[j] + 1) = Before(j, next[j]) /\ statements = Before(j, next[j])
  BY <1>0, <1>1, BeforeIs DEF Stood, StandsAsWritten
<1>5. CoversUpto(statements, j, next[j] + 1)
  <2> SUFFICES ASSUME NEW k \in DOMAIN List(j), k < next[j] + 1, Defines(<<j, k>>)
               PROVE  Covers(statements, j, k)
    BY DEF CoversUpto
  <2>1. k # next[j]
    BY DEF Defines, Said
  <2>2. k < next[j]
    BY <1>0, <1>1, <2>1
  <2> QED
    BY <1>0, <2>2 DEF AcceptedStay, CoversUpto
<1> QED
  BY <1>1, <1>2, <1>3, <1>5


(* An assertion is collected: it is checked where it stands.               *)
LEMMA CollectKeeps ==
  ASSUME ReplInv, NEW j \in InputIds, Collect(j), UNCHANGED <<console, turnVars>>, console # "gone"
  PROVE  ReplInv'
<1>0. /\ ReplTypeOK /\ OnceEach(j) /\ StandsAsWritten(j)
      /\ at \in [InputIds -> Listing \union Over \union {"idle", "fetching"}]
      /\ assertions \in [InputIds -> Seq(Nat)] /\ next \in [InputIds -> Nat \ {0}]
  BY DEF ReplInv, ReplTypeOK
<1>1. /\ at[j] = "listing" /\ next[j] <= Len(List(j)) /\ List(j)[next[j]].sort = "assert"
      /\ assertions' = [assertions EXCEPT ![j] = Append(@, next[j])]
      /\ next' = [next EXCEPT ![j] = @ + 1]
      /\ UNCHANGED <<statements, at, previous, checks>>
  BY DEF Collect, NextIs
<1>2. /\ next' \in [InputIds -> Nat \ {0}] /\ next'[j] = next[j] + 1 /\ next[j] \in Nat
      /\ next'[j] <= Len(List(j)) + 1 /\ next[j] \in DOMAIN List(j)
      /\ \A q \in InputIds : q # j => next'[q] = next[q]
      /\ Before(j, next[j] + 1) = statements /\ Before(j, next[j]) = statements
      /\ CoversUpto(statements, j, next'[j])
  BY <1>1, PassesOver DEF Listing
<1>3. /\ Append(assertions[j], next[j]) \in Seq(Nat)
      /\ Range(Append(assertions[j], next[j])) = Range(assertions[j]) \union {next[j]}
  <2>1. assertions[j] \in Seq(Nat) /\ next[j] \in Nat
    BY <1>0, <1>2
  <2>2. Append(assertions[j], next[j]) \in Seq(Nat)
    BY <2>1, AppendProperties
  <2>3. Range(Append(assertions[j], next[j])) = Range(assertions[j]) \union {next[j]}
    BY <2>1, RangeOfAppend
  <2> QED
    BY <2>2, <2>3
<1>4. /\ assertions' \in [InputIds -> Seq(Nat)]
      /\ Range(assertions'[j]) = Range(assertions[j]) \union {next[j]}
      /\ \A q \in InputIds : q # j => assertions'[q] = assertions[q]
  BY <1>0, <1>1, <1>3
<1>5. ReplTypeOK'
  BY <1>0, <1>1, <1>2, <1>4 DEF ReplTypeOK
<1>6. \A k : Before(j, k)' = Before(j, k)
  BY <1>1, BeforeKept
<1>7. /\ \A k \in Range(assertions[j]) : Asserts(j, k) /\ k < next[j] /\ Before(j, k) = statements
      /\ \A c \in Range(checks[j]) : \A k \in Range(c.asserted) : Asserts(j, k) /\ c.saw = Before(j, k)
  BY <1>0, <1>1 DEF StandsAsWritten, Listing
<1>8. StandsAsWritten(j)'
  <2>1. \A k \in Range(assertions'[j]) :
          Asserts(j, k) /\ k < next'[j] /\ Before(j, k) = statements
    <3>1. \A k \in Range(assertions[j]) : k \in Nat /\ k < next[j] + 1
      BY <1>2, <1>7, ManyInputs DEF Asserts
    <3> QED
      BY <1>1, <1>2, <1>4, <1>7, <3>1 DEF Asserts
  <2> QED
    BY <1>1, <1>2, <1>6, <1>7, <2>1 DEF StandsAsWritten, Asserts
<1>9. OnceEach(j)'
  <2>1. \A k : CheckedIn(j, k)' = CheckedIn(j, k)
    BY <1>1 DEF CheckedIn
  <2>2. ASSUME NEW k \in DOMAIN List(j) PROVE WasChecked(j, k)' <=> WasChecked(j, k)
    <3>1. k \in Nat
      BY ManyInputs
    <3>2. k < next[j] => k < next'[j] /\ k # next[j]
      BY <1>2, <3>1
    <3>3. k < next'[j] => k < next[j] \/ k = next[j]
      BY <1>2, <3>1
    <3>4. at[j] \notin {"fetching", "done", "executing"} /\ at'[j] = at[j]
      BY <1>1
    <3> QED
      BY <1>4, <3>2, <3>3, <3>4 DEF WasChecked
  <2> QED
    BY <1>0, <1>1, <2>1, <2>2 DEF OnceEach, Asserts
<1>10. at' = [at EXCEPT ![j] = "listing"] /\ "listing" \in Listing
  BY <1>0, <1>1 DEF Listing
<1> QED
  BY <1>1, <1>2, <1>4, <1>5, <1>8, <1>9, <1>10, StepKeeps

(* EXECUTE is passed over once it has been repeated.                       *)
LEMMA RepeatKeeps ==
  ASSUME ReplInv, NEW j \in InputIds, Repeat(j), UNCHANGED <<console, turnVars>>, console # "gone"
  PROVE  ReplInv'
<1>0. /\ ReplTypeOK /\ OnceEach(j) /\ StandsAsWritten(j)
      /\ at \in [InputIds -> Listing \union Over \union {"idle", "fetching"}]
  BY DEF ReplInv, ReplTypeOK
<1>1. /\ at[j] = "listing" /\ next[j] <= Len(List(j)) /\ List(j)[next[j]].sort = "execute"
      /\ \/ Execute(j)
         \/ /\ next' = [next EXCEPT ![j] = @ + 1]
            /\ UNCHANGED <<statements, at, assertions, previous, checks>>
  BY DEF Repeat, NextIs
<1>2. CASE Execute(j)
  BY <1>1, <1>2, ExecuteKeeps
<1>3. CASE /\ next' = [next EXCEPT ![j] = @ + 1]
           /\ UNCHANGED <<statements, at, assertions, previous, checks>>
  <2>2. /\ next' \in [InputIds -> Nat \ {0}] /\ next'[j] = next[j] + 1 /\ next[j] \in Nat
        /\ next'[j] <= Len(List(j)) + 1 /\ next[j] \in DOMAIN List(j)
        /\ \A q \in InputIds : q # j => next'[q] = next[q]
        /\ Before(j, next[j] + 1) = statements /\ Before(j, next[j]) = statements
        /\ CoversUpto(statements, j, next'[j])
    BY <1>1, <1>3, PassesOver DEF Listing
  <2>5. ReplTypeOK'
    BY <1>0, <1>3, <2>2 DEF ReplTypeOK
  <2>6. \A k : Before(j, k)' = Before(j, k)
    BY <1>3, BeforeKept
  <2>7. /\ \A k \in Range(assertions[j]) : Asserts(j, k) /\ k < next[j] /\ Before(j, k) = statements
        /\ \A c \in Range(checks[j]) : \A k \in Range(c.asserted) :
             Asserts(j, k) /\ c.saw = Before(j, k)
    BY <1>0, <1>1 DEF StandsAsWritten, Listing
  <2>8. StandsAsWritten(j)'
    <3>1. \A k \in Range(assertions[j]) : k < next'[j]
      <4>1. \A k \in Range(assertions[j]) : k \in Nat
        BY <2>7, ManyInputs DEF Asserts
      <4> QED
        BY <2>2, <2>7, <4>1
    <3> QED
      BY <1>1, <1>3, <2>2, <2>6, <2>7, <3>1 DEF StandsAsWritten, Asserts
  <2>9. OnceEach(j)'
    <3>1. \A k : CheckedIn(j, k)' = CheckedIn(j, k)
      BY <1>3 DEF CheckedIn
    <3>2. ASSUME NEW k \in DOMAIN List(j), Asserts(j, k) PROVE WasChecked(j, k)' <=> WasChecked(j, k)
      <4>0. k # next[j]
        BY <1>1, <3>2 DEF Asserts
      <4>1. k \in Nat /\ k # next[j]
        BY <4>0, ManyInputs
      <4>2. k < next'[j] <=> k < next[j]
        BY <2>2, <4>1
      <4> QED
        BY <1>3, <4>2 DEF WasChecked
    <3> QED
      BY <1>0, <1>3, <3>1, <3>2 DEF OnceEach, Asserts
  <2>10. at' = [at EXCEPT ![j] = "listing"] /\ "listing" \in Listing
    BY <1>0, <1>1, <1>3 DEF Listing
  <2> QED
    BY <1>1, <1>3, <2>2, <2>5, <2>8, <2>9, <2>10, StepKeeps
<1> QED
  BY <1>1, <1>2, <1>3

(* The end of an execution: nothing is collected any more.                 *)
LEMMA ExecutionEndsKeeps ==
  ASSUME ReplInv, NEW j \in InputIds, ExecutionEnds(j), UNCHANGED <<console, turnVars>>,
         console # "gone"
  PROVE  ReplInv'
<1>0. /\ ReplTypeOK /\ OnceEach(j) /\ StandsAsWritten(j) /\ AcceptedStay
      /\ at \in [InputIds -> Listing \union Over \union {"idle", "fetching"}]
      /\ assertions \in [InputIds -> Seq(Nat)]
  BY DEF ReplInv, ReplTypeOK
<1>1. /\ at[j] = "executing" /\ assertions' = [assertions EXCEPT ![j] = << >>]
      /\ UNCHANGED <<statements, next, previous, checks>>
      /\ at' = [at EXCEPT ![j] =
           IF next[j] <= Len(List(j)) /\ List(j)[next[j]].sort = "execute" THEN "mutating" ELSE "listing"]
  BY DEF ExecutionEnds, Go
<1>2. PICK p \in {"mutating", "listing"} : at' = [at EXCEPT ![j] = p]
  BY <1>1
<1>3. at'[j] = p /\ p \in Listing /\ at[j] \in Listing /\ p \notin {"executing", "idle", "fetching", "done"}
  BY <1>0, <1>1, <1>2 DEF Listing
<1>4. /\ assertions' \in [InputIds -> Seq(Nat)] /\ assertions'[j] = << >> /\ Range(assertions'[j]) = {}
      /\ \A q \in InputIds : q # j => assertions'[q] = assertions[q]
  BY <1>0, <1>1, EmptySeq DEF Range
<1>5. ReplTypeOK'
  BY <1>0, <1>1, <1>2, <1>3, <1>4 DEF ReplTypeOK
<1>6. \A k : Before(j, k)' = Before(j, k)
  BY <1>1, BeforeKept
<1>7. StandsAsWritten(j)'
  BY <1>0, <1>1, <1>3, <1>4, <1>6 DEF StandsAsWritten, Asserts
<1>8. OnceEach(j)'
  <2>1. \A k : CheckedIn(j, k)' = CheckedIn(j, k)
    BY <1>1 DEF CheckedIn
  <2>2. \A k : WasChecked(j, k)' <=> WasChecked(j, k)
    BY <1>1, <1>3, <1>4 DEF WasChecked
  <2> QED
    BY <1>0, <1>1, <1>3, <2>1, <2>2 DEF OnceEach, Asserts
<1>9. CoversUpto(statements, j, next'[j])
  BY <1>0, <1>1, <1>3 DEF AcceptedStay
<1> QED
  BY <1>1, <1>2, <1>3, <1>4, <1>5, <1>7, <1>8, <1>9, StepKeeps


(* The loop is over: each assertion was checked, and everything is there.  *)
LEMMA EndListKeeps ==
  ASSUME ReplInv, NEW j \in InputIds, EndList(j), UNCHANGED <<console, turnVars>>, console # "gone"
  PROVE  ReplInv'
<1>0. /\ ReplTypeOK /\ OnceEach(j) /\ StandsAsWritten(j) /\ AcceptedStay
      /\ at \in [InputIds -> Listing \union Over \union {"idle", "fetching"}]
      /\ next \in [InputIds -> Nat \ {0}]
      /\ Len(List(j)) \in Nat /\ DOMAIN List(j) = 1..Len(List(j))
  BY ManyInputs DEF ReplInv, ReplTypeOK
<1>1. CASE Execute(j)
  BY <1>1, ExecuteKeeps DEF EndList
<1>2. CASE ~Execute(j)
  <2>1. /\ at[j] = "listing" /\ next[j] > Len(List(j)) /\ assertions[j] = << >>
        /\ at' = [at EXCEPT ![j] = IF Inputs[j].wish THEN "fetching" ELSE "done"]
        /\ UNCHANGED <<statements, next, assertions, previous, checks>>
    BY <1>2 DEF EndList, Go, listVars
  <2>2. PICK p \in {"fetching", "done"} : at' = [at EXCEPT ![j] = p]
    BY <2>1
  <2>3. at'[j] = p /\ p \notin Listing \union {"idle"} /\ at[j] \in Listing
    BY <1>0, <2>1, <2>2 DEF Listing
  <2>4. ReplTypeOK'
    BY <1>0, <2>1, <2>2 DEF ReplTypeOK, Over
  <2>5. \A k \in DOMAIN List(j) : k < next[j]
    BY <1>0, <2>1
  <2>6. Range(assertions[j]) = {}
    BY <2>1, EmptySeq DEF Range
  <2>7. \A k : Before(j, k)' = Before(j, k)
    BY <2>1, BeforeKept
  <2>8. StandsAsWritten(j)'
    BY <1>0, <2>1, <2>3, <2>7 DEF StandsAsWritten, Asserts
  <2>9. OnceEach(j)'
    <3>1. \A k : CheckedIn(j, k)' = CheckedIn(j, k)
      BY <2>1 DEF CheckedIn
    <3>2. \A k \in DOMAIN List(j) : WasChecked(j, k)
      BY <2>3, <2>5, <2>6 DEF WasChecked
    <3> QED
      BY <1>0, <2>1, <2>3, <3>1, <3>2 DEF OnceEach, Asserts
  <2>10. CoversAll(statements, j)
    BY <1>0, <2>3, <2>5 DEF AcceptedStay, CoversUpto, CoversAll
  <2> QED
    BY <2>1, <2>2, <2>3, <2>4, <2>8, <2>9, <2>10, StepKeeps
<1> QED
  BY <1>1, <1>2

(* The mutations, and an error of theirs, do not concern the list.         *)
LEMMA MutationKeeps ==
  ASSUME ReplInv, NEW j \in InputIds, Mutated(j) \/ MutationFails(j),
         UNCHANGED <<console, turnVars>>, console # "gone"
  PROVE  ReplInv'
<1>0. /\ ReplTypeOK /\ OnceEach(j) /\ StandsAsWritten(j) /\ AcceptedStay
      /\ at \in [InputIds -> Listing \union Over \union {"idle", "fetching"}]
  BY DEF ReplInv, ReplTypeOK
<1>1. /\ at[j] = "mutating" /\ UNCHANGED <<statements, next, assertions, previous, checks>>
      /\ at' = [at EXCEPT ![j] = "listing"] \/ at' = [at EXCEPT ![j] = "stuck"]
  BY DEF Mutated, MutationFails, Go, listVars
<1>2. PICK p \in {"listing", "stuck"} : at' = [at EXCEPT ![j] = p]
  BY <1>1
<1>3. /\ at'[j] = p /\ at[j] \in Listing /\ p \notin {"executing", "idle", "fetching", "done"}
      /\ "stuck" \notin Listing /\ at[j] \notin {"executing", "fetching", "done"}
  BY <1>0, <1>1, <1>2 DEF Listing
<1>4. ReplTypeOK'
  BY <1>0, <1>1, <1>2 DEF ReplTypeOK, Listing, Over
<1>5. \A k : Before(j, k)' = Before(j, k)
  BY <1>1, BeforeKept
<1>6. StandsAsWritten(j)'
  BY <1>0, <1>1, <1>3, <1>5 DEF StandsAsWritten, Asserts
<1>7. OnceEach(j)'
  <2>1. \A k : CheckedIn(j, k)' = CheckedIn(j, k)
    BY <1>1 DEF CheckedIn
  <2>2. at'[j] \in Listing => \A k : WasChecked(j, k)' <=> WasChecked(j, k)
    BY <1>1, <1>3 DEF WasChecked
  <2>3. at'[j] \notin Listing => \A k : ~WasChecked(j, k)'
    BY <1>3 DEF WasChecked
  <2> QED
    BY <1>0, <1>1, <1>3, <2>1, <2>2, <2>3 DEF OnceEach, Asserts
<1>8. CoversUpto(statements, j, next'[j])
  BY <1>0, <1>1, <1>3 DEF AcceptedStay
<1>9. p \in Listing \union {"fetching", "done", "stuck"} /\ p \notin {"fetching", "done"}
  BY <1>2 DEF Listing
<1> QED
  BY <1>1, <1>2, <1>3, <1>4, <1>6, <1>7, <1>8, <1>9, StepKeeps

(* The value that was wished for changes nothing.                          *)
LEMMA FetchedKeeps ==
  ASSUME ReplInv, NEW j \in InputIds, Fetched(j), UNCHANGED <<console, turnVars>>, console # "gone"
  PROVE  ReplInv'
<1>0. /\ ReplTypeOK /\ OnceEach(j) /\ StandsAsWritten(j) /\ AcceptedStay
      /\ at \in [InputIds -> Listing \union Over \union {"idle", "fetching"}]
  BY DEF ReplInv, ReplTypeOK
<1>1. /\ at[j] = "fetching" /\ UNCHANGED <<statements, next, assertions, previous, checks>>
      /\ at' = [at EXCEPT ![j] = "done"]
  BY DEF Fetched, Go, listVars
<1>2. at'[j] = "done" /\ "done" \notin Listing
  BY <1>0, <1>1 DEF Listing
<1>4. ReplTypeOK'
  BY <1>0, <1>1 DEF ReplTypeOK, Over
<1>5. \A k : Before(j, k)' = Before(j, k)
  BY <1>1, BeforeKept
<1>6. StandsAsWritten(j)'
  BY <1>0, <1>1, <1>2, <1>5 DEF StandsAsWritten, Asserts
<1>7. OnceEach(j)'
  <2>1. \A k : CheckedIn(j, k)' = CheckedIn(j, k) /\ WasChecked(j, k)
    BY <1>1 DEF CheckedIn, WasChecked
  <2> QED
    BY <1>0, <1>1, <1>2, <2>1 DEF OnceEach, Asserts
<1>8. CoversAll(statements, j)
  BY <1>0, <1>1 DEF AcceptedStay
<1> QED
  BY <1>1, <1>2, <1>4, <1>6, <1>7, <1>8, StepKeeps


(* A statement is added: what was defined stays so.                        *)
LEMMA AddKeeps ==
  ASSUME ReplInv, NEW j \in InputIds, Add(j), UNCHANGED <<console, turnVars>>, console # "gone"
  PROVE  ReplInv'
<1>0. /\ ReplTypeOK /\ TurnOK /\ TurnsTaken /\ NothingLeftBehind /\ AcceptedStay
      /\ \A q \in InputIds : OnceEach(q) /\ StandsAsWritten(q)
      /\ at \in [InputIds -> Listing \union Over \union {"idle", "fetching"}]
      /\ statements \in Seq(Stmts) /\ next \in [InputIds -> Nat \ {0}]
      /\ Len(List(j)) \in Nat /\ DOMAIN List(j) = 1..Len(List(j))
  BY ManyInputs DEF ReplInv, ReplTypeOK
<1>1. CASE Execute(j)
  <2>1. at[j] = "listing"
    BY DEF Add, NextIs
  <2> QED
    BY <1>1, <2>1, ExecuteKeeps
<1>2. CASE ~Execute(j)
  <2> DEFINE n == next[j]
             s == <<j, next[j]>>
  <2>1. /\ at[j] = "listing" /\ n <= Len(List(j)) /\ assertions[j] = << >>
        /\ List(j)[n].sort \in {"let", "letWhere", "other"}
        /\ statements' = Added(statements, s)
        /\ next' = [next EXCEPT ![j] = @ + 1]
        /\ UNCHANGED <<at, assertions, previous, checks>>
    BY <1>2 DEF Add, NextIs
  <2>2. s \in Stmts /\ n \in Nat \ {0} /\ n \in DOMAIN List(j) /\ s[1] = j
    BY <1>0, <2>1 DEF Stmts
  <2>3. /\ statements' \in Seq(Stmts)
        /\ Range(statements') \subseteq Range(statements) \union {s}
        /\ \A q, k : Covers(statements, q, k) => Covers(statements', q, k)
        /\ Covers(statements', j, n)
    <3>1. statements' = Added(statements, s) /\ statements \in Seq(Stmts) /\ s \in Stmts
      BY <1>0, <2>1, <2>2
    <3>2. Added(statements, s) \in Seq(Stmts)
      BY <3>1, AddedIs
    <3>3. Range(Added(statements, s)) \subseteq Range(statements) \union {s}
      BY <3>1, AddedHas
    <3>4. \A q, k : Covers(statements, q, k) => Covers(Added(statements, s), q, k)
      BY <3>1, CoversMore
    <3>5. Covers(Added(statements, s), j, n)
      BY <3>1, CoversMore
    <3> QED
      BY <3>1, <3>2, <3>3, <3>4, <3>5
  <2>4. /\ next' \in [InputIds -> Nat \ {0}] /\ next'[j] = n + 1
        /\ \A q \in InputIds : q # j => next'[q] = next[q]
    BY <1>0, <2>1, <2>2
  <2>5. /\ \A k \in DOMAIN List(j) : k < n + 1 <=> (k < n \/ k = n)
        /\ n + 1 <= Len(List(j)) + 1
    BY <1>0, <2>1, <2>2
  <2>6. Before(j, n + 1) = Stood(j, n, Before(j, n)) /\ statements = Before(j, n)
    BY <1>0, <2>1, <2>2, BeforeIs DEF StandsAsWritten, Listing
  <2>7. Before(j, n + 1) = statements'
    <3>1. List(j)[n].sort \notin {"assert", "execute"}
      BY <2>1
    <3> QED
      BY <2>1, <2>6, <3>1 DEF Stood
  <2> HIDE DEF n, s
  <2>8. \A k : Before(j, k)' = Before(j, k)
    BY <2>1, BeforeKept
  <2>9. Range(assertions[j]) = {} /\ at[j] \in Listing /\ List(j)[n].sort # "assert"
    BY <2>1, EmptySeq DEF Range, Listing
  <2>10. ReplTypeOK' /\ TurnOK' /\ busyOf' = busyOf /\ busyOf[j] = "holding"
    BY <1>0, <2>1, <2>3, <2>4, <2>9, TurnUntouched DEF ReplTypeOK, TurnsTaken
  <2>11. \A q \in InputIds : q # j => at[q] \notin Listing \union {"fetching"}
    BY <1>0, <2>10, OneEvaluates
  <2>12. TurnsTaken'
    BY <1>0, <2>1, <2>10 DEF TurnsTaken, ZeroIsKnown, turnVars
  <2>13. NothingLeftBehind'
    BY <1>0, <2>1, <2>2, <2>3 DEF NothingLeftBehind
  <2>14. AcceptedStay'
    <3>1. \A q \in InputIds : at[q] \in {"fetching", "done"} => CoversAll(statements', q)
      BY <1>0, <2>3 DEF AcceptedStay, CoversAll
    <3>2. CoversUpto(statements', j, n + 1)
      <4>1. CoversUpto(statements, j, n)
        BY <1>0, <2>9 DEF AcceptedStay, n
      <4>2. \A k \in DOMAIN List(j) : k < n + 1 => k < n \/ k = n
        BY <2>5
      <4> QED
        BY <2>3, <4>1, <4>2 DEF CoversUpto
    <3> QED
      BY <1>0, <2>1, <2>4, <2>11, <3>1, <3>2 DEF AcceptedStay
  <2>15. OnceEach(j)'
    <3>1. \A k : CheckedIn(j, k)' = CheckedIn(j, k)
      BY <2>1 DEF CheckedIn
    <3>2. ASSUME NEW k \in DOMAIN List(j), Asserts(j, k) PROVE WasChecked(j, k)' <=> WasChecked(j, k)
      <4>1. k # n
        BY <2>9, <3>2 DEF Asserts
      <4>2. k < next'[j] <=> k < next[j]
        BY <2>4, <2>5, <4>1 DEF n
      <4> QED
        BY <2>1, <4>2 DEF WasChecked
    <3> QED
      BY <1>0, <2>1, <3>1, <3>2 DEF OnceEach, Asserts
  <2>16. StandsAsWritten(j)'
    BY SMTT(30), <1>0, <2>1, <2>4, <2>5, <2>7, <2>8, <2>9 DEF StandsAsWritten, Asserts
  <2>17. ASSUME NEW q \in InputIds PROVE OnceEach(q)' /\ StandsAsWritten(q)'
    <3>1. CASE q = j
      BY <2>15, <2>16, <3>1
    <3>2. CASE q # j
      BY <1>0, <2>1, <2>4, <2>11, <3>2, OtherInput
    <3> QED
      BY <3>1, <3>2
  <2> QED
    BY <2>10, <2>12, <2>13, <2>14, <2>17 DEF ReplInv
<1> QED
  BY <1>1, <1>2

(* A rejected input is taken back, and nothing else is.                    *)
LEMMA RejectKeeps ==
  ASSUME ReplInv, NEW j \in InputIds, Reject(j), UNCHANGED <<console, turnVars>>, console # "gone"
  PROVE  ReplInv'
<1>0. /\ ReplTypeOK /\ TurnOK /\ TurnsTaken /\ NothingLeftBehind /\ AcceptedStay
      /\ \A q \in InputIds : OnceEach(q) /\ StandsAsWritten(q)
      /\ at \in [InputIds -> Listing \union Over \union {"idle", "fetching"}]
      /\ previous \in [InputIds -> Seq(Stmts)]
  BY DEF ReplInv, ReplTypeOK
<1>1. /\ at[j] = "executing" /\ statements' = previous[j]
      /\ UNCHANGED <<next, assertions, previous, checks>>
      /\ at' = [at EXCEPT ![j] = "rejected"]
  BY DEF Reject, Go, listVars
<1>2. /\ at'[j] = "rejected" /\ at[j] \in Listing /\ "rejected" \notin Listing
      /\ \A q \in InputIds : q # j => at'[q] = at[q]
  BY <1>0, <1>1 DEF Listing
<1>3. ReplTypeOK' /\ TurnOK' /\ busyOf' = busyOf /\ busyOf[j] = "holding"
  BY <1>0, <1>1, <1>2, TurnUntouched DEF ReplTypeOK, TurnsTaken, Over
<1>4. \A q \in InputIds : q # j => at[q] \notin Listing \union {"fetching"}
  BY <1>0, <1>3, OneEvaluates
<1>5. \A q \in InputIds : at'[q] \notin Listing \union {"fetching"}
  BY <1>2, <1>4
<1>6. TurnsTaken'
  BY <1>0, <1>3, <1>5 DEF TurnsTaken, ZeroIsKnown, turnVars
<1>7. NothingLeftBehind'
  <2>1. \A s \in Range(previous[j]) : s \in Stmts
    <3>1. previous[j] \in Seq(Stmts)
      BY <1>0
    <3> QED
      BY <3>1, ElementOfSeq DEF Range
  <2>2. \A s \in Range(previous[j]) : s[1] \in InputIds
    BY <2>1 DEF Stmts
  <2>3. \A s \in Range(statements') : at'[s[1]] \notin {"idle", "rejected"}
    BY <1>0, <1>1, <1>2, <2>2 DEF NothingLeftBehind
  <2> QED
    BY <1>5, <2>3 DEF NothingLeftBehind
<1>8. AcceptedStay'
  <2>1. ASSUME NEW q \in InputIds, at'[q] \in {"fetching", "done"} PROVE CoversAll(statements', q)
    <3>1. at[q] \in {"fetching", "done"}
      BY <1>2, <2>1
    <3> QED
      BY <1>0, <1>1, <1>2, <3>1 DEF AcceptedStay
  <2> QED
    BY <1>5, <2>1 DEF AcceptedStay
<1>9. \A k : Before(j, k)' = Before(j, k)
  BY <1>1, BeforeKept
<1>10. StandsAsWritten(j)'
  BY <1>0, <1>1, <1>2, <1>9 DEF StandsAsWritten, Asserts
<1>11. OnceEach(j)'
  BY <1>2 DEF OnceEach, WasChecked
<1>12. ASSUME NEW q \in InputIds PROVE OnceEach(q)' /\ StandsAsWritten(q)'
  <2>1. CASE q = j
    BY <1>10, <1>11, <2>1
  <2>2. CASE q # j
    BY <1>0, <1>1, <1>2, <1>4, <2>2, OtherInput
  <2> QED
    BY <2>1, <2>2
<1> QED
  BY <1>3, <1>6, <1>7, <1>8, <1>12 DEF ReplInv

(* An input begins with the list that earlier ones left.                   *)
LEMMA BeginKeeps ==
  ASSUME ReplInv, NEW j \in InputIds, Begin(j), console # "gone"
  PROVE  ReplInv'
<1>0. /\ ReplTypeOK /\ TurnOK /\ TurnsTaken /\ NothingLeftBehind /\ AcceptedStay
      /\ \A q \in InputIds : OnceEach(q) /\ StandsAsWritten(q)
      /\ at \in [InputIds -> Listing \union Over \union {"idle", "fetching"}]
      /\ previous \in [InputIds -> Seq(Stmts)] /\ statements \in Seq(Stmts)
      /\ Len(List(j)) \in Nat /\ DOMAIN List(j) = 1..Len(List(j))
  BY ManyInputs DEF ReplInv, ReplTypeOK
<1>1. /\ at[j] = "idle" /\ busyOf[j] = "holding"
      /\ UNCHANGED <<statements, next, assertions, checks, console, turnVars>>
      /\ previous' = [previous EXCEPT ![j] = statements]
      /\ at' = [at EXCEPT ![j] = IF List(j) # << >> THEN "listing"
                                 ELSE IF Inputs[j].wish THEN "fetching" ELSE "done"]
  BY DEF Begin, Go, HasTurn
<1>2. PICK p \in {"listing", "fetching", "done"} :
        at' = [at EXCEPT ![j] = p] /\ (p \in {"fetching", "done"} => List(j) = << >>)
  BY <1>1
<1>3. /\ at'[j] = p /\ (p \in Listing => p = "listing")
      /\ p \in Listing \union {"fetching", "done"}
      /\ \A q \in InputIds : q # j => at'[q] = at[q] /\ previous'[q] = previous[q]
      /\ previous'[j] = statements
  BY <1>0, <1>1, <1>2 DEF Listing
<1>4. ReplTypeOK' /\ TurnOK' /\ busyOf' = busyOf
  BY <1>0, <1>1, <1>2, <1>3, TurnUntouched DEF ReplTypeOK, Over
<1>5. \A q \in InputIds : q # j => at[q] \notin Listing \union {"fetching"}
  BY <1>0, <1>1, OneEvaluates
<1>6. TurnsTaken'
  BY <1>0, <1>1, <1>3, <1>4 DEF TurnsTaken, ZeroIsKnown, turnVars
<1>7. NothingLeftBehind'
  <2>1. \A s \in Range(statements) : s \in Stmts
    BY <1>0, ElementOfSeq DEF Range
  <2>2. \A s \in Range(statements) : s[1] \in InputIds
    BY <2>1 DEF Stmts
  <2>3. \A s \in Range(statements) : s[1] # j /\ at'[s[1]] \notin {"idle", "rejected"}
    BY <1>0, <1>1, <1>3, <2>2 DEF NothingLeftBehind
  <2> QED
    BY <1>1, <1>3, <1>5, <2>3 DEF NothingLeftBehind
<1>8. next[j] = 1 /\ assertions[j] = << >> /\ checks[j] = << >>
  BY <1>0, <1>1 DEF StandsAsWritten
<1>9. Range(assertions[j]) = {} /\ Range(checks[j]) = {} /\ DOMAIN checks[j] = {}
  BY <1>8, EmptySeq DEF Range
<1>10. \A k \in DOMAIN List(j) : ~(k < next[j]) /\ p = "listing"
  <2>1. \A k \in DOMAIN List(j) : ~(k < 1)
    BY <1>0
  <2>2. List(j) = << >> => DOMAIN List(j) = {}
    BY EmptySeq
  <2> QED
    BY <1>2, <1>8, <2>1, <2>2
<1>11. AcceptedStay'
  <2>1. \A q \in InputIds : at'[q] \in {"fetching", "done"} => CoversAll(statements, q)
    <3>1. CoversAll(statements, j) \/ p = "listing"
      BY <1>10 DEF CoversAll
    <3>2. at'[j] \in {"fetching", "done"} => CoversAll(statements, j)
      BY <1>3, <3>1
    <3> QED
      BY <1>0, <1>3, <3>2 DEF AcceptedStay
  <2>2. CoversUpto(statements, j, next[j])
    BY <1>10 DEF CoversUpto
  <2> QED
    BY <1>1, <1>3, <1>5, <2>1, <2>2 DEF AcceptedStay
<1>12. OnceEach(j)'
  <2>1. \A k : CheckedIn(j, k)' = {}
    BY <1>1, <1>9 DEF CheckedIn
  <2>2. \A k \in DOMAIN List(j) : ~WasChecked(j, k)'
    BY <1>1, <1>3, <1>10 DEF WasChecked
  <2> QED
    BY <2>1, <2>2 DEF OnceEach
<1>13. StandsAsWritten(j)'
  <2>1. Before(j, 1)' = previous'[j]
    <3>1. Before(j, 1)' = Standing(previous'[j], j, 1)
      BY DEF Before, Standing
    <3> QED
      BY <3>1, StandingIs
  <2>2. Before(j, next[j])' = statements
    BY <1>1, <1>3, <1>8, <2>1
  <2>3. at'[j] # "idle" /\ next[j] <= Len(List(j)) + 1
    BY <1>0, <1>2, <1>3, <1>8
  <2> QED
    BY <1>1, <1>9, <2>2, <2>3 DEF StandsAsWritten
<1>14. ASSUME NEW q \in InputIds PROVE OnceEach(q)' /\ StandsAsWritten(q)'
  <2>1. CASE q = j
    BY <1>12, <1>13, <2>1
  <2>2. CASE q # j
    BY <1>0, <1>1, <1>3, <1>5, <2>2, OtherInput
  <2> QED
    BY <2>1, <2>2
<1> QED
  BY <1>4, <1>6, <1>7, <1>11, <1>14 DEF ReplInv


-----------------------------------------------------------------------------
(* Repl: the steps that leave the list alone.                              *)
ListUntouched == UNCHANGED <<statements, at, next, assertions, previous, checks>>

(* They keep what is about the list.                                       *)
LEMMA Untouched ==
  ASSUME ReplInv, ListUntouched, console' \in {"open", "exiting", "gone"}
  PROVE  /\ ReplTypeOK' /\ NothingLeftBehind' /\ AcceptedStay'
         /\ \A j \in InputIds : OnceEach(j)' /\ StandsAsWritten(j)'
<1>0. /\ ReplTypeOK /\ NothingLeftBehind /\ AcceptedStay
      /\ \A j \in InputIds : OnceEach(j) /\ StandsAsWritten(j)
  BY DEF ReplInv
<1>1. ReplTypeOK'
  BY <1>0 DEF ReplTypeOK, ListUntouched
<1>2. NothingLeftBehind' /\ AcceptedStay'
  BY <1>0 DEF NothingLeftBehind, AcceptedStay, ListUntouched
<1>3. ASSUME NEW j \in InputIds PROVE OnceEach(j)' /\ StandsAsWritten(j)'
  <2>1. \A k : /\ CheckedIn(j, k)' = CheckedIn(j, k) /\ (WasChecked(j, k)' <=> WasChecked(j, k))
               /\ (Asserts(j, k)' <=> Asserts(j, k))
    BY DEF CheckedIn, WasChecked, Asserts, ListUntouched
  <2>2. \A k : Before(j, k)' = Before(j, k)
    BY BeforeKept DEF ListUntouched
  <2>3. OnceEach(j)'
    BY <1>0, <2>1 DEF OnceEach, ListUntouched
  <2>4. StandsAsWritten(j)'
    BY <1>0, <2>1, <2>2 DEF StandsAsWritten, ListUntouched
  <2> QED
    BY <2>3, <2>4
<1> QED
  BY <1>1, <1>2, <1>3

(* An operation on the turns interrupts nobody who has one.                *)
LEMMA TurnKeeps ==
  ASSUME ReplInv, NEW j \in InputIds, TurnOp(j), ListUntouched, UNCHANGED console, console # "gone",
         Turn!Increment(j) => console = "open",
         Turn!Release(j) => at[j] \in Over
  PROVE  ReplInv'
<1>0. ReplTypeOK /\ TurnOK /\ TurnsTaken
  BY DEF ReplInv
<1>1. /\ TurnOK'
      /\ \A q \in InputIds \ {j} :
           busyOf'[q] = busyOf[q] \/ (busyOf[q] = "waiting" /\ busyOf'[q] = "passed")
      /\ Turn!Increment(j) => busyOf[j] = "idle"
      /\ Turn!Resume(j) => busyOf[j] = "passed" /\ busyOf'[j] = "holding"
      /\ Turn!TimeOut(j) => busyOf[j] \in {"waiting", "passed"}
      /\ ~Turn!Increment(j) /\ ZeroIsKnown => ZeroIsKnown'
  BY <1>0, TurnSteps
<1>2. /\ ReplTypeOK' /\ NothingLeftBehind' /\ AcceptedStay'
      /\ \A q \in InputIds : OnceEach(q)' /\ StandsAsWritten(q)'
  BY <1>0, Untouched DEF ReplTypeOK
<1>3. ASSUME NEW q \in InputIds, at[q] \in Listing \union {"fetching"} PROVE busyOf'[q] = "holding"
  <2>1. busyOf[q] = "holding"
    BY <1>0, <1>3 DEF TurnsTaken
  <2>2. CASE q = j
    <3>1. at[j] \notin Over
      BY <1>3, <2>2 DEF Over, Listing
    <3> QED
      BY <1>1, <2>1, <2>2, <3>1 DEF TurnOp
  <2>3. CASE q # j
    BY <1>1, <2>1, <2>3
  <2> QED
    BY <2>2, <2>3
<1>4. console' = "exiting" => ZeroIsKnown'
  BY <1>0, <1>1 DEF TurnsTaken
<1>5. TurnsTaken'
  BY <1>3, <1>4 DEF TurnsTaken, ListUntouched
<1> QED
  BY <1>1, <1>2, <1>5 DEF ReplInv

(* "exit" waits until nobody is busy,                                      *)
LEMMA ExitKeeps ==
  ASSUME ReplInv, Exit
  PROVE  ReplInv'
<1>0. TurnOK /\ TurnsTaken
  BY DEF ReplInv
<1>1. ListUntouched /\ console' = "exiting" /\ Turn!WaitForZero
  BY DEF Exit, ListUntouched, listVars
<1>2. TurnOK' /\ busyOf' = busyOf /\ ZeroIsKnown'
  BY <1>0, <1>1, TurnZero
<1>3. TurnsTaken'
  BY <1>0, <1>1, <1>2 DEF TurnsTaken, ListUntouched
<1> QED
  BY <1>1, <1>2, <1>3, Untouched DEF ReplInv

(* so that no evaluation is under way when the program ends.               *)
LEMMA GoneKeeps ==
  ASSUME ReplInv, Gone
  PROVE  ReplInv'
<1>0. TurnOK /\ TurnsTaken /\ ReplTypeOK
  BY DEF ReplInv
<1>1. /\ ListUntouched /\ console = "exiting" /\ ~busyZero /\ console' = "gone"
      /\ UNCHANGED turnVars
  BY DEF Gone, ListUntouched, listVars
<1>2. TurnOK' /\ busyOf' = busyOf
  BY <1>0, <1>1, TurnUntouched
<1>3. busyCount = 0
  BY <1>0, <1>1 DEF TurnsTaken, ZeroIsKnown
<1>4. \A j \in InputIds : at[j] \in Over \union {"idle"}
  <2>1. \A j \in InputIds : busyOf[j] # "holding"
    BY <1>0, <1>3, TurnExcludes
  <2>2. \A j \in InputIds : at[j] \in Listing \union Over \union {"idle", "fetching"}
    BY <1>0 DEF ReplTypeOK
  <2> QED
    BY <1>0, <2>1, <2>2 DEF TurnsTaken
<1>5. TurnsTaken'
  BY <1>0, <1>1, <1>2, <1>4 DEF TurnsTaken, ListUntouched
<1> QED
  BY <1>1, <1>2, <1>5, Untouched DEF ReplInv

(* The invariant holds when the program starts,                            *)
LEMMA ReplInitOK == ReplInit => ReplInv
<1> SUFFICES ASSUME ReplInit PROVE ReplInv
  OBVIOUS
<1>1. TurnOK
  <2>1. TurnLemmas!SemInit /\ busyCount = 0
    BY DEF ReplInit, Turn!SemInit, TurnLemmas!SemInit
  <2>2. TurnLemmas!SemInv
    BY <2>1, TurnAssumption, TurnLemmas!InitOK
  <2> QED
    BY <2>1, <2>2 DEF TurnOK
<1>2. ReplTypeOK
  BY EmptySeq DEF ReplInit, ReplTypeOK
<1>3. Range(statements) = {} /\ \A j \in InputIds : at[j] = "idle" /\ "idle" \notin Listing
  BY EmptySeq DEF ReplInit, Range, Listing
<1>4. TurnsTaken /\ NothingLeftBehind /\ AcceptedStay
  BY <1>3 DEF ReplInit, TurnsTaken, NothingLeftBehind, AcceptedStay
<1>5. ASSUME NEW j \in InputIds PROVE OnceEach(j) /\ StandsAsWritten(j)
  <2>1. checks[j] = << >> /\ assertions[j] = << >> /\ next[j] = 1
    BY DEF ReplInit
  <2>2. Range(checks[j]) = {}
    BY <2>1, EmptySeq DEF Range
  <2> QED
    BY <1>3, <2>1, <2>2 DEF OnceEach, StandsAsWritten, WasChecked
<1> QED
  BY <1>1, <1>2, <1>4, <1>5 DEF ReplInv

(* and every step of it keeps it.                                          *)
LEMMA ReplInvKept == ReplInv /\ [ReplNext]_replVars => ReplInv'
<1> SUFFICES ASSUME ReplInv, [ReplNext]_replVars PROVE ReplInv'
  OBVIOUS
<1>1. CASE UNCHANGED replVars
  <2>1. ListUntouched /\ UNCHANGED <<console, turnVars>>
    BY <1>1 DEF replVars, listVars, ListUntouched
  <2>2. TurnOK /\ TurnsTaken /\ ReplTypeOK
    BY DEF ReplInv
  <2>3. TurnOK' /\ busyOf' = busyOf
    BY <2>1, <2>2, TurnUntouched
  <2>4. TurnsTaken'
    BY <2>1, <2>2, <2>3 DEF TurnsTaken, ZeroIsKnown, turnVars, ListUntouched
  <2> QED
    BY <2>1, <2>2, <2>3, <2>4, Untouched DEF ReplInv, ReplTypeOK
<1>2. CASE Exit
  BY <1>2, ExitKeeps
<1>3. CASE Gone
  BY <1>3, GoneKeeps
<1>4. ASSUME NEW j \in InputIds, console # "gone",
             Enter(j) \/ GetTurn(j) \/ GiveUpTurn(j) \/ Evaluate(j)
      PROVE  ReplInv'
  <2>1. CASE Enter(j) \/ GetTurn(j) \/ GiveUpTurn(j) \/ Leave(j)
    <3>1. TurnOp(j) /\ ListUntouched /\ UNCHANGED console
      BY <2>1 DEF Enter, GetTurn, GiveUpTurn, Leave, TurnOp, ListUntouched, listVars
    <3>2. /\ Turn!Increment(j) => busyOf[j] = "idle"
          /\ Turn!Resume(j) \/ Turn!TimeOut(j) => busyOf[j] \in {"waiting", "passed"}
          /\ Turn!Release(j) => busyOf[j] = "holding"
      BY DEF Turn!Increment, Turn!Resume, Turn!TimeOut, Turn!Release
    <3>4. Turn!Increment(j) => console = "open"
      BY <2>1, <3>2 DEF Enter, GetTurn, GiveUpTurn, Leave
    <3>6. Turn!Release(j) => at[j] \in Over
      BY <2>1, <3>2 DEF Enter, GetTurn, GiveUpTurn, Leave, Over
    <3> QED
      BY <1>4, <3>1, <3>4, <3>6, TurnKeeps
  <2>2. CASE Begin(j)
    BY <1>4, <2>2, BeginKeeps
  <2>3. CASE InList(j)
    BY <1>4, <2>3, CollectKeeps, RepeatKeeps, AddKeeps, EndListKeeps, ExecutionEndsKeeps,
       RejectKeeps, MutationKeeps, FetchedKeeps DEF InList
  <2> QED
    BY <1>4, <2>1, <2>2, <2>3 DEF Evaluate
<1> QED
  BY <1>1, <1>2, <1>3, <1>4 DEF ReplNext

(* Every assertion is checked once, against the statements that stand      *)
(* before it, however inputs arrive, time out and are taken back.          *)
THEOREM AssertedRight == ReplInit /\ [][ReplNext]_replVars => []AssertedInPlace
<1>1. ReplInv => AssertedInPlace
  <2> SUFFICES ASSUME ReplInv, NEW j \in InputIds
               PROVE  /\ \A c \in Range(checks[j]) : \A k \in Range(c.asserted) :
                           List(j)[k].sort = "assert" /\ c.saw = Before(j, k)
                      /\ at[j] \in {"fetching", "done"} =>
                           \A k \in DOMAIN List(j) : List(j)[k].sort = "assert" =>
                             Cardinality(CheckedIn(j, k)) = 1
    BY DEF AssertedInPlace, CheckedIn
  <2>0. OnceEach(j) /\ StandsAsWritten(j)
    BY DEF ReplInv
  <2>1. \A c \in Range(checks[j]) : \A k \in Range(c.asserted) :
          List(j)[k].sort = "assert" /\ c.saw = Before(j, k)
    BY <2>0 DEF StandsAsWritten, Asserts
  <2>2. ASSUME at[j] \in {"fetching", "done"}, NEW k \in DOMAIN List(j), List(j)[k].sort = "assert"
        PROVE  Cardinality(CheckedIn(j, k)) = 1
    <3>1. PICK i \in DOMAIN checks[j] : CheckedIn(j, k) = {i}
      BY <2>0, <2>2 DEF OnceEach, WasChecked, Asserts
    <3> QED
      BY <3>1, FS_Singleton
  <2> QED
    BY <2>1, <2>2
<1> QED
  BY <1>1, ReplInitOK, ReplInvKept, PTL

(* Inputs are all or nothing, and the program ends between two of them.    *)
THEOREM AcceptedOrGoneRight == ReplInit /\ [][ReplNext]_replVars => []AcceptedOrGone
<1>1. ReplInv => AcceptedOrGone
  <2> SUFFICES ASSUME ReplInv, NEW j \in InputIds
               PROVE  /\ at[j] \in {"fetching", "done"} => CoversAll(statements, j)
                      /\ at[j] = "rejected" => \A s \in Range(statements) : s[1] # j
                      /\ console = "gone" => at[j] \in Over \union {"idle"}
    BY DEF AcceptedOrGone, CoversAll, Covers, SameFeature, Over
  <2> QED
    BY DEF ReplInv, AcceptedStay, NothingLeftBehind, TurnsTaken
<1> QED
  BY <1>1, ReplInitOK, ReplInvKept, PTL

(* eval() and "exit" of the REPL are operations of the semaphore, and all  *)
(* that is done to an input in its turn leaves it alone.                   *)
THEOREM ReplUsesSemaphore ==
  ReplInit /\ [][ReplNext]_replVars => Turn!SemInit /\ [][Turn!SemNext]_(Turn!semVars)
<1>1. ReplInit => Turn!SemInit
  BY DEF ReplInit
<1>2. [ReplNext]_replVars => [Turn!SemNext]_(Turn!semVars)
  <2> SUFFICES ASSUME [ReplNext]_replVars PROVE Turn!SemNext \/ UNCHANGED Turn!semVars
    OBVIOUS
  <2>1. UNCHANGED turnVars => UNCHANGED Turn!semVars
    BY DEF turnVars, Turn!semVars
  <2>2. CASE Exit
    BY <2>2 DEF Exit, Turn!SemNext
  <2>3. CASE Gone \/ UNCHANGED replVars
    BY <2>1, <2>3 DEF Gone, replVars
  <2>4. ASSUME NEW j \in InputIds, Enter(j) \/ GetTurn(j) \/ GiveUpTurn(j) \/ Evaluate(j)
        PROVE  Turn!SemNext \/ UNCHANGED turnVars
    BY <2>4 DEF Enter, GetTurn, GiveUpTurn, Evaluate, Begin, InList, Leave, Turn!SemNext
  <2> QED
    BY <2>1, <2>2, <2>3, <2>4 DEF ReplNext
<1> QED
  BY <1>1, <1>2, PTL

(* One input is evaluated at a time, and none once the program has ended.  *)
InputsExclude ==
  \A j \in InputIds : at[j] \in Listing \union {"fetching"} =>
    /\ console # "gone"
    /\ \A i \in InputIds : at[i] \in Listing \union {"fetching"} => i = j

(* However inputs arrive and whichever give up, evaluations do not mix.    *)
THEOREM EvaluationsExclude == ReplInit /\ [][ReplNext]_replVars => []InputsExclude
<1>1. ReplInv => InputsExclude
  <2> SUFFICES ASSUME ReplInv, NEW j \in InputIds, at[j] \in Listing \union {"fetching"}
               PROVE  /\ console # "gone"
                      /\ \A i \in InputIds : at[i] \in Listing \union {"fetching"} => i = j
    BY DEF InputsExclude
  <2>1. TurnOK /\ TurnsTaken /\ busyOf[j] = "holding"
    BY DEF ReplInv, TurnsTaken
  <2>2. console # "gone"
    BY <2>1 DEF TurnsTaken, Listing, Over
  <2> QED
    BY <2>1, <2>2, OneEvaluates
<1> QED
  BY <1>1, ReplInitOK, ReplInvKept, PTL

(* An input whose turn it is goes on.                                      *)
LEMMA HoldersProceed ==
  ASSUME ReplInv, NEW j \in InputIds, busyOf[j] \in {"passed", "holding"}
  PROVE  Proceeds(j)
<1>1. at[j] \in Listing \union Over \union {"idle", "fetching"} /\ next[j] \in Nat \ {0}
  BY DEF ReplInv, ReplTypeOK
<1>2. ASSUME at[j] = "listing" PROVE next[j] > Len(List(j)) \/ NextIs(j, Sorts)
  BY <1>1, <1>2, ManyInputs DEF NextIs
<1> QED
  BY <1>1, <1>2 DEF Proceeds, HasTurn, Listing, Over

(* No deadlock: inputs wait for one that goes on, and "exit" for the last. *)
THEOREM ReplNeverStuck == ReplInit /\ [][ReplNext]_replVars => []ReplNotStuck
<1>1. ReplInv => ReplNotStuck
  <2> SUFFICES ASSUME ReplInv, Turn!NobodyRefused, console = "exiting" => busyZero,
                      console = "exiting" \/ \E j \in InputIds : busyOf[j] = "waiting"
               PROVE  \E j \in InputIds : Proceeds(j)
    BY DEF ReplNotStuck
  <2>1. TurnLemmas!SomebodyServes
    BY TurnAssumption, TurnLemmas!SomeHolder DEF ReplInv, TurnOK
  <2>2. \E j \in InputIds : busyOf[j] \in {"passed", "holding"}
    BY <2>1 DEF TurnLemmas!SomebodyServes, TurnLemmas!Holders,
                TurnLemmas!NobodyRefused, Turn!NobodyRefused
  <2> QED
    BY <2>2, HoldersProceed
<1> QED
  BY <1>1, ReplInitOK, ReplInvKept, PTL

-----------------------------------------------------------------------------
(* The programs together, as the run explores them.                        *)

(* One program in each behaviour is each of them by itself: what is proved *)
(* of the specifications of the four holds of what TLC checks.             *)
THEOREM EachProgramByItself ==
  MCSpec => /\ StreamInit /\ [][StreamNext]_cliVars
            /\ RecompileInit /\ [][RecompileNext]_recompileVars
            /\ ReplInit /\ [][ReplNext]_replVars
            /\ PageSpec
<1>1. MCInit => StreamInit /\ RecompileInit /\ ReplInit /\ PageInit
  BY DEF MCInit
<1>2. [MCNext]_allVars => /\ [StreamNext]_cliVars /\ [RecompileNext]_recompileVars
                          /\ [ReplNext]_replVars /\ [PageNext]_pageVars
  BY DEF MCNext, allVars
<1> QED
  BY <1>1, <1>2, PTL DEF MCSpec, PageSpec

(* All that the run checks of them, but for their end, for any input, any  *)
(* edits, inputs, texts and moves; and none of them gets stuck.            *)
THEOREM ProgramsAreRight ==
  MCSpec => [](/\ ConcurrencyRespected /\ PrintedOnce
               /\ NewestSourceRuns
               /\ AssertedInPlace /\ AcceptedOrGone
               /\ StatusIsOfTheText /\ EventsInOrder
               /\ StreamNotStuck /\ RecompileNotStuck /\ ReplNotStuck)
BY EachProgramByItself, ConcurrencyKept, EachPrintedOnce, NewestRuns, AssertedRight,
   AcceptedOrGoneRight, StatusIsRight, EventsRight, StreamNeverStuck, RecompileNeverStuck, ReplNeverStuck, PTL

=============================================================================
