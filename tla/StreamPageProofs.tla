--------------------------- MODULE StreamPageProofs ---------------------------
(***************************************************************************)
(* The demonstration page, for any texts, files of events and bounds on    *)
(* what the user does.                                                     *)
(*                                                                         *)
(* What the page says of the text is true because the last text the worker *)
(* has been sent, compiles or has answered about is always that of the     *)
(* editor: an answer that is ignored, or a compilation that is skipped, is *)
(* followed by one that is not.                                            *)
(*                                                                         *)
(* Events are played in order because, as long as the playhead was moved   *)
(* while the timer ran, one chain of callbacks has not ended; where it is  *)
(* says which file is loaded or being fetched, and how many events of it   *)
(* have been played.                                                       *)
(***************************************************************************)
EXTENDS StreamPage, SequenceTheorems, WellFoundedInduction, TLAPS

PageSpec == PageInit /\ [][PageNext]_pageVars

Messages ==
  [type : {"init", "compile", "playhead"}, source : Texts \union {NoText}, position : Files]
Answers == [source : Texts, status : {"success", "error"}]

(* The types of what editor and compilation share. *)
TextTypeOK ==
  /\ text \in Texts
  /\ compileStatus \in {"pending", "success", "error"}
  /\ toWorker \in Seq(Messages)
  /\ toPage \in Seq(Answers)
  /\ compileTimeout \in BOOLEAN

Compiles(m) == m.type \in {"init", "compile"}

(* The newest text the worker knows or will learn of is the editor's. *)
NewestIsText ==
  \/ /\ \A i \in 1..Len(toWorker) : ~Compiles(toWorker[i])
     /\ latestSource = text
  \/ \E i \in 1..Len(toWorker) :
       /\ Compiles(toWorker[i]) /\ toWorker[i].source = text
       /\ \A j \in 1..Len(toWorker) : i < j => ~Compiles(toWorker[j])

(* What is compiled is a text. *)
SourcesAreTexts ==
  /\ \A i \in 1..Len(toWorker) : Compiles(toWorker[i]) => toWorker[i].source \in Texts
  /\ compileTimeout => latestSource \in Texts

(* Answers are true of the text they are about. *)
AnswersAreTrue ==
  \A i \in 1..Len(toPage) : toPage[i].status = "error" <=> toPage[i].source \in BrokenTexts

(* Once nothing is left to compile, the last answer is about the text. *)
LastAnswerIsOfTheText ==
  ~StillToCompile =>
    /\ text \notin BrokenTexts => latestExecutable = text
    /\ toPage = << >> => compileStatus # "pending"
    /\ toPage # << >> => toPage[Len(toPage)].source = text

StatusIsTrue ==
  /\ compileStatus = "error" => text \in BrokenTexts
  /\ compileStatus = "success" =>
       text \notin BrokenTexts /\ (latestExecutable = text \/ StillToCompile)

PageInv ==
  /\ TextTypeOK /\ NewestIsText /\ SourcesAreTexts
  /\ AnswersAreTrue /\ LastAnswerIsOfTheText /\ StatusIsTrue

-----------------------------------------------------------------------------
(* A message that is sent comes last. *)
LEMMA Sent ==
  ASSUME NEW S, NEW q \in Seq(S), NEW m \in S
  PROVE  /\ Append(q, m) \in Seq(S) /\ Len(Append(q, m)) = Len(q) + 1 /\ Len(q) \in Nat
         /\ \A i \in 1..Len(q) : Append(q, m)[i] = q[i]
         /\ Append(q, m)[Len(q) + 1] = m
  BY AppendProperties

(* A message that is received was first. *)
LEMMA Received ==
  ASSUME NEW S, NEW q \in Seq(S), q # << >>
  PROVE  /\ Tail(q) \in Seq(S) /\ Len(Tail(q)) = Len(q) - 1 /\ Len(q) \in Nat \ {0}
         /\ Head(q) = q[1] /\ q[1] \in S
         /\ \A i \in 1..Len(q) - 1 : Tail(q)[i] = q[i + 1]
  BY HeadTailProperties, EmptySeq, ElementOfSeq

(* Queues of the worker after a message that asks for a compilation, and   *)
(* after any other.                                                        *)
LEMMA AsksForText ==
  ASSUME TextTypeOK, SourcesAreTexts, NEW m \in Messages, Compiles(m), m.source \in Texts,
         m.source = text', toWorker' = Append(toWorker, m),
         UNCHANGED <<latestSource, compileTimeout>>
  PROVE  toWorker' \in Seq(Messages) /\ NewestIsText' /\ SourcesAreTexts' /\ StillToCompile'
  <1>1. /\ toWorker' \in Seq(Messages) /\ Len(toWorker') = Len(toWorker) + 1 /\ Len(toWorker) \in Nat
        /\ \A i \in 1..Len(toWorker) : toWorker'[i] = toWorker[i]
        /\ toWorker'[Len(toWorker) + 1] = m
    BY Sent DEF TextTypeOK
  <1> DEFINE n == Len(toWorker)
  <1>2. Len(toWorker) + 1 \in 1..Len(toWorker')
    BY <1>1
  <1>3. NewestIsText'
    <2>1. \A j \in 1..Len(toWorker') : ~(Len(toWorker) + 1 < j)
      BY <1>1
    <2>2. /\ Len(toWorker) + 1 \in 1..Len(toWorker') /\ Compiles(toWorker'[Len(toWorker) + 1])
          /\ toWorker'[Len(toWorker) + 1].source = text'
          /\ \A j \in 1..Len(toWorker') : Len(toWorker) + 1 < j => ~Compiles(toWorker'[j])
      BY <1>1, <1>2, <2>1
    <2>3. \E i \in 1..Len(toWorker') :
             /\ Compiles(toWorker'[i]) /\ toWorker'[i].source = text'
             /\ \A j \in 1..Len(toWorker') : i < j => ~Compiles(toWorker'[j])
      BY <2>2
    <2> QED BY <2>3 DEF NewestIsText, Compiles
  <1>4. SourcesAreTexts'
    <2>1. \A i \in 1..Len(toWorker') : i \in 1..Len(toWorker) \/ i = Len(toWorker) + 1
      BY <1>1
    <2> QED BY <1>1, <2>1 DEF SourcesAreTexts, Compiles
  <1>5. StillToCompile'
    BY <1>1, <1>2 DEF StillToCompile, Compiles
  <1> QED BY <1>1, <1>3, <1>4, <1>5

(* The worker asks itself to move the playhead: neither the text nor what  *)
(* the page says of it is concerned.                                       *)
LEMMA AsksForMove ==
  ASSUME TextTypeOK, SourcesAreTexts, NewestIsText, NEW m \in Messages, ~Compiles(m),
         toWorker' = Append(toWorker, m), UNCHANGED <<text, latestSource, compileTimeout>>
  PROVE  /\ toWorker' \in Seq(Messages) /\ NewestIsText' /\ SourcesAreTexts'
         /\ StillToCompile' <=> StillToCompile
  <1>1. /\ toWorker' \in Seq(Messages) /\ Len(toWorker') = Len(toWorker) + 1 /\ Len(toWorker) \in Nat
        /\ \A i \in 1..Len(toWorker) : toWorker'[i] = toWorker[i]
        /\ toWorker'[Len(toWorker) + 1] = m
    BY Sent DEF TextTypeOK
  <1>2. /\ \A i \in 1..Len(toWorker') : i \in 1..Len(toWorker) \/ i = Len(toWorker) + 1
        /\ \A i \in 1..Len(toWorker) : i \in 1..Len(toWorker')
    BY <1>1
  <1>3. /\ \A i \in 1..Len(toWorker') : Compiles(toWorker'[i]) => i \in 1..Len(toWorker)
        /\ \A i \in 1..Len(toWorker) : Compiles(toWorker'[i]) <=> Compiles(toWorker[i])
    BY <1>1, <1>2
  <1>4. NewestIsText'
    <2>1. CASE \A i \in 1..Len(toWorker) : ~Compiles(toWorker[i])
      <3>1. latestSource = text
        BY <2>1 DEF NewestIsText
      <3>2. \A i \in 1..Len(toWorker') : ~Compiles(toWorker'[i])
        BY <1>3, <2>1
      <3> QED BY <3>1, <3>2 DEF NewestIsText, Compiles
    <2>2. CASE ~(\A i \in 1..Len(toWorker) : ~Compiles(toWorker[i]))
      <3>1. PICK i \in 1..Len(toWorker) :
               /\ Compiles(toWorker[i]) /\ toWorker[i].source = text
               /\ \A j \in 1..Len(toWorker) : i < j => ~Compiles(toWorker[j])
        BY <2>2 DEF NewestIsText
      <3>2. /\ i \in 1..Len(toWorker') /\ Compiles(toWorker'[i]) /\ toWorker'[i].source = text'
            /\ \A j \in 1..Len(toWorker') : i < j => ~Compiles(toWorker'[j])
        BY <1>1, <1>2, <1>3, <3>1
      <3>3. \E k \in 1..Len(toWorker') :
               /\ Compiles(toWorker'[k]) /\ toWorker'[k].source = text'
               /\ \A j \in 1..Len(toWorker') : k < j => ~Compiles(toWorker'[j])
        BY <3>2
      <3> QED BY <3>3 DEF NewestIsText, Compiles
    <2> QED BY <2>1, <2>2
  <1>5. SourcesAreTexts'
    BY <1>1, <1>2, <1>3 DEF SourcesAreTexts, Compiles
  <1>6. StillToCompile' <=> StillToCompile
    BY <1>1, <1>2, <1>3 DEF StillToCompile, Compiles
  <1> QED BY <1>1, <1>4, <1>5, <1>6

(* The worker takes a message: if it asks for a compilation, its text is   *)
(* the newest the worker knows.                                            *)
LEMMA Serves ==
  ASSUME TextTypeOK, SourcesAreTexts, NewestIsText, toWorker # << >>,
         toWorker' = Tail(toWorker), UNCHANGED text,
         latestSource' = IF Compiles(Head(toWorker)) THEN Head(toWorker).source ELSE latestSource
  PROVE  /\ toWorker' \in Seq(Messages) /\ NewestIsText'
         /\ Head(toWorker) \in Messages
         /\ Compiles(Head(toWorker)) => Head(toWorker).source \in Texts
         /\ \A i \in 1..Len(toWorker') : Compiles(toWorker'[i]) => toWorker'[i].source \in Texts
         /\ ~Compiles(Head(toWorker)) /\ UNCHANGED compileTimeout =>
              (StillToCompile' <=> StillToCompile) /\ SourcesAreTexts'
  <1>1. /\ toWorker' \in Seq(Messages) /\ Len(toWorker') = Len(toWorker) - 1
        /\ Len(toWorker) \in Nat \ {0} /\ Head(toWorker) = toWorker[1] /\ toWorker[1] \in Messages
        /\ \A i \in 1..Len(toWorker) - 1 : toWorker'[i] = toWorker[i + 1]
    BY Received DEF TextTypeOK
  <1>2. \A i \in 1..Len(toWorker') : i + 1 \in 1..Len(toWorker) /\ toWorker'[i] = toWorker[i + 1]
    BY <1>1
  <1>3. \A i \in 1..Len(toWorker) : i = 1 \/ (i - 1 \in 1..Len(toWorker') /\ toWorker'[i - 1] = toWorker[i])
    BY <1>1
  <1>4. NewestIsText'
    <2>1. CASE \A i \in 1..Len(toWorker) : ~Compiles(toWorker[i])
      <3>1. latestSource = text /\ 1 \in 1..Len(toWorker)
        BY <1>1, <2>1 DEF NewestIsText
      <3>2. latestSource' = text'
        BY <1>1, <2>1, <3>1
      <3>3. \A i \in 1..Len(toWorker') : ~Compiles(toWorker'[i])
        BY <1>2, <2>1
      <3> QED BY <3>2, <3>3 DEF NewestIsText, Compiles
    <2>2. CASE ~(\A i \in 1..Len(toWorker) : ~Compiles(toWorker[i]))
      <3>1. PICK i \in 1..Len(toWorker) :
               /\ Compiles(toWorker[i]) /\ toWorker[i].source = text
               /\ \A j \in 1..Len(toWorker) : i < j => ~Compiles(toWorker[j])
        BY <2>2 DEF NewestIsText
      <3>2. CASE i = 1
        <4>1. latestSource' = text'
          BY <1>1, <3>1, <3>2
        <4>2. \A k \in 1..Len(toWorker') : 1 < k + 1
          BY <1>1
        <4>3. \A k \in 1..Len(toWorker') : ~Compiles(toWorker'[k])
          BY <1>2, <3>1, <3>2, <4>2
        <4> QED BY <4>1, <4>3 DEF NewestIsText, Compiles
      <3>3. CASE i # 1
        <4>1. i - 1 \in 1..Len(toWorker') /\ toWorker'[i - 1] = toWorker[i]
          BY <1>3, <3>3
        <4>2. \A j \in 1..Len(toWorker') : i - 1 < j => i < j + 1
          BY <1>1
        <4>3. \E k \in 1..Len(toWorker') :
                 /\ Compiles(toWorker'[k]) /\ toWorker'[k].source = text'
                 /\ \A j \in 1..Len(toWorker') : k < j => ~Compiles(toWorker'[j])
          BY <1>2, <3>1, <4>1, <4>2
        <4> QED BY <4>3 DEF NewestIsText, Compiles
      <3> QED BY <3>2, <3>3
    <2> QED BY <2>1, <2>2
  <1>5. /\ Compiles(Head(toWorker)) => Head(toWorker).source \in Texts
        /\ \A i \in 1..Len(toWorker') : Compiles(toWorker'[i]) => toWorker'[i].source \in Texts
    <2>1. 1 \in 1..Len(toWorker)
      BY <1>1
    <2> QED BY <1>1, <1>2, <2>1 DEF SourcesAreTexts
  <1>6. ASSUME ~Compiles(Head(toWorker)), UNCHANGED compileTimeout
        PROVE  (StillToCompile' <=> StillToCompile) /\ SourcesAreTexts'
    <2>1. (\E i \in 1..Len(toWorker') : Compiles(toWorker'[i]))
            <=> (\E i \in 1..Len(toWorker) : Compiles(toWorker[i]))
      BY <1>1, <1>2, <1>3, <1>6
    <2>2. latestSource' = latestSource
      BY <1>6
    <2> QED BY <1>5, <1>6, <2>1, <2>2 DEF StillToCompile, SourcesAreTexts, Compiles
  <1> QED BY <1>1, <1>4, <1>5, <1>6

(* A compilation: the executable and the answer are of the newest text if  *)
(* nothing is left to compile after it.                                    *)
LEMMA Compiled ==
  ASSUME PageInv, NEW s \in Texts, TriggerCompile(s), UNCHANGED <<text, compileStatus>>,
         ~StillToCompile' => s = text, StillToCompile
  PROVE  toPage' \in Seq(Answers) /\ AnswersAreTrue' /\ LastAnswerIsOfTheText' /\ StatusIsTrue'
  <1> DEFINE a == [source |-> s, status |-> IF s \notin BrokenTexts THEN "success" ELSE "error"]
  <1>1. /\ a \in Answers /\ toPage' = Append(toPage, a)
        /\ latestExecutable' = IF s \notin BrokenTexts THEN s ELSE latestExecutable
    BY DEF TriggerCompile, Answers
  <1>2. a.source = s /\ (a.status = "error" <=> s \in BrokenTexts)
    OBVIOUS
  <1> HIDE DEF a
  <1>3. /\ toPage' \in Seq(Answers) /\ Len(toPage') = Len(toPage) + 1 /\ Len(toPage) \in Nat
        /\ \A i \in 1..Len(toPage) : toPage'[i] = toPage[i]
        /\ toPage'[Len(toPage) + 1] = a
    BY <1>1, Sent DEF PageInv, TextTypeOK
  <1>4. toPage' # << >>
    BY <1>3, EmptySeq
  <1>5. AnswersAreTrue'
    <2>1. \A i \in 1..Len(toPage') : i \in 1..Len(toPage) \/ i = Len(toPage) + 1
      BY <1>3
    <2> QED BY <1>2, <1>3, <2>1 DEF PageInv, AnswersAreTrue
  <1>6. LastAnswerIsOfTheText'
    BY <1>1, <1>2, <1>3, <1>4 DEF LastAnswerIsOfTheText
  <1>7. StatusIsTrue'
    BY <1>1 DEF PageInv, StatusIsTrue
  <1> QED BY <1>3, <1>5, <1>6, <1>7

(* Other steps change neither texts nor messages. *)
LEMMA PageElsewhere ==
  ASSUME PageInv, UNCHANGED <<text, compileStatus, toWorker, toPage, compileVars>>
  PROVE  PageInv'
  <1>1. UNCHANGED <<latestSource, latestExecutable, compileTimeout>>
    BY DEF compileVars
  <1>2. StillToCompile' <=> StillToCompile
    BY <1>1 DEF StillToCompile
  <1>3. /\ TextTypeOK' /\ NewestIsText' /\ SourcesAreTexts' /\ AnswersAreTrue'
    BY <1>1 DEF PageInv, TextTypeOK, NewestIsText, SourcesAreTexts, AnswersAreTrue
  <1>4. LastAnswerIsOfTheText' /\ StatusIsTrue'
    BY <1>1, <1>2 DEF PageInv, LastAnswerIsOfTheText, StatusIsTrue
  <1> QED BY <1>3, <1>4 DEF PageInv

(* Every step of editor, page and worker keeps what is said of the text.   *)
LEMMA PageInvKept ==
  ASSUME PageInv, [PageNext]_pageVars
  PROVE  PageInv'
  <1>0. /\ TextTypeOK /\ NewestIsText /\ SourcesAreTexts /\ AnswersAreTrue
        /\ LastAnswerIsOfTheText /\ StatusIsTrue
        /\ text \in Texts /\ toWorker \in Seq(Messages) /\ toPage \in Seq(Answers)
        /\ compileStatus \in {"pending", "success", "error"} /\ compileTimeout \in BOOLEAN
    BY DEF PageInv, TextTypeOK
  <1>1. ASSUME NEW t \in Texts, TypeText(t) PROVE PageInv'
    <2> DEFINE m == [type |-> "compile", source |-> t, position |-> 0]
    <2>1. /\ text' = t /\ compileStatus' = "pending" /\ toWorker' = Append(toWorker, m)
          /\ UNCHANGED <<toPage, latestSource, latestExecutable, compileTimeout>>
      BY <1>1 DEF TypeText, compileVars
    <2>2. m \in Messages /\ Compiles(m) /\ m.source = t
      BY PageAssumption DEF Messages, Compiles, Files
    <2> HIDE DEF m
    <2>3. toWorker' \in Seq(Messages) /\ NewestIsText' /\ SourcesAreTexts' /\ StillToCompile'
      BY <1>0, <2>1, <2>2, AsksForText
    <2>4. TextTypeOK' /\ AnswersAreTrue' /\ LastAnswerIsOfTheText' /\ StatusIsTrue'
      BY <1>0, <2>1, <2>3 DEF TextTypeOK, AnswersAreTrue, LastAnswerIsOfTheText, StatusIsTrue
    <2> QED BY <2>3, <2>4 DEF PageInv
  <1>2. ASSUME NEW w \in Files, MovePlayhead(w) PROVE PageInv'
    <2> DEFINE m == [type |-> "playhead", source |-> NoText, position |-> w]
    <2>1. /\ UNCHANGED <<text, compileStatus>> /\ toWorker' = Append(toWorker, m)
          /\ UNCHANGED <<toPage, latestSource, latestExecutable, compileTimeout>>
      BY <1>2 DEF MovePlayhead, compileVars
    <2>2. m \in Messages /\ ~Compiles(m)
      BY DEF Messages, Compiles
    <2> HIDE DEF m
    <2>3. /\ toWorker' \in Seq(Messages) /\ NewestIsText' /\ SourcesAreTexts'
          /\ StillToCompile' <=> StillToCompile
      BY <1>0, <2>1, <2>2, AsksForMove
    <2>4. TextTypeOK' /\ AnswersAreTrue' /\ LastAnswerIsOfTheText' /\ StatusIsTrue'
      BY <1>0, <2>1, <2>3 DEF TextTypeOK, AnswersAreTrue, LastAnswerIsOfTheText, StatusIsTrue
    <2> QED BY <2>3, <2>4 DEF PageInv
  <1>3. CASE ReceiveAnswer
    <2>1. /\ toPage # << >> /\ toPage' = Tail(toPage)
          /\ compileStatus' = IF Head(toPage).source = text THEN Head(toPage).status ELSE compileStatus
          /\ UNCHANGED <<text, toWorker, latestSource, latestExecutable, compileTimeout>>
      BY <1>3 DEF ReceiveAnswer, Concerns, compileVars
    <2>2. /\ toPage' \in Seq(Answers) /\ Len(toPage') = Len(toPage) - 1
          /\ Len(toPage) \in Nat \ {0} /\ Head(toPage) = toPage[1] /\ toPage[1] \in Answers
          /\ \A i \in 1..Len(toPage) - 1 : toPage'[i] = toPage[i + 1]
      BY <1>0, <2>1, Received
    <2>3. /\ 1 \in 1..Len(toPage)
          /\ \A i \in 1..Len(toPage') : i + 1 \in 1..Len(toPage) /\ toPage'[i] = toPage[i + 1]
      BY <2>2
    <2>4. /\ Head(toPage).status \in {"success", "error"}
          /\ Head(toPage).status = "error" <=> Head(toPage).source \in BrokenTexts
      BY <1>0, <2>2, <2>3 DEF Answers, AnswersAreTrue
    <2>5. StillToCompile' <=> StillToCompile
      BY <2>1 DEF StillToCompile
    <2>6. NewestIsText' /\ SourcesAreTexts'
      BY <1>0, <2>1 DEF NewestIsText, SourcesAreTexts
    <2>7. TextTypeOK'
      BY <1>0, <2>1, <2>2, <2>4 DEF TextTypeOK
    <2>8. AnswersAreTrue'
      BY <1>0, <2>1, <2>3 DEF AnswersAreTrue
    <2>9. ASSUME ~StillToCompile
          PROVE  /\ text \notin BrokenTexts => latestExecutable = text
                 /\ toPage[Len(toPage)].source = text
                 /\ toPage' = << >> => compileStatus' # "pending"
                 /\ toPage' # << >> => toPage'[Len(toPage')].source = text
      <3>1. /\ text \notin BrokenTexts => latestExecutable = text
            /\ toPage[Len(toPage)].source = text
        BY <1>0, <2>1, <2>9 DEF LastAnswerIsOfTheText
      <3>2. CASE toPage' = << >>
        <4>1. Len(toPage) = 1
          BY <2>2, <3>2, EmptySeq
        <4>2. Head(toPage).source = text
          BY <2>2, <3>1, <4>1
        <4> QED BY <2>1, <2>4, <3>1, <3>2, <4>2
      <3>3. CASE toPage' # << >>
        <4>1. Len(toPage') \in 1..Len(toPage')
          BY <2>2, <3>3, EmptySeq
        <4>2. toPage'[Len(toPage')] = toPage[Len(toPage)]
          BY <2>2, <2>3, <4>1
        <4> QED BY <3>1, <3>3, <4>2
      <3> QED BY <3>2, <3>3
    <2>10. LastAnswerIsOfTheText'
      BY <2>1, <2>5, <2>9 DEF LastAnswerIsOfTheText
    <2>11. StatusIsTrue'
      <3>1. CASE Head(toPage).source = text
        BY <2>1, <2>4, <2>5, <2>9, <3>1 DEF StatusIsTrue
      <3>2. CASE Head(toPage).source # text
        BY <1>0, <2>1, <2>5, <3>2 DEF StatusIsTrue
      <3> QED BY <3>1, <3>2
    <2> QED BY <2>6, <2>7, <2>8, <2>10, <2>11 DEF PageInv
  <1>4. CASE ServeInit
    <2>1. /\ toWorker # << >> /\ Head(toWorker).type = "init" /\ toWorker' = Tail(toWorker)
          /\ latestSource' = Head(toWorker).source /\ TriggerCompile(Head(toWorker).source)
          /\ UNCHANGED <<text, compileStatus, compileTimeout>>
      BY <1>4 DEF ServeInit, Receives, editorVars, TriggerCompile
    <2>2. Compiles(Head(toWorker))
      BY <2>1 DEF Compiles
    <2>3. /\ toWorker' \in Seq(Messages) /\ NewestIsText' /\ Head(toWorker).source \in Texts
          /\ \A i \in 1..Len(toWorker') : Compiles(toWorker'[i]) => toWorker'[i].source \in Texts
      BY <1>0, <2>1, <2>2, Serves
    <2>4. StillToCompile
      <3>1. Len(toWorker) \in Nat \ {0} /\ Head(toWorker) = toWorker[1]
        BY <1>0, <2>1, Received
      <3>2. 1 \in 1..Len(toWorker)
        BY <3>1
      <3> QED BY <2>1, <3>1, <3>2 DEF StillToCompile
    <2>5. ~StillToCompile' => Head(toWorker).source = text
      BY <2>1, <2>3 DEF StillToCompile, NewestIsText, Compiles
    <2>6. toPage' \in Seq(Answers) /\ AnswersAreTrue' /\ LastAnswerIsOfTheText' /\ StatusIsTrue'
      BY <2>1, <2>3, <2>4, <2>5, Compiled
    <2>7. SourcesAreTexts' /\ TextTypeOK'
      BY <1>0, <2>1, <2>3, <2>6 DEF SourcesAreTexts, TextTypeOK, Compiles
    <2> QED BY <2>3, <2>6, <2>7 DEF PageInv
  <1>5. CASE ServeCompile
    <2>1. /\ toWorker # << >> /\ Head(toWorker).type = "compile" /\ toWorker' = Tail(toWorker)
          /\ latestSource' = Head(toWorker).source /\ compileTimeout' = TRUE
          /\ UNCHANGED <<text, compileStatus, toPage, latestExecutable>>
      BY <1>5 DEF ServeCompile, Receives, editorVars
    <2>2. Compiles(Head(toWorker))
      BY <2>1 DEF Compiles
    <2>3. /\ toWorker' \in Seq(Messages) /\ NewestIsText' /\ Head(toWorker).source \in Texts
          /\ \A i \in 1..Len(toWorker') : Compiles(toWorker'[i]) => toWorker'[i].source \in Texts
      BY <1>0, <2>1, <2>2, Serves
    <2>4. StillToCompile' /\ compileTimeout' \in BOOLEAN
      BY <2>1, Zenon DEF StillToCompile
    <2>5. AnswersAreTrue' /\ LastAnswerIsOfTheText' /\ StatusIsTrue'
      BY <1>0, <2>1, <2>4 DEF AnswersAreTrue, LastAnswerIsOfTheText, StatusIsTrue
    <2>6. SourcesAreTexts' /\ TextTypeOK'
      BY <1>0, <2>1, <2>3, <2>4 DEF SourcesAreTexts, TextTypeOK, Compiles
    <2> QED BY <2>3, <2>5, <2>6 DEF PageInv
  <1>6. CASE CompileTimer
    <2>1. /\ compileTimeout /\ compileTimeout' = FALSE /\ TriggerCompile(latestSource)
          /\ UNCHANGED <<text, compileStatus, toWorker, latestSource>>
      BY <1>6 DEF CompileTimer, editorVars
    <2>2. latestSource \in Texts /\ StillToCompile
      BY <1>0, <2>1 DEF SourcesAreTexts, StillToCompile
    <2>3. NewestIsText' /\ compileTimeout' \in BOOLEAN /\ ~compileTimeout'
      BY <1>0, <2>1, Zenon DEF NewestIsText, Compiles
    <2>4. ~StillToCompile' => latestSource = text
      BY <1>0, <2>1, <2>3 DEF StillToCompile, NewestIsText, Compiles
    <2>5. toPage' \in Seq(Answers) /\ AnswersAreTrue' /\ LastAnswerIsOfTheText' /\ StatusIsTrue'
      BY <2>1, <2>2, <2>4, Compiled
    <2>6. SourcesAreTexts' /\ TextTypeOK'
      BY <1>0, <2>1, <2>3, <2>5 DEF SourcesAreTexts, TextTypeOK, Compiles
    <2> QED BY <2>3, <2>5, <2>6 DEF PageInv
  <1>7. CASE ServePlayhead
    <2>1. /\ toWorker # << >> /\ Head(toWorker).type = "playhead" /\ toWorker' = Tail(toWorker)
          /\ UNCHANGED <<text, compileStatus, toPage, latestSource, latestExecutable, compileTimeout>>
      BY <1>7 DEF ServePlayhead, Receives, editorVars, compileVars
    <2>2. ~Compiles(Head(toWorker))
      BY <2>1 DEF Compiles
    <2>3. /\ toWorker' \in Seq(Messages) /\ NewestIsText' /\ SourcesAreTexts'
          /\ StillToCompile' <=> StillToCompile
      BY <1>0, <2>1, <2>2, Serves
    <2>4. TextTypeOK' /\ AnswersAreTrue' /\ LastAnswerIsOfTheText' /\ StatusIsTrue'
      BY <1>0, <2>1, <2>3 DEF TextTypeOK, AnswersAreTrue, LastAnswerIsOfTheText, StatusIsTrue
    <2> QED BY <2>3, <2>4 DEF PageInv
  <1>8. CASE UNCHANGED <<text, compileStatus, toWorker, toPage, compileVars>>
    BY <1>8, PageElsewhere
  <1>9. ASSUME NEW n \in DOMAIN fetches, FetchEnds(n) PROVE PageInv'
    BY <1>8, <1>9 DEF FetchEnds, editorVars
  <1>10. ASSUME NEW c \in Chains, ChainStep(c) PROVE PageInv'
    BY <1>8, <1>10 DEF ChainStep, SetTimer, TimerFires, RunEvent, EventEnds, unchained, editorVars
  <1>11. CASE NextWindow \/ UNCHANGED pageVars
    BY <1>8, <1>11 DEF NextWindow, pageVars, editorVars
  <1> QED BY <1>1, <1>2, <1>3, <1>4, <1>5, <1>6, <1>7, <1>9, <1>10, <1>11 DEF PageNext, WorkerStep

(* It holds when the page is opened, with the sample in the editor.        *)
LEMMA PageInvInit == PageInit => PageInv
  <1> SUFFICES ASSUME PageInit PROVE PageInv
    OBVIOUS
  <1> DEFINE m == [type |-> "init", source |-> Sample, position |-> FirstWindow]
  <1>1. /\ text = Sample /\ compileStatus = "pending" /\ toWorker = <<m>> /\ toPage = << >>
        /\ compileTimeout \in BOOLEAN /\ ~compileTimeout
    BY Zenon DEF PageInit
  <1>2. m \in Messages /\ Compiles(m) /\ m.source = Sample /\ Sample \in Texts
    BY PageAssumption DEF Messages, Compiles
  <1> HIDE DEF m
  <1>3. /\ toWorker \in Seq(Messages) /\ Len(toWorker) = 1 /\ toWorker[1] = m
        /\ toPage \in Seq(Answers) /\ Len(toPage) = 0
    BY <1>1, <1>2
  <1>4. \A i \in 1..Len(toWorker) : i = 1
    BY <1>3
  <1>5. TextTypeOK
    BY <1>1, <1>2, <1>3 DEF TextTypeOK
  <1>6. NewestIsText
    <2>1. 1 \in 1..Len(toWorker)
      BY <1>3
    <2> QED BY <1>1, <1>2, <1>3, <1>4, <2>1 DEF NewestIsText
  <1>7. SourcesAreTexts /\ AnswersAreTrue /\ StatusIsTrue
    BY <1>1, <1>2, <1>3, <1>4 DEF SourcesAreTexts, AnswersAreTrue, StatusIsTrue
  <1>8. StillToCompile
    <2>1. 1 \in 1..Len(toWorker)
      BY <1>3
    <2> QED BY <1>2, <1>3, <2>1 DEF StillToCompile, Compiles
  <1> QED BY <1>5, <1>6, <1>7, <1>8 DEF PageInv, LastAnswerIsOfTheText

(* Whatever is typed, and however compilations and answers overlap, what   *)
(* the page says of the text is true, and once nothing is under way editor *)
(* and worker have both come to the last text.                             *)
THEOREM StatusIsRight == PageSpec => []StatusIsOfTheText
  <1>1. PageInv => StatusIsOfTheText
    <2> SUFFICES ASSUME PageInv PROVE StatusIsOfTheText
      OBVIOUS
    <2> QED BY DEF PageInv, StatusIsTrue, LastAnswerIsOfTheText, StatusIsOfTheText
  <1>2. PageInv /\ [PageNext]_pageVars => PageInv'
    BY PageInvKept
  <1> QED BY <1>1, <1>2, PageInvInit, PTL DEF PageSpec

-----------------------------------------------------------------------------
(* Files one after the other: FlattenSeq() is a recursive function.        *)

FlatTo(s, n, g) == g = [i \in 1..n |-> IF i = 1 THEN s[i] ELSE g[i - 1] \o s[i]]

(* Every set of natural numbers that is not empty has a least one.         *)
LEMMA LeastOne ==
  ASSUME NEW T, T \subseteq Nat, T # {}
  PROVE  \E m \in T : \A k \in T : m <= k
  <1>1. IsWellFoundedOn(OpToRel(<, Nat), Nat)
    BY NatLessThanWellFounded
  <1>2. PICK m \in T : \A k \in T : <<k, m>> \notin OpToRel(<, Nat)
    BY <1>1, WFMin
  <1>3. OpToRel(<, Nat) = {p \in Nat \X Nat : p[1] < p[2]}
    BY Zenon DEF OpToRel
  <1>4. \A k, n \in Nat : k < n => <<k, n>> \in OpToRel(<, Nat)
    BY <1>3
  <1>5. \A k \in T : ~(k < m)
    BY <1>2, <1>4, Zenon
  <1> QED BY <1>5

(* Sequences that agree so far are flattened to the same so far. *)
LEMMA FlatAgree ==
  ASSUME NEW s, NEW t, NEW n \in Nat, NEW m \in Nat, n <= m,
         NEW g, NEW h, FlatTo(s, n, g), FlatTo(t, m, h), \A i \in 1..n : s[i] = t[i]
  PROVE  \A i \in 1..n : g[i] = h[i]
  <1> DEFINE Bad == {i \in 1..n : g[i] # h[i]}
  <1> SUFFICES ASSUME Bad # {} PROVE FALSE
    OBVIOUS
  <1>1. PICK i \in Bad : \A j \in Bad : i <= j
    <2>1. Bad \subseteq Nat
      OBVIOUS
    <2> HIDE DEF Bad
    <2> QED BY <2>1, LeastOne
  <1>2. i \in 1..n /\ i \in 1..m /\ g[i] # h[i]
    BY <1>1
  <1>3. /\ g[i] = IF i = 1 THEN s[i] ELSE g[i - 1] \o s[i]
        /\ h[i] = IF i = 1 THEN t[i] ELSE h[i - 1] \o t[i]
    BY <1>2 DEF FlatTo
  <1>4. i # 1 => i - 1 \in 1..n /\ i - 1 \notin Bad
    BY <1>1, <1>2
  <1>5. i # 1 => g[i - 1] = h[i - 1]
    BY <1>4
  <1> QED BY <1>2, <1>3, <1>5

(* The recursion has a solution. *)
LEMMA FlatExists ==
  ASSUME NEW s, NEW n \in Nat
  PROVE  \E g : FlatTo(s, n, g)
  <1> DEFINE Bad == {k \in Nat : ~\E g : FlatTo(s, k, g)}
  <1> SUFFICES ASSUME Bad # {} PROVE FALSE
    OBVIOUS
  <1>1. PICK k \in Bad : \A j \in Bad : k <= j
    <2>1. Bad \subseteq Nat
      OBVIOUS
    <2> HIDE DEF Bad
    <2> QED BY <2>1, LeastOne
  <1>2. k \in Nat /\ ~\E g : FlatTo(s, k, g)
    BY <1>1
  <1>3. CASE k = 0
    <2>1. FlatTo(s, 0, [i \in 1..0 |-> 0])
      BY DEF FlatTo
    <2> QED BY <1>2, <1>3, <2>1
  <1>4. CASE k # 0
    <2>1. k - 1 \in Nat /\ k - 1 \notin Bad
      BY <1>1, <1>2, <1>4
    <2>2. PICK g : FlatTo(s, k - 1, g)
      BY <2>1
    <2> DEFINE h == [i \in 1..k |-> IF i < k THEN g[i] ELSE IF i = 1 THEN s[i] ELSE g[i - 1] \o s[i]]
    <2>3. \A i \in 1..k : i - 1 < k /\ (i # 1 => i - 1 \in 1..k) /\ (i < k => i \in 1..(k - 1))
      BY <1>2
    <2>4. \A i \in 1..k : h[i] = IF i = 1 THEN s[i] ELSE h[i - 1] \o s[i]
      <3> SUFFICES ASSUME NEW i \in 1..k PROVE h[i] = IF i = 1 THEN s[i] ELSE h[i - 1] \o s[i]
        OBVIOUS
      <3>1. i # 1 => h[i - 1] = g[i - 1]
        BY <2>3
      <3>2. i < k => g[i] = IF i = 1 THEN s[i] ELSE g[i - 1] \o s[i]
        BY <2>2, <2>3 DEF FlatTo
      <3> QED BY <3>1, <3>2
    <2>5. h = [i \in 1..k |-> h[i]]
      OBVIOUS
    <2> HIDE DEF h
    <2>6. FlatTo(s, k, h)
      BY <2>4, <2>5 DEF FlatTo
    <2> QED BY <1>2, <2>6
  <1> QED BY <1>3, <1>4

(* What FlattenSeq() gives. *)
LEMMA FlattenIs ==
  ASSUME NEW S, NEW s \in Seq(S)
  PROVE  /\ Len(s) = 0 => Sequence!FlattenSeq(s) = s
         /\ Len(s) # 0 => \E g : FlatTo(s, Len(s), g) /\ Sequence!FlattenSeq(s) = g[Len(s)]
  <1>1. Len(s) = 0 => Sequence!FlattenSeq(s) = s
    BY DEF Sequence!FlattenSeq
  <1>2. ASSUME Len(s) # 0 PROVE Sequence!FlattenSeq(s) = (CHOOSE g : FlatTo(s, Len(s), g))[Len(s)]
    BY <1>2 DEF Sequence!FlattenSeq, FlatTo
  <1>3. \E g : FlatTo(s, Len(s), g)
    BY FlatExists
  <1> QED BY <1>1, <1>2, <1>3

(* One step of the recursion that joins sequences.                         *)
LEMMA FlatStep ==
  ASSUME NEW s, NEW n \in Nat, NEW g, FlatTo(s, n, g), NEW i \in 1..n
  PROVE  g[i] = IF i = 1 THEN s[i] ELSE g[i - 1] \o s[i]
  BY DEF FlatTo

(* Joining one more sequence appends it to what the others gave.           *)
LEMMA FlattenLonger ==
  ASSUME NEW S, NEW s, NEW r, NEW t, NEW n \in Nat, NEW m \in Nat
  PROVE  s \in Seq(Seq(S)) /\ r \in Seq(S) /\ t = Append(s, r) /\ n = Len(s) /\ m = n + 1
           => Sequence!FlattenSeq(t) = Sequence!FlattenSeq(s) \o r
  <1>0. ASSUME s \in Seq(Seq(S)), r \in Seq(S), t = Append(s, r), n = Len(s), m = n + 1
        PROVE  Sequence!FlattenSeq(t) = Sequence!FlattenSeq(s) \o r
    <2>1. /\ t \in Seq(Seq(S)) /\ Len(t) = m /\ t[m] = r
          /\ \A i \in 1..n : s[i] = t[i]
      BY <1>0, AppendProperties
    <2>2. m \in 1..m /\ m # 0 /\ n <= m /\ m - 1 = n /\ (m = 1 <=> n = 0)
      BY <1>0
    <2>3. PICK h : FlatTo(t, m, h) /\ Sequence!FlattenSeq(t) = h[m]
      BY <2>1, <2>2, FlattenIs
    <2>4. h[m] = IF m = 1 THEN t[m] ELSE h[m - 1] \o t[m]
      BY <2>2, <2>3, FlatStep
    <2>5. CASE n = 0
      <3>1. s = << >> /\ Sequence!FlattenSeq(s) = s
        BY <1>0, <2>5, EmptySeq, FlattenIs
      <3>2. Sequence!FlattenSeq(t) = r
        BY <2>1, <2>2, <2>3, <2>4, <2>5
      <3> QED BY <1>0, <3>1, <3>2, ConcatEmptySeq
    <2>6. CASE n # 0
      <3>1. PICK g : FlatTo(s, n, g) /\ Sequence!FlattenSeq(s) = g[n]
        BY <1>0, <2>6, FlattenIs
      <3>2. n <= m /\ \A i \in 1..n : s[i] = t[i]
        BY <2>1, <2>2
      <3>3. \A i \in 1..n : g[i] = h[i]
        BY <2>3, <3>1, <3>2, FlatAgree
      <3>4. n \in 1..n
        BY <2>6
      <3> QED BY <2>1, <2>2, <2>3, <2>4, <2>6, <3>1, <3>3, <3>4
    <2> QED BY <2>5, <2>6
  <1> QED BY <1>0

(* One more file comes after the others. *)
LEMMA FlattenAppend ==
  ASSUME NEW S, NEW s \in Seq(Seq(S)), NEW r \in Seq(S)
  PROVE  Sequence!FlattenSeq(Append(s, r)) = Sequence!FlattenSeq(s) \o r
  <1>1. Len(s) \in Nat /\ Len(s) + 1 \in Nat
    OBVIOUS
  <1> QED BY ZenonT(60), <1>1, FlattenLonger

-----------------------------------------------------------------------------
(* The events from window f up to event i of window w. *)

Row(w) == [j \in 1..EventsIn[w] |-> <<w, j>>]
Rows(f, w) == [k \in 1..(w - f) |-> Row(f + k - 1)]
AllOf(f, w) == Sequence!FlattenSeq(Rows(f, w))
Upto(f, w, i) == AllOf(f, w) \o SubSeq(Row(w), 1, i)

Places == Nat \X Nat
Begins(s, t) == Len(s) <= Len(t) /\ \A i \in 1..Len(s) : s[i] = t[i]

(* A file is a sequence of its events. *)
LEMMA RowType ==
  ASSUME NEW w \in Files
  PROVE  /\ Row(w) \in Seq(Places) /\ Len(Row(w)) = EventsIn[w] /\ EventsIn[w] \in Nat \ {0}
         /\ \A j \in 1..EventsIn[w] : Row(w)[j] = <<w, j>>
  <1>1. EventsIn[w] \in Nat \ {0} /\ w \in Nat
    BY PageAssumption DEF Files
  <1>2. \A j \in 1..EventsIn[w] : <<w, j>> \in Places
    BY <1>1 DEF Places
  <1>3. Row(w) \in Seq(Places) /\ Len(Row(w)) = EventsIn[w]
    BY <1>1, <1>2, IsASeq DEF Row
  <1> QED BY <1>1, <1>3 DEF Row

(* The rows of a run of files are sequences of places, one for each file.  *)
LEMMA RowsType ==
  ASSUME NEW f \in Files, NEW w \in Nat, f <= w, w <= LastWindow + 1
  PROVE  Rows(f, w) \in Seq(Seq(Places)) /\ Len(Rows(f, w)) = w - f
  <1>1. f \in Nat /\ LastWindow \in Nat /\ w - f \in Nat
    BY PageAssumption DEF Files
  <1>2. \A k \in 1..(w - f) : f + k - 1 \in Files
    BY <1>1 DEF Files
  <1>3. \A k \in 1..(w - f) : Row(f + k - 1) \in Seq(Places)
    BY <1>2, RowType
  <1> QED BY <1>1, <1>3, IsASeq DEF Rows

(* One more file is one more row.                                          *)
LEMMA OneMoreRow ==
  ASSUME NEW f \in Files, NEW w \in Files, f <= w
  PROVE  Rows(f, w + 1) = Append(Rows(f, w), Row(w))
  <1>1. f \in Nat /\ w \in Nat /\ LastWindow \in Nat /\ w + 1 \in Nat /\ f <= w + 1 /\ w <= LastWindow + 1
        /\ w + 1 <= LastWindow + 1 /\ w - f \in Nat /\ w + 1 - f = (w - f) + 1
    BY PageAssumption DEF Files
  <1>2. /\ Rows(f, w) \in Seq(Seq(Places)) /\ Len(Rows(f, w)) = w - f
        /\ Rows(f, w + 1) \in Seq(Seq(Places)) /\ Len(Rows(f, w + 1)) = (w - f) + 1
    BY <1>1, RowsType
  <1>3. Row(w) \in Seq(Places)
    BY RowType
  <1>4. /\ Append(Rows(f, w), Row(w)) \in Seq(Seq(Places))
        /\ Len(Append(Rows(f, w), Row(w))) = (w - f) + 1
        /\ \A i \in 1..(w - f) : Append(Rows(f, w), Row(w))[i] = Rows(f, w)[i]
        /\ Append(Rows(f, w), Row(w))[(w - f) + 1] = Row(w)
    BY <1>2, <1>3, AppendProperties
  <1>5. ASSUME NEW i \in 1..((w - f) + 1)
        PROVE  Rows(f, w + 1)[i] = Append(Rows(f, w), Row(w))[i]
    <2>1. Rows(f, w + 1)[i] = Row(f + i - 1)
      BY <1>1 DEF Rows
    <2>2. CASE i = (w - f) + 1
      <3>1. f + i - 1 = w
        BY <1>1, <2>2
      <3> QED BY <1>4, <2>1, <2>2, <3>1
    <2>3. CASE i # (w - f) + 1
      <3>1. i \in 1..(w - f)
        BY <1>1, <2>3
      <3>2. Rows(f, w)[i] = Row(f + i - 1)
        BY <3>1 DEF Rows
      <3> QED BY <1>4, <2>1, <3>1, <3>2
    <2> QED BY <2>2, <2>3
  <1> QED BY <1>1, <1>2, <1>4, <1>5, SeqEqual

(* The events of a run of files are a sequence of places.                  *)
LEMMA AllOfType ==
  ASSUME NEW f \in Files, NEW w \in Nat, f <= w, w <= LastWindow + 1
  PROVE  AllOf(f, w) \in Seq(Places)
  <1> DEFINE Bad == {v \in Nat : f <= v /\ v <= LastWindow + 1 /\ AllOf(f, v) \notin Seq(Places)}
  <1> SUFFICES ASSUME Bad # {} PROVE FALSE
    OBVIOUS
  <1>1. PICK v \in Bad : \A u \in Bad : v <= u
    <2>1. Bad \subseteq Nat
      OBVIOUS
    <2> HIDE DEF Bad
    <2> QED BY <2>1, LeastOne
  <1>2. v \in Nat /\ f <= v /\ v <= LastWindow + 1 /\ AllOf(f, v) \notin Seq(Places)
    BY <1>1
  <1>3. f \in Nat /\ LastWindow \in Nat
    BY PageAssumption DEF Files
  <1>4. CASE v = f
    <2>1. Rows(f, f) \in Seq(Seq(Places)) /\ Len(Rows(f, f)) = f - f
      BY <1>2, <1>4, RowsType
    <2>2. Len(Rows(f, f)) = 0 /\ Rows(f, f) = << >>
      BY <1>3, <2>1, EmptySeq
    <2>3. AllOf(f, f) = << >>
      BY <2>1, <2>2, FlattenIs DEF AllOf
    <2> QED BY <1>2, <1>4, <2>3, EmptySeq
  <1>5. CASE v # f
    <2> DEFINE u == v - 1
    <2>1. u \in Nat /\ f <= u /\ u <= LastWindow + 1 /\ u \in Files /\ u + 1 = v /\ ~(v <= u)
      BY <1>2, <1>3, <1>5 DEF Files
    <2> HIDE DEF u
    <2>2. AllOf(f, u) \in Seq(Places)
      BY <1>1, <2>1
    <2>3. Rows(f, v) = Append(Rows(f, u), Row(u)) /\ Row(u) \in Seq(Places)
      BY <2>1, OneMoreRow, RowType
    <2>4. Rows(f, u) \in Seq(Seq(Places))
      BY <2>1, RowsType
    <2>5. AllOf(f, v) = AllOf(f, u) \o Row(u)
      BY <2>3, <2>4, FlattenAppend DEF AllOf
    <2> QED BY <1>2, <2>2, <2>3, <2>5, ConcatProperties
  <1> QED BY <1>4, <1>5

(* Files follow one another. *)
LEMMA AllOfStep ==
  ASSUME NEW f \in Files, NEW w \in Files, f <= w
  PROVE  AllOf(f, w + 1) = AllOf(f, w) \o Row(w)
  <1>1. w \in Nat /\ LastWindow \in Nat /\ w <= LastWindow + 1
    BY PageAssumption DEF Files
  <1>2. Rows(f, w) \in Seq(Seq(Places)) /\ Row(w) \in Seq(Places)
    BY <1>1, RowsType, RowType
  <1> QED BY <1>2, OneMoreRow, FlattenAppend DEF AllOf

(* No files have no events.                                                *)
LEMMA AllOfNone ==
  ASSUME NEW f \in Files
  PROVE  AllOf(f, f) = << >>
  <1>1. f \in Nat /\ LastWindow \in Nat /\ f <= LastWindow + 1 /\ f <= f /\ f - f = 0
    BY PageAssumption DEF Files
  <1>2. Rows(f, f) \in Seq(Seq(Places)) /\ Len(Rows(f, f)) = 0
    BY <1>1, RowsType
  <1>3. Rows(f, f) = << >>
    BY <1>2, EmptySeq
  <1> QED BY <1>2, <1>3, FlattenIs DEF AllOf

(* What has been played of some files is the beginning of all of them. *)
LEMMA AllOfBegins ==
  ASSUME NEW f \in Files, NEW w \in Nat, f <= w, w <= LastWindow + 1
  PROVE  Begins(AllOf(f, w), AllOf(f, LastWindow + 1))
  <1> DEFINE end == LastWindow + 1
             Bad == {k \in Nat : \E v \in Nat : /\ f <= v /\ v + k = end
                                                /\ ~Begins(AllOf(f, v), AllOf(f, end))}
  <1>0. f \in Nat /\ LastWindow \in Nat /\ end \in Nat
    BY PageAssumption DEF Files
  <1>1. CASE Bad = {}
    <2>1. end - w \in Nat /\ w + (end - w) = end
      BY <1>0
    <2> QED BY <1>1, <2>1
  <1>2. CASE Bad # {}
    <2>1. PICK k \in Bad : \A j \in Bad : k <= j
      <3>1. Bad \subseteq Nat
        OBVIOUS
      <3> HIDE DEF Bad
      <3> QED BY <1>2, <3>1, LeastOne
    <2>2. PICK v \in Nat : f <= v /\ v + k = end /\ ~Begins(AllOf(f, v), AllOf(f, end)) /\ k \in Nat
      BY <2>1
    <2>3. CASE k = 0
      <3>1. v = end
        BY <1>0, <2>2, <2>3
      <3>2. AllOf(f, end) \in Seq(Places)
        BY <1>0, <2>2, <3>1, AllOfType
      <3>3. Len(AllOf(f, end)) \in Nat
        BY <3>2
      <3> QED BY <2>2, <3>1, <3>3 DEF Begins
    <2>4. CASE k # 0
      <3>1. /\ k - 1 \in Nat /\ v + 1 \in Nat /\ f <= v + 1 /\ (v + 1) + (k - 1) = end
            /\ v \in Files /\ v <= end /\ v + 1 <= end /\ ~(k <= k - 1)
        BY <1>0, <2>2, <2>4 DEF Files
      <3>2. Begins(AllOf(f, v + 1), AllOf(f, end))
        BY <2>1, <3>1
      <3>3. /\ AllOf(f, v) \in Seq(Places) /\ Row(v) \in Seq(Places)
            /\ AllOf(f, v + 1) = AllOf(f, v) \o Row(v)
        BY <2>2, <3>1, AllOfType, AllOfStep, RowType
      <3>4. /\ Len(AllOf(f, v + 1)) = Len(AllOf(f, v)) + Len(Row(v))
            /\ Len(AllOf(f, v)) \in Nat /\ Len(Row(v)) \in Nat
            /\ \A i \in 1..Len(AllOf(f, v)) : AllOf(f, v + 1)[i] = AllOf(f, v)[i]
        BY <3>3, ConcatProperties
      <3>5. AllOf(f, end) \in Seq(Places)
        BY <1>0, <3>1, AllOfType
      <3>6. Len(AllOf(f, end)) \in Nat
        BY <3>5
      <3>7. /\ Len(AllOf(f, v)) <= Len(AllOf(f, end))
            /\ \A i \in 1..Len(AllOf(f, v)) : i \in 1..Len(AllOf(f, v + 1))
        BY <3>2, <3>4, <3>6 DEF Begins
      <3>8. \A i \in 1..Len(AllOf(f, v)) : AllOf(f, v)[i] = AllOf(f, end)[i]
        BY <3>2, <3>4, <3>7 DEF Begins
      <3> QED BY <2>2, <3>7, <3>8 DEF Begins
    <2> QED BY <2>3, <2>4
  <1> QED BY <1>1, <1>2

(* The part of a file up to an event. *)
LEMMA PartOfRow ==
  ASSUME NEW w \in Files, NEW i \in 0..EventsIn[w]
  PROVE  /\ SubSeq(Row(w), 1, i) \in Seq(Places) /\ Len(SubSeq(Row(w), 1, i)) = i
         /\ \A j \in 1..i : SubSeq(Row(w), 1, i)[j] = <<w, j>>
  <1>1. /\ Row(w) \in Seq(Places) /\ Len(Row(w)) = EventsIn[w] /\ EventsIn[w] \in Nat
        /\ \A j \in 1..EventsIn[w] : Row(w)[j] = <<w, j>>
    BY RowType
  <1>2. \A j \in 1..i : j \in 1..EventsIn[w] /\ Row(w)[j] \in Places /\ 1 + j - 1 = j
    BY <1>1, ElementOfSeq
  <1>3. /\ SubSeq(Row(w), 1, i) \in Seq(Places) /\ Len(SubSeq(Row(w), 1, i)) = i
        /\ \A j \in 1..i : SubSeq(Row(w), 1, i)[j] = Row(w)[j]
    BY <1>1, <1>2, SubSeqProperties
  <1> QED BY <1>1, <1>2, <1>3

(* What has been played is all of the files before the current one and the *)
(* beginning of that one; the length says how far it has come.             *)
LEMMA UptoParts ==
  ASSUME NEW f \in Files, NEW w \in Files, f <= w, NEW i \in 0..EventsIn[w]
  PROVE  /\ AllOf(f, w) \in Seq(Places) /\ Len(AllOf(f, w)) \in Nat
         /\ Upto(f, w, i) \in Seq(Places)
         /\ Len(Upto(f, w, i)) = Len(AllOf(f, w)) + i
         /\ \A k \in 1..Len(AllOf(f, w)) : Upto(f, w, i)[k] = AllOf(f, w)[k]
         /\ \A j \in 1..i : Upto(f, w, i)[Len(AllOf(f, w)) + j] = <<w, j>>
  <1>1. w \in Nat /\ w <= LastWindow + 1 /\ i \in Nat
    BY PageAssumption, RowType DEF Files
  <1> DEFINE a == AllOf(f, w)  p == SubSeq(Row(w), 1, i)
  <1>2. a \in Seq(Places) /\ Len(a) \in Nat
    BY <1>1, AllOfType
  <1>3. p \in Seq(Places) /\ Len(p) = i /\ \A j \in 1..i : p[j] = <<w, j>>
    BY PartOfRow
  <1> HIDE DEF a, p
  <1>4. /\ a \o p \in Seq(Places) /\ Len(a \o p) = Len(a) + i
        /\ \A k \in 1..(Len(a) + i) : (a \o p)[k] = IF k <= Len(a) THEN a[k] ELSE p[k - Len(a)]
    BY <1>1, <1>2, <1>3, ConcatProperties
  <1>5. \A k \in 1..Len(a) : k \in 1..(Len(a) + i) /\ k <= Len(a)
    BY <1>1, <1>2
  <1>6. \A j \in 1..i : /\ Len(a) + j \in 1..(Len(a) + i) /\ ~(Len(a) + j <= Len(a))
                        /\ (Len(a) + j) - Len(a) = j
    BY <1>1, <1>2
  <1>7. Upto(f, w, i) = a \o p
    BY DEF Upto, a, p
  <1>8. \A j \in 1..i : (a \o p)[Len(a) + j] = <<w, j>>
    BY <1>3, <1>4, <1>6
  <1> QED BY <1>2, <1>4, <1>5, <1>7, <1>8 DEF a

(* The end of a file is the beginning of the next. *)
LEMMA UptoNextFile ==
  ASSUME NEW f \in Files, NEW w \in Files, f <= w, w + 1 \in Files
  PROVE  Upto(f, w, EventsIn[w]) = Upto(f, w + 1, 0)
  <1>1. w \in Nat /\ f <= w + 1 /\ EventsIn[w] \in 0..EventsIn[w] /\ 0 \in 0..EventsIn[w + 1]
    BY RowType DEF Files
  <1>2. SubSeq(Row(w), 1, EventsIn[w]) = Row(w)
    BY RowType, SubSeqFull
  <1>3. Upto(f, w, EventsIn[w]) = AllOf(f, w + 1)
    BY <1>2, AllOfStep DEF Upto
  <1>4. AllOf(f, w + 1) \in Seq(Places)
    BY <1>1, UptoParts
  <1>5. SubSeq(Row(w + 1), 1, 0) = << >>
    <2>1. SubSeq(Row(w + 1), 1, 0) \in Seq(Places) /\ Len(SubSeq(Row(w + 1), 1, 0)) = 0
      BY <1>1, PartOfRow
    <2> QED BY <2>1, EmptySeq
  <1> QED BY <1>3, <1>4, <1>5, ConcatEmptySeq DEF Upto

(* One more event is played. *)
LEMMA UptoNextEvent ==
  ASSUME NEW f \in Files, NEW w \in Files, f <= w, NEW i \in 0..EventsIn[w], i < EventsIn[w]
  PROVE  Append(Upto(f, w, i), <<w, i + 1>>) = Upto(f, w, i + 1)
  <1> DEFINE u == Upto(f, w, i)  v == Upto(f, w, i + 1)  n == Len(AllOf(f, w))
  <1>1. /\ EventsIn[w] \in Nat /\ i \in Nat /\ i + 1 \in 0..EventsIn[w] /\ w \in Nat
        /\ <<w, i + 1>> \in Places
    BY SMTT(30), RowType DEF Files, Places
  <1>2. /\ n \in Nat /\ u \in Seq(Places) /\ Len(u) = n + i
        /\ \A k \in 1..n : u[k] = AllOf(f, w)[k]
        /\ \A j \in 1..i : u[n + j] = <<w, j>>
    BY UptoParts
  <1>3. /\ v \in Seq(Places) /\ Len(v) = n + (i + 1)
        /\ \A k \in 1..n : v[k] = AllOf(f, w)[k]
        /\ \A j \in 1..(i + 1) : v[n + j] = <<w, j>>
    BY <1>1, UptoParts
  <1> HIDE DEF u, v, n
  <1>4. /\ Append(u, <<w, i + 1>>) \in Seq(Places) /\ Len(Append(u, <<w, i + 1>>)) = n + (i + 1)
        /\ \A k \in 1..(n + i) : Append(u, <<w, i + 1>>)[k] = u[k]
        /\ Append(u, <<w, i + 1>>)[n + (i + 1)] = <<w, i + 1>>
    BY <1>1, <1>2, AppendProperties
  <1>5. ASSUME NEW k \in 1..(n + (i + 1)) PROVE Append(u, <<w, i + 1>>)[k] = v[k]
    <2>1. CASE k \in 1..n
      <3>1. k \in 1..(n + i)
        BY <1>1, <1>2, <2>1
      <3> QED BY <1>2, <1>3, <1>4, <2>1, <3>1
    <2>2. CASE k \notin 1..n
      <3> DEFINE j == k - n
      <3>1. j \in 1..(i + 1) /\ k = n + j /\ (j # i + 1 => j \in 1..i /\ k \in 1..(n + i))
        BY <1>1, <1>2, <2>2
      <3> HIDE DEF j
      <3>2. v[k] = <<w, j>>
        BY <1>3, <3>1
      <3>3. CASE j = i + 1
        BY <1>4, <3>1, <3>2, <3>3
      <3>4. CASE j # i + 1
        BY <1>2, <1>4, <3>1, <3>2, <3>4
      <3> QED BY <3>3, <3>4
    <2> QED BY <2>1, <2>2
  <1>6. Append(u, <<w, i + 1>>) = v
    BY <1>3, <1>4, <1>5, SeqEqual
  <1> QED BY <1>6 DEF u, v

(* And all is the beginning of all there is. *)
LEMMA UptoBegins ==
  ASSUME NEW f \in Files, NEW w \in Files, f <= w, NEW i \in 0..EventsIn[w]
  PROVE  Sequence!IsPrefix(Upto(f, w, i), EventsFrom(f))
  <1>1. /\ w \in Nat /\ f \in Nat /\ LastWindow \in Nat /\ i \in Nat /\ EventsIn[w] \in Nat
        /\ f <= w + 1 /\ w + 1 \in Nat /\ w + 1 <= LastWindow + 1 /\ EventsIn[w] \in 0..EventsIn[w]
        /\ f <= LastWindow + 1 /\ LastWindow + 1 \in Nat /\ LastWindow + 1 <= LastWindow + 1
        /\ LastWindow + 1 - f = LastWindow - f + 1
    BY RowType, PageAssumption DEF Files
  <1>2. EventsFrom(f) = AllOf(f, LastWindow + 1)
    BY <1>1 DEF EventsFrom, AllOf, Rows, Row
  <1> DEFINE u == Upto(f, w, i)  a == AllOf(f, w + 1)  e == AllOf(f, LastWindow + 1)
             n == Len(AllOf(f, w))
  <1>3. /\ n \in Nat /\ u \in Seq(Places) /\ Len(u) = n + i
        /\ \A k \in 1..n : u[k] = AllOf(f, w)[k]
        /\ \A j \in 1..i : u[n + j] = <<w, j>>
    BY UptoParts
  <1>4. a = Upto(f, w, EventsIn[w])
    BY RowType, SubSeqFull, AllOfStep DEF Upto
  <1>5. /\ a \in Seq(Places) /\ Len(a) = n + EventsIn[w]
        /\ \A k \in 1..n : a[k] = AllOf(f, w)[k]
        /\ \A j \in 1..EventsIn[w] : a[n + j] = <<w, j>>
    <2>1. LET b == Upto(f, w, EventsIn[w])
          IN  /\ b \in Seq(Places) /\ Len(b) = n + EventsIn[w]
              /\ \A k \in 1..n : b[k] = AllOf(f, w)[k]
              /\ \A j \in 1..EventsIn[w] : b[n + j] = <<w, j>>
      BY ZenonT(60), <1>1, UptoParts
    <2> HIDE DEF a, n
    <2> QED BY <1>4, <2>1
  <1>6. e \in Seq(Places) /\ Len(a) <= Len(e) /\ \A k \in 1..Len(a) : a[k] = e[k]
    BY <1>1, AllOfType, AllOfBegins DEF Begins
  <1> HIDE DEF u, a, e, n
  <1>7. Len(u) \in Nat /\ Len(u) <= Len(a) /\ Len(e) \in Nat /\ Len(u) <= Len(e)
    BY SMTT(30), <1>1, <1>3, <1>5, <1>6
  <1>8. ASSUME NEW k \in 1..Len(u) PROVE u[k] = e[k] /\ u[k] \in Places
    <2>1. k \in 1..Len(a)
      BY <1>5, <1>7
    <2>4. u[k] \in Places
      BY <1>3, ElementOfSeq
    <2>2. CASE k \in 1..n
      <3>1. u[k] = a[k]
        BY <1>3, <1>5, <2>2
      <3>2. a[k] = e[k]
        BY <1>6, <2>1
      <3> QED BY <2>4, <3>1, <3>2
    <2>3. CASE k \notin 1..n
      <3> DEFINE j == k - n
      <3>1. j \in 1..i /\ j \in 1..EventsIn[w] /\ k = n + j
        BY <1>1, <1>3, <2>3
      <3> HIDE DEF j
      <3>2. u[k] = <<w, j>>
        BY <1>3, <3>1
      <3>3. a[k] = <<w, j>>
        BY <1>5, <3>1
      <3>4. a[k] = e[k]
        BY <1>6, <2>1
      <3> QED BY <2>4, <3>2, <3>3, <3>4
    <2> QED BY <2>2, <2>3, <2>4
  <1>9. SubSeq(u, 1, Len(u)) = SubSeq(e, 1, Len(u))
    <2>1. /\ SubSeq(u, 1, Len(u)) = u
      BY <1>3, SubSeqFull
    <2>2. \A k \in 1..Len(u) : e[k] \in Places
      BY <1>8
    <2>3. /\ SubSeq(e, 1, Len(u)) \in Seq(Places) /\ Len(SubSeq(e, 1, Len(u))) = Len(u)
          /\ \A k \in 1..Len(u) : SubSeq(e, 1, Len(u))[k] = e[k]
      <3>1. \A k \in 1..Len(u) : 1 + k - 1 = k
        BY <1>7
      <3> QED BY <1>6, <1>7, <2>2, <3>1, SubSeqProperties
    <2> QED BY <1>3, <1>8, <2>1, <2>3, SeqEqual
  <1> QED BY <1>2, <1>7, <1>9 DEF Sequence!IsPrefix, u, e


-----------------------------------------------------------------------------
(* Why events are played in order: as long as the playhead is moved only   *)
(* while the worker waits for its timer, one chain goes on at a time, only *)
(* its last fetch is under way, and what has been played is all there is   *)
(* from the window the playhead was moved to up to the event that is next. *)

ChainStates ==
  [at : {"delay", "timer", "data", "running", "gone"}, on : Nat, event : Seq(Nat),
   executable : Texts \union {NoText}]
FetchStates == [window : Files, status : {"pending", "done", "failed"}]

(* The types of what the chains work on. *)
EventTypeOK ==
  /\ chains \in Seq(ChainStates)
  /\ fetches \in Seq(FetchStates)
  /\ latestExecutable \in Texts \union {NoText}
  /\ cursor \in Nat /\ loaded \in Files /\ eventIndex \in Nat
  /\ now \in Files /\ from \in Files

LatestStatus == IF fetches = << >> THEN "none" ELSE fetches[Latest].status

(* The worker begins with the page's first message. *)
InitComesFirst ==
  /\ \A i \in 1..Len(toWorker) : toWorker[i].type = "init" =>
       i = 1 /\ fetches = << >> /\ toWorker[i].position = from
  /\ fetches = << >> =>
       /\ chains = << >> /\ toWorker # << >> /\ Head(toWorker).type = "init"
       /\ cursor = from /\ played = << >>

OthersAreGone == \A c \in Chains : c # Len(chains) => chains[c].at = "gone"

(* Where a chain may be, given the last fetch and the event that is next. *)
ChainIsRight(c) ==
  /\ chains[c].at = "timer" =>
       /\ eventProcessTimer = c /\ LatestStatus = "done"
       /\ AtEnd => chains[c].on = cursor + 1
  /\ chains[c].at \in {"delay", "data"} => chains[c].on = Latest
  /\ chains[c].at = "data" /\ LatestStatus = "done" => ~AtEnd
  /\ chains[c].at = "running" =>
       /\ LatestStatus = "done" /\ ~AtEnd
       /\ chains[c].event = <<loaded, eventIndex + 1>>

(* Only the last fetch is under way, and a chain waits for it. *)
FetchesInOrder ==
  /\ \A n \in 1..Latest : fetches[n].status = "pending" =>
       n = Latest /\ \E c \in Chains : chains[c].at \in {"delay", "data"}
  /\ fetches # << >> => fetches[Latest].window = cursor

PlayedSoFar ==
  /\ cursor \in Files /\ from <= cursor
  /\ LatestStatus = "done" =>
       /\ loaded = cursor /\ eventIndex \in 0..EventsIn[cursor]
       /\ played = Upto(from, cursor, eventIndex)
  /\ LatestStatus # "done" => played = Upto(from, cursor, 0)

Calm == OthersAreGone /\ (\A c \in Chains : ChainIsRight(c)) /\ FetchesInOrder /\ PlayedSoFar

EventsInv == EventTypeOK /\ InitComesFirst /\ (calm => Calm)

(* A chain's step changes its own record only. *)
LEMMA OneMoves ==
  ASSUME EventTypeOK, NEW c \in Chains, NEW s \in ChainStates, chains' = [chains EXCEPT ![c] = s]
  PROVE  /\ chains' \in Seq(ChainStates) /\ Len(chains') = Len(chains) /\ Chains' = Chains
         /\ Len(chains) \in Nat /\ Chains = 1..Len(chains)
         /\ chains'[c] = s /\ \A d \in Chains : d # c => chains'[d] = chains[d]
  BY ExceptSeq DEF EventTypeOK, Chains

(* The only chain that goes on stays the only one. *)
LEMMA AloneMoves ==
  ASSUME EventTypeOK, OthersAreGone, NEW c \in Chains, NEW s \in ChainStates,
         chains' = [chains EXCEPT ![c] = s], chains[c].at # "gone"
  PROVE  /\ OthersAreGone' /\ Chains' = Chains /\ chains'[c] = s
         /\ \A d \in Chains : d # c => chains[d].at = "gone" /\ chains'[d].at = "gone"
  BY ZenonT(60), OneMoves DEF OthersAreGone

(* The next fetch. *)
LEMMA OneMoreFetch ==
  ASSUME EventTypeOK, NEW w \in Files, fetches' = Fetching(w)
  PROVE  /\ fetches' \in Seq(FetchStates) /\ Latest' = Latest + 1 /\ Latest \in Nat
         /\ fetches' # << >> /\ LatestStatus' = "pending" /\ fetches'[Latest'].window = w
         /\ \A n \in 1..Latest : fetches'[n] = fetches[n]
         /\ \A n \in 1..Latest' : n \in 1..Latest \/ n = Latest'
  <1> DEFINE m == [window |-> w, status |-> "pending"]
  <1>1. m \in FetchStates /\ fetches' = Append(fetches, m)
    BY DEF FetchStates, Fetching
  <1>2. /\ Append(fetches, m) \in Seq(FetchStates) /\ Len(Append(fetches, m)) = Len(fetches) + 1
        /\ Len(fetches) \in Nat
        /\ \A i \in 1..Len(fetches) : Append(fetches, m)[i] = fetches[i]
        /\ Append(fetches, m)[Len(fetches) + 1] = m
    BY <1>1, Sent DEF EventTypeOK
  <1>3. m.window = w /\ m.status = "pending"
    OBVIOUS
  <1> HIDE DEF m
  <1>4. fetches' # << >>
    BY <1>1, <1>2, EmptySeq
  <1> QED BY <1>1, <1>2, <1>3, <1>4 DEF Latest, LatestStatus

(* The timer is stopped, and with it the chain that set it. *)
LEMMA ClearedType ==
  ASSUME EventTypeOK
  PROVE  /\ Cleared \in Seq(ChainStates) /\ Len(Cleared) = Len(chains) /\ Len(chains) \in Nat
         /\ Chains = 1..Len(chains)
         /\ \A c \in Chains : Cleared[c] =
              IF c = eventProcessTimer /\ chains[c].at = "timer" THEN Dead ELSE chains[c]
  <1>1. chains \in Seq(ChainStates) /\ Chains = 1..Len(chains) /\ Len(chains) \in Nat
    BY DEF EventTypeOK, Chains
  <1>2. \A c \in 1..Len(chains) : chains[c] \in ChainStates
    BY <1>1, ElementOfSeq
  <1>3. Dead \in ChainStates
    BY EmptySeq DEF Dead, Chain, ChainStates
  <1>4. \A c \in 1..Len(chains) :
          (IF c = eventProcessTimer /\ chains[c].at = "timer" THEN Dead ELSE chains[c]) \in ChainStates
    BY <1>2, <1>3
  <1>5. Cleared \in Seq(ChainStates) /\ Len(Cleared) = Len(chains)
    BY <1>1, <1>4, IsASeq DEF Cleared
  <1> QED BY <1>1, <1>5 DEF Cleared

-----------------------------------------------------------------------------
(* Types of the chains and fetches. *)
LEMMA EventTypesKept ==
  ASSUME PageInv, EventTypeOK, [PageNext]_pageVars
  PROVE  EventTypeOK'
  <1>0. /\ chains \in Seq(ChainStates) /\ fetches \in Seq(FetchStates)
        /\ latestExecutable \in Texts \union {NoText}
        /\ cursor \in Nat /\ loaded \in Files /\ eventIndex \in Nat
        /\ now \in Files /\ from \in Files /\ Len(fetches) \in Nat
        /\ toWorker \in Seq(Messages) /\ FirstWindow \in Files /\ LastWindow \in Nat
        /\ \A w \in Files : w \in Nat
    BY PageAssumption DEF EventTypeOK, PageInv, TextTypeOK, Files
  <1> DEFINE Rest == /\ chains' = chains /\ fetches' = fetches /\ cursor' = cursor
                     /\ loaded' = loaded /\ eventIndex' = eventIndex
  <1>1. CASE Rest /\ UNCHANGED <<now, from, latestExecutable>>
    BY <1>1 DEF EventTypeOK
  <1>2. ASSUME NEW at \in {"delay", "timer", "data", "running", "gone"}, NEW on \in Nat
        PROVE  Chain(at, on) \in ChainStates
    BY EmptySeq DEF Chain, ChainStates
  <1>3. Dead \in ChainStates
    BY <1>2 DEF Dead
  <1>4. ASSUME toWorker # << >>
        PROVE  Head(toWorker) \in Messages /\ (Compiles(Head(toWorker)) => Head(toWorker).source \in Texts)
    <2>1. Head(toWorker) = toWorker[1] /\ toWorker[1] \in Messages /\ Len(toWorker) \in Nat \ {0}
      BY <1>0, <1>4, Received
    <2>2. 1 \in 1..Len(toWorker)
      BY <2>1
    <2> QED BY <2>1, <2>2 DEF PageInv, SourcesAreTexts
  <1>5. CASE ServeInit
    <2>1. /\ toWorker # << >> /\ Compiles(Head(toWorker))
          /\ latestExecutable' \in {Head(toWorker).source, latestExecutable}
          /\ cursor' = Head(toWorker).position /\ fetches' = Fetching(Head(toWorker).position)
          /\ chains' = <<Chain("delay", 1)>> /\ UNCHANGED <<loaded, eventIndex, now, from>>
      BY <1>5 DEF ServeInit, Receives, TriggerCompile, Compiles, historyVars
    <2>2. latestExecutable' \in Texts \union {NoText} /\ cursor' \in Files
      BY <1>0, <1>4, <2>1 DEF Messages
    <2>3. fetches' \in Seq(FetchStates)
      BY <2>1, <2>2, OneMoreFetch
    <2>4. chains' \in Seq(ChainStates)
      <3>1. Chain("delay", 1) \in ChainStates
        BY <1>2
      <3> QED BY <2>1, <3>1
    <2> QED BY <1>0, <2>1, <2>2, <2>3, <2>4 DEF EventTypeOK
  <1>6. CASE CompileTimer
    <2>1. Rest /\ latestExecutable' \in {latestSource, latestExecutable} /\ latestSource \in Texts
      BY <1>6 DEF CompileTimer, TriggerCompile, domainVars, chainVars, PageInv, SourcesAreTexts
    <2>2. UNCHANGED <<now, from>>
      BY <1>6 DEF CompileTimer, historyVars
    <2> QED BY <1>0, <2>1, <2>2 DEF EventTypeOK
  <1>7. CASE ServePlayhead
    <2>1. /\ toWorker # << >> /\ chains' = Append(Cleared, Chain("delay", Len(fetches')))
          /\ UNCHANGED <<latestExecutable, loaded, eventIndex, now>>
          /\ \/ UNCHANGED <<cursor, fetches, from>>
             \/ /\ cursor' = Head(toWorker).position /\ from' = Head(toWorker).position
                /\ fetches' = Fetching(Head(toWorker).position)
      BY <1>7 DEF ServePlayhead, Receives, compileVars
    <2>2. Head(toWorker).position \in Files
      BY <1>4, <2>1 DEF Messages
    <2>3. cursor' \in Nat /\ from' \in Files /\ fetches' \in Seq(FetchStates) /\ Len(fetches') \in Nat
      BY <1>0, <2>1, <2>2, OneMoreFetch
    <2>4. Chain("delay", Len(fetches')) \in ChainStates
      BY <1>2, <2>3
    <2>5. Cleared \in Seq(ChainStates)
      BY ClearedType
    <2>6. chains' \in Seq(ChainStates)
      BY <2>1, <2>4, <2>5, AppendProperties
    <2> QED BY <1>0, <2>1, <2>3, <2>6 DEF EventTypeOK
  <1>8. ASSUME NEW n \in DOMAIN fetches, FetchEnds(n) PROVE EventTypeOK'
    <2>1. /\ UNCHANGED <<chains, latestExecutable, cursor, now, from>>
          /\ \E s \in {"done", "failed"} : fetches' = [fetches EXCEPT ![n].status = s]
          /\ \/ loaded' = fetches[n].window /\ eventIndex' = 0
             \/ UNCHANGED <<loaded, eventIndex>>
      BY <1>8 DEF FetchEnds, chainVars, compileVars, historyVars
    <2>2. n \in 1..Len(fetches) /\ fetches[n] \in FetchStates
      BY <1>0, ElementOfSeq
    <2>3. fetches' \in Seq(FetchStates)
      <3>1. PICK s \in {"done", "failed"} : fetches' = [fetches EXCEPT ![n].status = s]
        BY <2>1
      <3> DEFINE r == [fetches[n] EXCEPT !.status = s]
      <3>2. r \in FetchStates
        BY <2>2 DEF FetchStates
      <3>3. fetches' = [fetches EXCEPT ![n] = r]
        BY <3>1
      <3> HIDE DEF r
      <3> QED BY <1>0, <2>2, <3>2, <3>3, ExceptSeq
    <2>4. loaded' \in Files /\ eventIndex' \in Nat
      BY SMTT(30), <1>0, <2>1, <2>2 DEF FetchStates
    <2> QED BY <1>0, <2>1, <2>3, <2>4 DEF EventTypeOK
  <1>9. ASSUME NEW c \in Chains, NEW s \in ChainStates, chains' = [chains EXCEPT ![c] = s],
               fetches' \in Seq(FetchStates), cursor' \in Nat, eventIndex' \in Nat,
               UNCHANGED <<loaded, latestExecutable, now, from>>
        PROVE  EventTypeOK'
    <2>1. chains' \in Seq(ChainStates)
      BY <1>9, OneMoves
    <2> QED BY <1>0, <1>9, <2>1 DEF EventTypeOK
  <1>10. ASSUME NEW c \in Chains, ChainStep(c) PROVE EventTypeOK'
    <2>1. CASE SetTimer(c)
      <3>1. /\ UNCHANGED <<fetches, cursor, eventIndex, loaded, latestExecutable, now, from>>
            /\ chains' \in {Ended(c), Moved(c, "timer", cursor + 1), Moved(c, "timer", 0)}
        BY <2>1 DEF SetTimer, unchained, domainVars, compileVars
      <3>2. Chain("timer", cursor + 1) \in ChainStates /\ Chain("timer", 0) \in ChainStates
        BY <1>0, <1>2
      <3>3. \E s \in ChainStates : chains' = [chains EXCEPT ![c] = s]
        BY <1>3, <3>1, <3>2 DEF Ended, Moved
      <3> QED BY <1>0, <1>9, <3>1, <3>3
    <2>2. CASE TimerFires(c)
      <3>1. /\ UNCHANGED <<eventIndex, loaded, latestExecutable, now, from>>
            /\ chains' \in {Ended(c), Moved(c, "data", Len(fetches) + 1), Moved(c, "data", Len(fetches))}
            /\ cursor' \in {cursor, cursor + 1}
            /\ fetches' = fetches \/ (fetches' = Fetching(cursor') /\ ~(cursor' > now))
        BY <2>2 DEF TimerFires, unchained, compileVars, Latest
      <3>2. Chain("data", Len(fetches) + 1) \in ChainStates /\ Chain("data", Len(fetches)) \in ChainStates
        BY <1>0, <1>2
      <3>3. \E s \in ChainStates : chains' = [chains EXCEPT ![c] = s]
        BY <1>3, <3>1, <3>2 DEF Ended, Moved
      <3>4. cursor' \in Nat /\ (~(cursor' > now) => cursor' \in Files)
        BY <1>0, <3>1 DEF Files
      <3>5. fetches' \in Seq(FetchStates)
        BY <1>0, <3>1, <3>4, OneMoreFetch
      <3> QED BY <1>0, <1>9, <3>1, <3>3, <3>4, <3>5
    <2>3. CASE RunEvent(c)
      <3> DEFINE r == [at |-> "running", on |-> 0, event |-> <<loaded, eventIndex + 1>>,
                       executable |-> latestExecutable]
      <3>1. /\ UNCHANGED <<fetches, cursor, eventIndex, loaded, latestExecutable, now, from>>
            /\ chains' \in {Ended(c), [chains EXCEPT ![c] = r]}
        BY <2>3 DEF RunEvent, unchained, domainVars, compileVars
      <3>2. r \in ChainStates
        <4>1. <<loaded, eventIndex + 1>> \in Seq(Nat)
          BY <1>0
        <4> QED BY <1>0, <4>1 DEF ChainStates
      <3> HIDE DEF r
      <3>3. \E s \in ChainStates : chains' = [chains EXCEPT ![c] = s]
        BY <1>3, <3>1, <3>2 DEF Ended
      <3> QED BY <1>0, <1>9, <3>1, <3>3
    <2>4. CASE EventEnds(c)
      <3>1. /\ UNCHANGED <<fetches, cursor, loaded, latestExecutable, now, from>>
            /\ chains' \in {Ended(c), Moved(c, "delay", Len(fetches))}
            /\ eventIndex' \in {eventIndex, eventIndex + 1}
        BY <2>4 DEF EventEnds, unchained, compileVars, Latest
      <3>2. Chain("delay", Len(fetches)) \in ChainStates
        BY <1>0, <1>2
      <3>3. \E s \in ChainStates : chains' = [chains EXCEPT ![c] = s]
        BY <1>3, <3>1, <3>2 DEF Ended, Moved
      <3>4. eventIndex' \in Nat /\ cursor' \in Nat /\ fetches' \in Seq(FetchStates)
        BY <1>0, <3>1
      <3> QED BY <1>9, <3>1, <3>3, <3>4
    <2> QED BY <1>10, <2>1, <2>2, <2>3, <2>4 DEF ChainStep
  <1>11. CASE NextWindow
    <2>1. now' \in Files
      BY <1>0, <1>11 DEF NextWindow, Files
    <2> QED BY <1>11, <2>1 DEF NextWindow, EventTypeOK, domainVars, chainVars, compileVars, historyVars
  <1>12. ASSUME NEW t \in Texts, TypeText(t) PROVE EventTypeOK'
    BY <1>1, <1>12 DEF TypeText, domainVars, chainVars, compileVars, historyVars
  <1>13. ASSUME NEW w \in Files, MovePlayhead(w) PROVE EventTypeOK'
    BY <1>1, <1>13 DEF MovePlayhead, domainVars, chainVars, compileVars, historyVars
  <1>14. CASE ReceiveAnswer \/ ServeCompile \/ UNCHANGED pageVars
    BY <1>1, <1>14 DEF ReceiveAnswer, ServeCompile, pageVars, domainVars, chainVars, compileVars,
                       historyVars
  <1> QED BY <1>5, <1>6, <1>7, <1>8, <1>10, <1>11, <1>12, <1>13, <1>14 DEF PageNext, WorkerStep


-----------------------------------------------------------------------------
(* The first message is served before anything else happens in the worker. *)
LEMMA InitStaysFirst ==
  ASSUME PageInv, EventTypeOK, InitComesFirst, [PageNext]_pageVars
  PROVE  InitComesFirst'
  <1>0. /\ toWorker \in Seq(Messages) /\ fetches \in Seq(FetchStates)
        /\ chains \in Seq(ChainStates) /\ Len(toWorker) \in Nat
    BY DEF EventTypeOK, PageInv, TextTypeOK
  <1>1. /\ \A i \in 1..Len(toWorker) : toWorker[i].type = "init" =>
             i = 1 /\ fetches = << >> /\ toWorker[i].position = from
        /\ fetches = << >> =>
             /\ chains = << >> /\ toWorker # << >> /\ Head(toWorker).type = "init"
             /\ cursor = from /\ played = << >>
    BY DEF InitComesFirst
  <1>2. ASSUME UNCHANGED <<toWorker, fetches, chains, cursor, from, played>>
        PROVE  InitComesFirst'
    BY <1>1, <1>2 DEF InitComesFirst
  <1>3. ASSUME NEW m \in Messages, m.type # "init", toWorker' = Append(toWorker, m),
               UNCHANGED <<fetches, chains, cursor, from, played>>
        PROVE  InitComesFirst'
    <2>1. /\ Len(toWorker') = Len(toWorker) + 1 /\ toWorker'[Len(toWorker) + 1] = m
          /\ \A i \in 1..Len(toWorker) : toWorker'[i] = toWorker[i]
          /\ toWorker' \in Seq(Messages)
      BY <1>0, <1>3, Sent
    <2>2. \A i \in 1..Len(toWorker') : i \in 1..Len(toWorker) \/ i = Len(toWorker) + 1
      BY <1>0, <2>1
    <2>3. \A i \in 1..Len(toWorker') : toWorker'[i].type = "init" =>
             i = 1 /\ fetches' = << >> /\ toWorker'[i].position = from'
      BY <1>1, <1>3, <2>1, <2>2
    <2>4. toWorker # << >> => toWorker' # << >> /\ Head(toWorker') = Head(toWorker)
      <3>1. CASE toWorker # << >>
        <4>1. Len(toWorker) \in Nat \ {0} /\ Head(toWorker) = toWorker[1]
          BY <1>0, <3>1, Received
        <4>2. toWorker' # << >> /\ 1 \in 1..Len(toWorker)
          BY <2>1, <4>1, EmptySeq
        <4>3. Head(toWorker') = toWorker'[1]
          BY <2>1, <4>2, Received
        <4> QED BY <2>1, <4>1, <4>2, <4>3
      <3> QED BY <3>1
    <2> QED BY <1>1, <1>3, <2>3, <2>4 DEF InitComesFirst
  <1>4. ASSUME fetches # << >>, fetches' # << >>, toWorker' = toWorker
        PROVE  InitComesFirst'
    BY <1>1, <1>4 DEF InitComesFirst
  <1>5. ASSUME toWorker # << >>, toWorker' = Tail(toWorker), fetches' # << >>
        PROVE  InitComesFirst'
    <2>1. /\ Len(toWorker') = Len(toWorker) - 1
          /\ \A i \in 1..Len(toWorker) - 1 : toWorker'[i] = toWorker[i + 1]
      BY <1>0, <1>5, Received
    <2>2. \A i \in 1..Len(toWorker') : /\ i + 1 \in 1..Len(toWorker) /\ i + 1 # 1
                                      /\ toWorker'[i] = toWorker[i + 1]
      BY <1>0, <2>1
    <2>3. \A i \in 1..Len(toWorker') : toWorker'[i].type # "init"
      BY <1>1, <2>2
    <2> QED BY <1>5, <2>3 DEF InitComesFirst
  <1>6. ASSUME NEW t \in Texts, TypeText(t) PROVE InitComesFirst'
    <2> DEFINE m == [type |-> "compile", source |-> t, position |-> 0]
    <2>1. toWorker' = Append(toWorker, m) /\ UNCHANGED <<fetches, chains, cursor, from, played>>
      BY <1>6 DEF TypeText, domainVars, chainVars, historyVars
    <2>2. m \in Messages /\ m.type # "init"
      BY PageAssumption DEF Messages, Files
    <2> HIDE DEF m
    <2> QED BY <1>3, <2>1, <2>2
  <1>7. ASSUME NEW w \in Files, MovePlayhead(w) PROVE InitComesFirst'
    <2> DEFINE m == [type |-> "playhead", source |-> NoText, position |-> w]
    <2>1. toWorker' = Append(toWorker, m) /\ UNCHANGED <<fetches, chains, cursor, from, played>>
      BY <1>7 DEF MovePlayhead, domainVars, chainVars, historyVars
    <2>2. m \in Messages /\ m.type # "init"
      BY DEF Messages
    <2> HIDE DEF m
    <2> QED BY <1>3, <2>1, <2>2
  <1>8. ASSUME NEW w, fetches' = Fetching(w), w \in Files
        PROVE  fetches' # << >>
    BY <1>8, OneMoreFetch
  <1>9. CASE ServeInit
    <2>1. /\ toWorker # << >> /\ toWorker' = Tail(toWorker)
          /\ fetches' = Fetching(Head(toWorker).position)
      BY <1>9 DEF ServeInit, Receives
    <2>2. Head(toWorker).position \in Files
      <3>1. Head(toWorker) \in Messages
        BY <1>0, <2>1, Received
      <3> QED BY <3>1 DEF Messages
    <2> QED BY <1>5, <1>8, <2>1, <2>2
  <1>10. CASE ServeCompile
    <2>1. toWorker # << >> /\ toWorker' = Tail(toWorker) /\ Head(toWorker).type # "init" /\ fetches' = fetches
      BY <1>10 DEF ServeCompile, Receives, domainVars
    <2> QED BY <1>1, <1>5, <2>1
  <1>11. CASE ServePlayhead
    <2>1. /\ toWorker # << >> /\ toWorker' = Tail(toWorker) /\ Head(toWorker).type # "init"
          /\ fetches' = fetches \/ fetches' = Fetching(Head(toWorker).position)
      BY <1>11 DEF ServePlayhead, Receives
    <2>2. Head(toWorker).position \in Files
      <3>1. Head(toWorker) \in Messages
        BY <1>0, <2>1, Received
      <3> QED BY <3>1 DEF Messages
    <2>3. fetches' # << >>
      BY <1>1, <1>8, <2>1, <2>2
    <2> QED BY <1>5, <2>1, <2>3
  <1>12. ASSUME NEW n \in DOMAIN fetches, FetchEnds(n) PROVE InitComesFirst'
    <2>1. toWorker' = toWorker /\ \E s : fetches' = [fetches EXCEPT ![n].status = s]
      BY <1>12 DEF FetchEnds
    <2>2. n \in DOMAIN fetches' /\ fetches # << >>
      BY <2>1
    <2>3. fetches' # << >>
      BY <2>2
    <2> QED BY <1>4, <2>1, <2>2, <2>3
  <1>13. ASSUME NEW c \in Chains, ChainStep(c) PROVE InitComesFirst'
    <2>1. toWorker' = toWorker /\ (fetches' = fetches \/ \E w : fetches' = Append(fetches, w))
      BY <1>13 DEF ChainStep, SetTimer, TimerFires, RunEvent, EventEnds, unchained, domainVars, Fetching
    <2>2. fetches # << >>
      BY <1>1, <1>13 DEF Chains
    <2>3. ASSUME NEW w, fetches' = Append(fetches, w) PROVE fetches' # << >>
      <3>1. Len(fetches) + 1 \in DOMAIN fetches'
        BY <1>0, <2>3
      <3> QED BY <3>1
    <2> QED BY <1>4, <2>1, <2>2, <2>3
  <1>14. CASE ReceiveAnswer \/ CompileTimer \/ NextWindow \/ UNCHANGED pageVars
    BY <1>2, <1>14 DEF ReceiveAnswer, CompileTimer, NextWindow, pageVars, domainVars, chainVars,
                       historyVars
  <1> QED BY <1>6, <1>7, <1>9, <1>10, <1>11, <1>12, <1>13, <1>14 DEF PageNext, WorkerStep


-----------------------------------------------------------------------------
(* Where steps of the worker leave the stream, as long as it is calm. Each *)
(* lemma is one action.                                                    *)

(* A step that leaves chains, fetches, cursor and what was played alone    *)
(* keeps the stream in order.                                              *)
LEMMA CalmElsewhere ==
  ASSUME Calm, UNCHANGED <<chains, eventProcessTimer, fetches, cursor, loaded, eventIndex, from, played>>
  PROVE  Calm'
  BY DEF Calm, OthersAreGone, ChainIsRight, FetchesInOrder, PlayedSoFar, LatestStatus, Latest, Chains,
         AtEnd

(* A calm stream has one place for every chain that goes on. *)
LEMMA TheChain ==
  ASSUME EventTypeOK, OthersAreGone, NEW c \in Chains, NEW d \in Chains,
         chains[c].at # "gone", chains[d].at # "gone"
  PROVE  c = d
  BY DEF OthersAreGone

(* From the window the playhead is moved to, nothing has been played. *)
LEMMA NothingPlayed ==
  ASSUME NEW w \in Files
  PROVE  w \in Nat /\ w <= w /\ Upto(w, w, 0) = << >>
  <1>1. AllOf(w, w) = << >>
    BY AllOfNone
  <1>2. w \in Nat /\ w <= w /\ 0 \in 0..EventsIn[w]
    BY RowType DEF Files
  <1>3. Upto(w, w, 0) \in Seq(Places) /\ Len(Upto(w, w, 0)) = Len(AllOf(w, w)) + 0
    BY <1>2, UptoParts
  <1>4. Len(AllOf(w, w)) = 0
    BY <1>1, EmptySeq
  <1> QED BY <1>2, <1>3, <1>4, EmptySeq

(* The first message starts the one chain, at the first file, with nothing *)
(* played.                                                                 *)
LEMMA InitIsCalm ==
  ASSUME PageInv, EventTypeOK, InitComesFirst, ServeInit
  PROVE  Calm'
  <1>0. toWorker \in Seq(Messages) /\ fetches \in Seq(FetchStates) /\ from \in Files
    BY DEF EventTypeOK, PageInv, TextTypeOK
  <1>1. /\ toWorker # << >> /\ Head(toWorker).type = "init" /\ cursor' = Head(toWorker).position
        /\ fetches' = Fetching(Head(toWorker).position) /\ chains' = <<Chain("delay", 1)>>
        /\ UNCHANGED <<from, played>>
    BY DEF ServeInit, Receives, historyVars
  <1>2. Head(toWorker) = toWorker[1] /\ Len(toWorker) \in Nat \ {0}
    BY <1>0, <1>1, Received
  <1>3. 1 \in 1..Len(toWorker)
    BY <1>2
  <1>4. fetches = << >> /\ cursor' = from /\ played = << >>
    BY <1>1, <1>2, <1>3 DEF InitComesFirst
  <1>5. /\ Latest' = Latest + 1 /\ Latest = 0 /\ fetches' # << >> /\ LatestStatus' = "pending"
        /\ fetches'[Latest'].window = from
    BY <1>0, <1>1, <1>4, OneMoreFetch DEF Latest
  <1>6. /\ Len(chains') = 1 /\ chains'[1] = Chain("delay", 1) /\ Chains' = 1..1
        /\ Chain("delay", 1).at = "delay" /\ Chain("delay", 1).on = 1
    BY <1>1 DEF Chains, Chain
  <1>7. OthersAreGone' /\ \A c \in Chains' : ChainIsRight(c)'
    BY <1>5, <1>6 DEF OthersAreGone, ChainIsRight
  <1>8. FetchesInOrder'
    <2>1. \A n \in 1..Latest' : n = Latest'
      BY <1>5
    <2>2. 1 \in Chains' /\ chains'[1].at = "delay"
      BY <1>6
    <2> QED BY <1>4, <1>5, <2>1, <2>2 DEF FetchesInOrder
  <1>9. PlayedSoFar'
    <2>1. Upto(from, from, 0) = << >> /\ from \in Nat /\ from <= from
      BY <1>0, NothingPlayed
    <2> QED BY <1>0, <1>1, <1>4, <1>5, <2>1 DEF PlayedSoFar
  <1> QED BY <1>7, <1>8, <1>9 DEF Calm

(* A move of the playhead while every chain waits for its timer, or is     *)
(* gone, clears the timer and starts one chain, from the new position.     *)
LEMMA MoveIsCalm ==
  ASSUME PageInv, EventTypeOK, InitComesFirst, Calm, ServePlayhead, calm'
  PROVE  Calm'
  <1>0. /\ toWorker \in Seq(Messages) /\ fetches \in Seq(FetchStates) /\ Len(fetches) \in Nat
        /\ chains \in Seq(ChainStates)
    BY DEF EventTypeOK, PageInv, TextTypeOK
  <1> DEFINE w == Head(toWorker).position
             s == Chain("delay", Len(fetches'))
             n == Len(chains)
  <1>1. /\ toWorker # << >> /\ Head(toWorker).type = "playhead"
        /\ \/ UNCHANGED <<cursor, fetches, from, played>>
           \/ cursor' = w /\ fetches' = Fetching(w) /\ from' = w /\ played' = << >>
        /\ chains' = Append(Cleared, s)
        /\ calm' = (calm /\ \A c \in Chains : chains[c].at \in {"timer", "gone"})
        /\ UNCHANGED <<loaded, eventIndex, eventProcessTimer>>
    BY DEF ServePlayhead, Receives
  <1>2. Head(toWorker) \in Messages
    BY <1>0, <1>1, Received
  <1>3. w \in Files
    BY <1>2 DEF Messages
  <1>4. \A c \in Chains : chains[c].at \in {"timer", "gone"}
    BY <1>1
  <1>5. fetches # << >>
    BY <1>1 DEF InitComesFirst
  <1>6. Len(fetches') \in Nat
    BY <1>0, <1>1, <1>3, OneMoreFetch
  <1>7. /\ s \in ChainStates /\ s.at = "delay" /\ s.on = Latest'
    BY <1>6, EmptySeq DEF Chain, ChainStates, Latest
  <1>8. /\ Cleared \in Seq(ChainStates) /\ Len(Cleared) = n /\ n \in Nat /\ Chains = 1..n
        /\ \A c \in Chains : Cleared[c] =
              IF c = eventProcessTimer /\ chains[c].at = "timer" THEN Dead ELSE chains[c]
    BY ClearedType
  <1>9. \A c \in Chains : Cleared[c].at = "gone"
    <2>1. Dead.at = "gone"
      BY DEF Dead, Chain
    <2> QED BY <1>4, <1>8, <2>1 DEF Calm, ChainIsRight
  <1> HIDE DEF w, s, n
  <1>10. /\ Append(Cleared, s) \in Seq(ChainStates) /\ Len(Append(Cleared, s)) = n + 1
         /\ \A c \in 1..n : Append(Cleared, s)[c] = Cleared[c]
         /\ Append(Cleared, s)[n + 1] = s
    BY <1>7, <1>8, Sent
  <1>11. /\ Chains' = 1..(n + 1) /\ Len(chains') = n + 1 /\ chains'[n + 1] = s
         /\ n + 1 \in Chains'
         /\ \A c \in Chains' : c # n + 1 => chains'[c].at = "gone"
    BY <1>1, <1>8, <1>9, <1>10 DEF Chains
  <1>12. OthersAreGone'
    BY <1>11 DEF OthersAreGone
  <1>13. \A c \in Chains' : ChainIsRight(c)'
    BY <1>7, <1>11 DEF ChainIsRight
  <1>14. \A k \in 1..Latest : fetches[k].status # "pending"
    BY <1>4 DEF Calm, FetchesInOrder
  <1>15. CASE UNCHANGED <<cursor, fetches, from, played>>
    <2>1. FetchesInOrder'
      BY <1>14, <1>15 DEF Calm, FetchesInOrder, Latest
    <2>2. PlayedSoFar'
      BY <1>1, <1>15 DEF Calm, PlayedSoFar, LatestStatus, Latest
    <2> QED BY <1>12, <1>13, <2>1, <2>2 DEF Calm
  <1>16. CASE cursor' = w /\ fetches' = Fetching(w) /\ from' = w /\ played' = << >>
    <2>1. /\ Latest' = Latest + 1 /\ Latest \in Nat /\ LatestStatus' = "pending"
          /\ fetches'[Latest'].window = w
          /\ \A k \in 1..Latest : fetches'[k] = fetches[k]
          /\ \A k \in 1..Latest' : k \in 1..Latest \/ k = Latest'
      BY <1>3, <1>16, OneMoreFetch
    <2>2. FetchesInOrder'
      <3>1. \A k \in 1..Latest' : fetches'[k].status = "pending" => k = Latest'
        BY <1>14, <2>1
      <3>2. \E c \in Chains' : chains'[c].at \in {"delay", "data"}
        BY <1>7, <1>11
      <3> QED BY <1>16, <2>1, <3>1, <3>2 DEF FetchesInOrder
    <2>3. PlayedSoFar'
      <3>1. w \in Nat /\ w <= w /\ Upto(w, w, 0) = << >>
        BY <1>3, NothingPlayed
      <3> QED BY <1>3, <1>16, <2>1, <3>1 DEF PlayedSoFar
    <2> QED BY <1>12, <1>13, <2>2, <2>3 DEF Calm
  <1> QED BY <1>1, <1>15, <1>16

(* A file is answered while its chain waits for it. *)
LEMMA AnswerIsCalm ==
  ASSUME EventTypeOK, Calm, NEW n \in DOMAIN fetches, FetchEnds(n)
  PROVE  Calm'
  <1>0. /\ fetches \in Seq(FetchStates) /\ n \in 1..Len(fetches) /\ Len(fetches) \in Nat
    BY DEF EventTypeOK
  <1>1. /\ fetches[n].status = "pending"
        /\ UNCHANGED <<chains, eventProcessTimer, cursor, from, played>>
        /\ \/ /\ fetches' = [fetches EXCEPT ![n].status = "done"]
              /\ loaded' = fetches[n].window /\ eventIndex' = 0
           \/ fetches' = [fetches EXCEPT ![n].status = "failed"] /\ UNCHANGED <<loaded, eventIndex>>
    BY DEF FetchEnds, chainVars, historyVars
  <1>2. /\ n = Latest /\ fetches # << >> /\ fetches[n].window = cursor
        /\ \E c \in Chains : chains[c].at \in {"delay", "data"}
    <2>1. n \in 1..Latest
      BY <1>0 DEF Latest
    <2>2. fetches # << >>
      BY <1>0
    <2> QED BY <1>1, <2>1, <2>2 DEF Calm, FetchesInOrder
  <1>3. PICK c \in Chains : chains[c].at \in {"delay", "data"}
    BY <1>2
  <1>4. /\ Latest' = Latest /\ fetches' # << >> /\ LatestStatus = "pending"
        /\ fetches'[Latest'].window = cursor'
        /\ LatestStatus' = fetches'[n].status
        /\ fetches'[n].status \in {"done", "failed"}
        /\ fetches'[n].status = "done" => loaded' = fetches[n].window /\ eventIndex' = 0
        /\ \A k \in 1..Latest' : k # n => fetches'[k] = fetches[k]
    <2>1. ASSUME NEW st, fetches' = [fetches EXCEPT ![n].status = st]
          PROVE  /\ Len(fetches') = Len(fetches) /\ fetches'[n].status = st
                 /\ fetches'[n].window = fetches[n].window
                 /\ DOMAIN fetches' = DOMAIN fetches
                 /\ \A k \in 1..Len(fetches) : k # n => fetches'[k] = fetches[k]
      <3>1. fetches[n] \in FetchStates
        BY <1>0, ElementOfSeq
      <3> QED BY <1>0, <2>1, <3>1 DEF FetchStates
    <2>2. /\ Len(fetches') = Len(fetches) /\ fetches'[n].window = fetches[n].window
          /\ fetches'[n].status \in {"done", "failed"} /\ DOMAIN fetches' = DOMAIN fetches
          /\ fetches'[n].status = "done" => loaded' = fetches[n].window /\ eventIndex' = 0
          /\ \A k \in 1..Len(fetches) : k # n => fetches'[k] = fetches[k]
      BY <1>1, <2>1
    <2>3. fetches' # << >>
      BY <2>2
    <2> QED BY <1>1, <1>2, <2>2, <2>3 DEF Latest, LatestStatus
  <1>5. OthersAreGone'
    BY <1>1 DEF Calm, OthersAreGone, Chains
  <1>6. FetchesInOrder'
    <2>1. \A k \in 1..Latest' : fetches'[k].status # "pending"
      BY <1>2, <1>4 DEF Calm, FetchesInOrder
    <2> QED BY <1>4, <2>1 DEF FetchesInOrder
  <1>7. LatestStatus' = "done" => loaded' = cursor' /\ eventIndex' = 0
    BY <1>1, <1>2, <1>4
  <1>8. cursor \in Files /\ EventsIn[cursor] \in Nat \ {0}
    BY RowType DEF Calm, PlayedSoFar
  <1>9. LatestStatus' = "done" => ~AtEnd'
    BY <1>1, <1>7, <1>8 DEF AtEnd
  <1>10. \A d \in Chains' : ChainIsRight(d)'
    <2>1. ASSUME NEW d \in Chains PROVE ChainIsRight(d)'
      <3>1. d # c => chains[d].at = "gone"
        BY <1>3, TheChain DEF Calm
      <3>2. chains[d].at \in {"delay", "data", "gone"}
        BY <1>3, <3>1
      <3>3. chains[d].at \in {"delay", "data"} => chains[d].on = Latest
        BY DEF Calm, ChainIsRight
      <3> QED BY <1>1, <1>4, <1>9, <3>2, <3>3 DEF ChainIsRight
    <2> QED BY <1>1, <2>1 DEF Chains
  <1>11. PlayedSoFar'
    <2>1. played = Upto(from, cursor, 0) /\ 0 \in 0..EventsIn[cursor]
      BY <1>4, <1>8 DEF Calm, PlayedSoFar
    <2> QED BY <1>1, <1>7, <1>8, <2>1 DEF Calm, PlayedSoFar
  <1> QED BY <1>5, <1>6, <1>10, <1>11 DEF Calm


-----------------------------------------------------------------------------
(* A chain that does not find its file ends, and nothing else changes.     *)
LEMMA EndIsCalm ==
  ASSUME EventTypeOK, Calm, NEW c \in Chains, chains[c].at # "gone", chains' = Ended(c),
         LatestStatus # "pending",
         UNCHANGED <<eventProcessTimer, fetches, cursor, loaded, eventIndex, from, played>>
  PROVE  Calm'
  <1>1. Dead \in ChainStates /\ Dead.at = "gone"
    BY EmptySeq DEF Dead, Chain, ChainStates
  <1>2. /\ OthersAreGone' /\ Chains' = Chains
        /\ \A d \in Chains : chains'[d].at = "gone"
    BY <1>1, AloneMoves DEF Ended, Calm
  <1>3. \A d \in Chains' : ChainIsRight(d)'
    BY <1>2 DEF ChainIsRight
  <1>4. FetchesInOrder'
    <2>1. \A n \in 1..Latest : fetches[n].status # "pending"
      <3> SUFFICES ASSUME NEW n \in 1..Latest, fetches[n].status = "pending" PROVE FALSE
        OBVIOUS
      <3>1. n = Latest /\ fetches # << >>
        BY DEF Calm, FetchesInOrder, EventTypeOK, Latest
      <3> QED BY <3>1 DEF LatestStatus
    <2> QED BY <2>1 DEF Calm, FetchesInOrder, Latest
  <1>5. PlayedSoFar'
    BY DEF Calm, PlayedSoFar, LatestStatus, Latest
  <1> QED BY <1>2, <1>3, <1>4, <1>5 DEF Calm

(* The other steps of the chain that leave the fetches alone. *)
LEMMA StepIsCalm ==
  ASSUME EventTypeOK, Calm, NEW c \in Chains, chains[c].at # "gone",
         NEW s \in ChainStates, chains' = [chains EXCEPT ![c] = s],
         LatestStatus # "pending", UNCHANGED <<fetches, cursor, loaded, from>>,
         ChainIsRight(c)', PlayedSoFar'
  PROVE  Calm'
  <1>1. /\ OthersAreGone' /\ Chains' = Chains
        /\ \A d \in Chains : d # c => chains'[d].at = "gone"
    BY AloneMoves DEF Calm
  <1>2. \A d \in Chains' : ChainIsRight(d)'
    BY <1>1 DEF ChainIsRight
  <1>3. FetchesInOrder'
    <2>1. \A n \in 1..Latest : fetches[n].status # "pending"
      <3> SUFFICES ASSUME NEW n \in 1..Latest, fetches[n].status = "pending" PROVE FALSE
        OBVIOUS
      <3>1. n = Latest /\ fetches # << >>
        BY DEF Calm, FetchesInOrder, EventTypeOK, Latest
      <3> QED BY <3>1 DEF LatestStatus
    <2> QED BY <2>1 DEF Calm, FetchesInOrder, Latest
  <1> QED BY <1>1, <1>2, <1>3 DEF Calm

(* The chain goes on where its file was found. *)
LEMMA GoesOnDone ==
  ASSUME InitComesFirst, Calm, EventTypeOK, NEW c \in Chains, Goes(c)
  PROVE  /\ fetches[chains[c].on].status = LatestStatus /\ LatestStatus # "pending"
         /\ chains[c].at # "gone"
         /\ LatestStatus = "done" \/ LatestStatus = "failed"
  <1>1. fetches # << >> /\ fetches \in Seq(FetchStates)
    BY DEF InitComesFirst, Chains, EventTypeOK
  <1>2. Latest \in 1..Len(fetches)
    BY <1>1, EmptySeq DEF Latest
  <1>3. fetches[Latest].status \in {"pending", "done", "failed"}
    <2>1. fetches[Latest] \in FetchStates
      BY <1>1, <1>2, ElementOfSeq
    <2> QED BY <2>1 DEF FetchStates
  <1> QED BY <1>1, <1>3 DEF Goes, Calm, ChainIsRight, LatestStatus

(* The chain sets its timer when the file has arrived, or ends when it is  *)
(* missing; nothing else changes.                                          *)
LEMMA SetTimerIsCalm ==
  ASSUME InitComesFirst, EventTypeOK, Calm, NEW c \in Chains, SetTimer(c)
  PROVE  Calm'
  <1>1. /\ Goes(c) /\ UNCHANGED <<fetches, cursor, loaded, eventIndex, from, played>>
        /\ \/ fetches[chains[c].on].status = "failed" /\ chains' = Ended(c) /\ UNCHANGED eventProcessTimer
           \/ /\ fetches[chains[c].on].status # "failed" /\ eventProcessTimer' = c
              /\ chains' = Moved(c, "timer", IF AtEnd THEN cursor + 1 ELSE 0)
    BY DEF SetTimer, unchained, domainVars
  <1>2. /\ fetches[chains[c].on].status = LatestStatus /\ LatestStatus # "pending"
        /\ chains[c].at # "gone" /\ (LatestStatus = "done" \/ LatestStatus = "failed")
    BY <1>1, GoesOnDone
  <1>3. CASE LatestStatus = "failed"
    BY <1>1, <1>2, <1>3, EndIsCalm
  <1>4. CASE LatestStatus = "done"
    <2> DEFINE s == Chain("timer", IF AtEnd THEN cursor + 1 ELSE 0)
    <2>1. /\ s \in ChainStates /\ s.at = "timer" /\ s.on = (IF AtEnd THEN cursor + 1 ELSE 0)
      BY EmptySeq DEF Chain, ChainStates, EventTypeOK
    <2>2. chains' = [chains EXCEPT ![c] = s] /\ eventProcessTimer' = c
      BY <1>1, <1>2, <1>4 DEF Moved
    <2> HIDE DEF s
    <2>3. chains'[c] = s /\ LatestStatus' = "done" /\ (AtEnd' <=> AtEnd)
      BY <1>1, <1>4, <2>1, <2>2, OneMoves DEF LatestStatus, Latest, AtEnd
    <2>4. ChainIsRight(c)'
      BY <1>1, <2>1, <2>2, <2>3 DEF ChainIsRight
    <2>5. PlayedSoFar'
      BY <1>1 DEF Calm, PlayedSoFar, LatestStatus, Latest
    <2> QED BY <1>1, <1>2, <2>1, <2>2, <2>4, <2>5, StepIsCalm
  <1> QED BY <1>2, <1>3, <1>4

(* The chain executes the event of the loaded file that is next to play.   *)
LEMMA RunEventIsCalm ==
  ASSUME InitComesFirst, EventTypeOK, Calm, NEW c \in Chains, RunEvent(c)
  PROVE  Calm'
  <1> DEFINE s == [at |-> "running", on |-> 0, event |-> <<loaded, eventIndex + 1>>,
                   executable |-> latestExecutable]
  <1>1. /\ chains[c].at = "data" /\ Goes(c)
        /\ UNCHANGED <<eventProcessTimer, fetches, cursor, loaded, eventIndex, from, played>>
        /\ \/ fetches[chains[c].on].status = "failed" /\ chains' = Ended(c)
           \/ fetches[chains[c].on].status # "failed" /\ chains' = [chains EXCEPT ![c] = s]
    BY DEF RunEvent, unchained, domainVars
  <1>2. /\ fetches[chains[c].on].status = LatestStatus /\ LatestStatus # "pending"
        /\ chains[c].at # "gone" /\ (LatestStatus = "done" \/ LatestStatus = "failed")
    BY <1>1, GoesOnDone
  <1>3. CASE LatestStatus = "failed"
    BY <1>1, <1>2, <1>3, EndIsCalm
  <1>4. CASE LatestStatus = "done"
    <2>1. s \in ChainStates /\ s.at = "running" /\ s.event = <<loaded, eventIndex + 1>>
      <3>1. loaded \in Nat /\ eventIndex + 1 \in Nat /\ latestExecutable \in Texts \union {NoText}
        BY DEF EventTypeOK, Files
      <3>2. <<loaded, eventIndex + 1>> \in Seq(Nat)
        BY <3>1
      <3> QED BY <3>1, <3>2 DEF ChainStates
    <2> HIDE DEF s
    <2>2. chains' = [chains EXCEPT ![c] = s]
      BY <1>1, <1>2, <1>4
    <2>3. chains'[c] = s /\ LatestStatus' = "done" /\ (AtEnd' <=> AtEnd)
      BY <1>1, <1>4, <2>1, <2>2, OneMoves DEF LatestStatus, Latest, AtEnd
    <2>4. ~AtEnd
      BY <1>1, <1>4 DEF Calm, ChainIsRight
    <2>5. ChainIsRight(c)'
      BY <1>1, <2>1, <2>3, <2>4 DEF ChainIsRight
    <2>6. PlayedSoFar'
      BY <1>1 DEF Calm, PlayedSoFar, LatestStatus, Latest
    <2> QED BY <1>1, <1>2, <2>1, <2>2, <2>5, <2>6, StepIsCalm
  <1> QED BY <1>2, <1>3, <1>4

(* An event is played: the next one of the file, for the file is the one   *)
(* the playhead is in.                                                     *)
LEMMA EventEndsIsCalm ==
  ASSUME EventTypeOK, Calm, calm, NEW c \in Chains, EventEnds(c)
  PROVE  Calm'
  <1>1. /\ chains[c].at = "running" /\ UNCHANGED <<eventProcessTimer, fetches, cursor, loaded, from>>
        /\ \/ chains' = Ended(c) /\ UNCHANGED <<eventIndex, played>>
           \/ /\ eventIndex' = eventIndex + 1 /\ chains' = Moved(c, "delay", Latest)
              /\ played' = Append(played, chains[c].event)
    BY DEF EventEnds, unchained, domainVars
  <1>2. /\ LatestStatus = "done" /\ ~AtEnd /\ chains[c].event = <<loaded, eventIndex + 1>>
        /\ chains[c].at # "gone" /\ LatestStatus # "pending"
    BY <1>1 DEF Calm, ChainIsRight
  <1>3. CASE chains' = Ended(c) /\ UNCHANGED <<eventIndex, played>>
    BY <1>1, <1>2, <1>3, EndIsCalm
  <1>4. CASE /\ eventIndex' = eventIndex + 1 /\ chains' = Moved(c, "delay", Latest)
             /\ played' = Append(played, chains[c].event)
    <2> DEFINE s == Chain("delay", Latest)
    <2>1. s \in ChainStates /\ s.at = "delay" /\ s.on = Latest
      BY EmptySeq DEF Chain, ChainStates, EventTypeOK, Latest
    <2>2. chains' = [chains EXCEPT ![c] = s]
      BY <1>4 DEF Moved
    <2> HIDE DEF s
    <2>3. chains'[c] = s /\ LatestStatus' = "done" /\ Latest' = Latest
      BY <1>1, <1>2, <2>1, <2>2, OneMoves DEF LatestStatus, Latest
    <2>4. ChainIsRight(c)'
      BY <2>1, <2>3 DEF ChainIsRight
    <2>5. /\ from \in Files /\ cursor \in Files /\ from <= cursor /\ loaded = cursor
          /\ eventIndex \in 0..EventsIn[cursor] /\ played = Upto(from, cursor, eventIndex)
      BY <1>2 DEF EventTypeOK, Calm, PlayedSoFar
    <2>6. EventsIn[cursor] \in Nat /\ eventIndex < EventsIn[cursor]
      BY <1>2, <2>5, RowType DEF AtEnd
    <2>7. Append(Upto(from, cursor, eventIndex), <<cursor, eventIndex + 1>>)
            = Upto(from, cursor, eventIndex + 1)
      BY <2>5, <2>6, UptoNextEvent
    <2>8. PlayedSoFar'
      BY <1>1, <1>2, <1>4, <2>3, <2>5, <2>6, <2>7 DEF PlayedSoFar
    <2> QED BY <1>1, <1>2, <2>1, <2>2, <2>4, <2>8, StepIsCalm
  <1> QED BY <1>1, <1>3, <1>4

(* At the end of a file the next one is fetched: the timer was set for the *)
(* moment it may be read.                                                  *)
LEMMA TimerFiresIsCalm ==
  ASSUME EventTypeOK, Calm, NEW c \in Chains, TimerFires(c)
  PROVE  Calm'
  <1>0. /\ Latest \in Nat /\ cursor \in Nat /\ now \in Nat /\ now <= LastWindow /\ LastWindow \in Nat
        /\ from \in Files /\ from \in Nat
    BY PageAssumption DEF EventTypeOK, Latest, Files
  <1>1. /\ chains[c].at = "timer" /\ chains[c].on <= now
        /\ UNCHANGED <<loaded, eventIndex, eventProcessTimer, from, played>>
        /\ \/ /\ AtEnd /\ cursor' = cursor + 1
              /\ ~(cursor + 1 > now) => fetches' = Fetching(cursor') /\ chains' = Moved(c, "data", Latest + 1)
           \/ ~AtEnd /\ chains' = Moved(c, "data", Latest) /\ UNCHANGED <<cursor, fetches>>
    BY DEF TimerFires, unchained
  <1>2. /\ LatestStatus = "done" /\ (AtEnd => chains[c].on = cursor + 1)
        /\ chains[c].at # "gone" /\ LatestStatus # "pending"
    BY <1>1 DEF Calm, ChainIsRight
  <1>3. ASSUME NEW on \in Nat
        PROVE  /\ Chain("data", on) \in ChainStates /\ Chain("data", on).at = "data"
               /\ Chain("data", on).on = on
    BY EmptySeq DEF Chain, ChainStates
  <1>4. CASE ~AtEnd
    <2> DEFINE s == Chain("data", Latest)
    <2>1. s \in ChainStates /\ s.at = "data" /\ s.on = Latest
      BY <1>0, <1>3
    <2>2. chains' = [chains EXCEPT ![c] = s] /\ UNCHANGED <<cursor, fetches>>
      BY <1>1, <1>4 DEF Moved
    <2> HIDE DEF s
    <2>3. chains'[c] = s /\ Latest' = Latest /\ ~AtEnd'
      BY <1>1, <1>4, <2>1, <2>2, OneMoves DEF Latest, AtEnd
    <2>4. ChainIsRight(c)'
      BY <2>1, <2>3 DEF ChainIsRight
    <2>5. PlayedSoFar'
      BY <1>1, <2>2 DEF Calm, PlayedSoFar, LatestStatus, Latest
    <2> QED BY <1>1, <1>2, <2>1, <2>2, <2>4, <2>5, StepIsCalm
  <1>5. CASE AtEnd
    <2> DEFINE s == Chain("data", Latest + 1)
    <2>1. s \in ChainStates /\ s.at = "data" /\ s.on = Latest + 1
      BY <1>0, <1>3
    <2>2. cursor + 1 <= now /\ ~(cursor + 1 > now) /\ cursor + 1 \in Files
      BY <1>0, <1>1, <1>2, <1>5 DEF Files
    <2>3. /\ cursor' = cursor + 1 /\ fetches' = Fetching(cursor + 1)
          /\ chains' = [chains EXCEPT ![c] = s]
      BY <1>1, <1>5, <2>2 DEF Moved
    <2> HIDE DEF s
    <2>4. /\ OthersAreGone' /\ Chains' = Chains /\ chains'[c] = s
          /\ \A d \in Chains : d # c => chains[d].at = "gone" /\ chains'[d].at = "gone"
      BY <1>2, <2>1, <2>3, AloneMoves DEF Calm
    <2>5. /\ Latest' = Latest + 1 /\ LatestStatus' = "pending"
          /\ fetches'[Latest'].window = cursor + 1
          /\ \A n \in 1..Latest : fetches'[n] = fetches[n]
          /\ \A n \in 1..Latest' : n \in 1..Latest \/ n = Latest'
      BY <2>2, <2>3, OneMoreFetch
    <2>6. \A d \in Chains' : ChainIsRight(d)'
      BY <2>1, <2>4, <2>5 DEF ChainIsRight
    <2>7. FetchesInOrder'
      <3>1. \A n \in 1..Latest : fetches[n].status # "pending"
        <4> SUFFICES ASSUME NEW n \in 1..Latest, fetches[n].status = "pending" PROVE FALSE
          OBVIOUS
        <4>1. n = Latest /\ fetches # << >>
          BY DEF Calm, FetchesInOrder, EventTypeOK, Latest
        <4> QED BY <1>2, <4>1 DEF LatestStatus
      <3>2. \A n \in 1..Latest' : fetches'[n].status = "pending" => n = Latest'
        BY <2>5, <3>1
      <3>3. \E d \in Chains' : chains'[d].at \in {"delay", "data"}
        BY <2>1, <2>4
      <3> QED BY <2>3, <2>5, <3>2, <3>3 DEF FetchesInOrder
    <2>8. PlayedSoFar'
      <3>1. /\ cursor \in Files /\ from <= cursor /\ loaded = cursor
            /\ eventIndex \in 0..EventsIn[cursor] /\ played = Upto(from, cursor, eventIndex)
        BY <1>2 DEF Calm, PlayedSoFar
      <3>2. eventIndex = EventsIn[cursor]
        BY <1>5, <3>1, RowType DEF AtEnd
      <3>3. Upto(from, cursor, EventsIn[cursor]) = Upto(from, cursor + 1, 0)
        BY <1>0, <2>2, <3>1, UptoNextFile
      <3>4. from <= cursor + 1
        BY <1>0, <3>1
      <3> QED BY <1>1, <2>2, <2>3, <2>5, <3>1, <3>2, <3>3, <3>4 DEF PlayedSoFar
    <2> QED BY <2>4, <2>6, <2>7, <2>8 DEF Calm
  <1> QED BY <1>4, <1>5

-----------------------------------------------------------------------------
(* Steps keep the stream in order, and a stream that is not calm stays so. *)
LEMMA EventsInvKept ==
  ASSUME PageInv, EventsInv, [PageNext]_pageVars
  PROVE  EventsInv'
  <1>1. EventTypeOK' /\ InitComesFirst'
    BY EventTypesKept, InitStaysFirst DEF EventsInv
  <1>2. calm' => Calm'
    <2> SUFFICES ASSUME calm' PROVE Calm'
      OBVIOUS
    <2>1. calm
      BY DEF PageNext, WorkerStep, ChainStep, TypeText, MovePlayhead, ReceiveAnswer, ServeInit,
             ServeCompile, CompileTimer, ServePlayhead, FetchEnds, SetTimer, TimerFires, RunEvent,
             EventEnds, NextWindow, pageVars, historyVars, unchained
    <2>2. EventTypeOK /\ InitComesFirst /\ Calm
      BY <2>1 DEF EventsInv
    <2>3. CASE ServeInit
      BY <2>2, <2>3, InitIsCalm
    <2>4. CASE ServePlayhead
      BY <2>2, <2>4, MoveIsCalm
    <2>5. ASSUME NEW n \in DOMAIN fetches, FetchEnds(n) PROVE Calm'
      BY <2>2, <2>5, AnswerIsCalm
    <2>6. ASSUME NEW c \in Chains, ChainStep(c) PROVE Calm'
      BY <2>1, <2>2, <2>6, SetTimerIsCalm, TimerFiresIsCalm, RunEventIsCalm, EventEndsIsCalm
         DEF ChainStep
    <2>7. CASE UNCHANGED <<domainVars, chainVars, from, played>>
      BY <2>2, <2>7, CalmElsewhere DEF domainVars, chainVars
    <2>8. ASSUME NEW t \in Texts, TypeText(t) PROVE Calm'
      BY <2>7, <2>8 DEF TypeText, historyVars
    <2>9. ASSUME NEW w \in Files, MovePlayhead(w) PROVE Calm'
      BY <2>7, <2>9 DEF MovePlayhead, historyVars
    <2>10. CASE ReceiveAnswer \/ ServeCompile \/ CompileTimer \/ NextWindow \/ UNCHANGED pageVars
      BY <2>7, <2>10 DEF ReceiveAnswer, ServeCompile, CompileTimer, NextWindow, pageVars, historyVars
    <2> QED BY <2>3, <2>4, <2>5, <2>6, <2>8, <2>9, <2>10 DEF PageNext, WorkerStep
  <1> QED BY <1>1, <1>2 DEF EventsInv

(* The page begins with nothing fetched, nothing played and one message.   *)
LEMMA EventsInvInit == PageInit => EventsInv
  <1> SUFFICES ASSUME PageInit PROVE EventsInv
    OBVIOUS
  <1> DEFINE m == [type |-> "init", source |-> Sample, position |-> FirstWindow]
  <1>1. /\ toWorker = <<m>> /\ fetches = << >> /\ chains = << >> /\ latestExecutable = NoText
        /\ cursor = FirstWindow /\ loaded = FirstWindow /\ eventIndex = 0
        /\ now = FirstWindow /\ from = FirstWindow /\ played = << >>
    BY DEF PageInit
  <1>2. m.type = "init" /\ m.position = FirstWindow
    OBVIOUS
  <1> HIDE DEF m
  <1>3. FirstWindow \in Files /\ FirstWindow \in Nat /\ FirstWindow <= FirstWindow
    BY PageAssumption DEF Files
  <1>4. Len(toWorker) = 1 /\ toWorker[1] = m /\ toWorker # << >> /\ Head(toWorker) = m
    BY <1>1
  <1>5. \A i \in 1..Len(toWorker) : i = 1
    BY <1>4
  <1>6. EventTypeOK
    BY <1>1, <1>3, EmptySeq DEF EventTypeOK
  <1>7. InitComesFirst
    BY <1>1, <1>2, <1>4, <1>5 DEF InitComesFirst
  <1>8. Calm
    <2>1. Chains = {} /\ Latest = 0 /\ LatestStatus = "none"
      BY <1>1, EmptySeq DEF Chains, Latest, LatestStatus
    <2>2. Upto(FirstWindow, FirstWindow, 0) = << >>
      BY <1>3, NothingPlayed
    <2> QED BY <1>1, <1>3, <2>1, <2>2 DEF Calm, OthersAreGone, FetchesInOrder, PlayedSoFar
  <1> QED BY <1>6, <1>7, <1>8 DEF EventsInv

(* Whatever the files, as long as the playhead is moved only while the     *)
(* worker waits, events are played from the window it was moved to, in     *)
(* their order, over the ends of files, none left out and none twice.      *)
THEOREM EventsRight == PageSpec => []EventsInOrder
  <1>1. EventsInv => EventsInOrder
    <2> SUFFICES ASSUME EventsInv, calm PROVE Sequence!IsPrefix(played, EventsFrom(from))
      BY DEF EventsInOrder
    <2>1. from \in Files /\ cursor \in Files /\ from <= cursor
      BY DEF EventsInv, EventTypeOK, Calm, PlayedSoFar
    <2>2. PICK i \in 0..EventsIn[cursor] : played = Upto(from, cursor, i)
      <3>1. 0 \in 0..EventsIn[cursor]
        BY <2>1, RowType
      <3> QED BY <3>1 DEF EventsInv, Calm, PlayedSoFar
    <2> QED BY <2>1, <2>2, UptoBegins
  <1>2. PageInv /\ EventsInv /\ [PageNext]_pageVars => (PageInv /\ EventsInv)'
    BY PageInvKept, EventsInvKept
  <1> QED BY <1>1, <1>2, PageInvInit, EventsInvInit, PTL DEF PageSpec

=============================================================================
