----------------------------- MODULE StreamPage -----------------------------
(***************************************************************************)
(* The demonstration page: an editor whose text a web worker compiles and  *)
(* runs on a stream of recorded events (StreamPage.tsx, compile.worker.ts, *)
(* EventDomain.ts). The events are in one file for each ten minutes; files *)
(* and dates are numbered by these windows.                                *)
(*                                                                         *)
(* Page and worker exchange messages in order. Each call of                *)
(* queueNextEvent() begins a chain: wait for the file, set a timer,        *)
(* process an event, begin again. A compilation awaits nothing but what    *)
(* is ready, so it ends in the turn it begins in.                          *)
(***************************************************************************)
EXTENDS Integers, Sequences, FiniteSets
Sequence == INSTANCE SequencesExt

CONSTANTS
  Texts,         (* what the editor may hold                                 *)
  Sample,        (* the text it begins with                                  *)
  BrokenTexts,   (* those that do not compile                                *)
  LackingTexts,  (* those without a feature the page fetches                 *)
  NoText,
  FirstWindow,   (* the newest window when the page is opened                *)
  LastWindow,    (* the newest there will be                                 *)
  EventsIn,      (* how many events the file of each window has              *)
  NumTyped,      (* bounds: how often the text is edited,                    *)
  NumMoves       (*   and the playhead moved                                 *)

Files == 0..LastWindow

ASSUME PageAssumption ==
  /\ Sample \in Texts \ (BrokenTexts \union LackingTexts) /\ NoText \notin Texts
  /\ FirstWindow \in Files /\ LastWindow \in Nat
  /\ EventsIn \in [Files -> Nat \ {0}]
  /\ NumTyped \in Nat /\ NumMoves \in Nat

VARIABLES
  text,              (* of the editor: lastSourceRef.current                 *)
  compileStatus,     (* what the page shows of it                            *)
  toWorker, toPage,  (* messages under way                                   *)
  typed, moves,      (* how often the user has acted                         *)
  latestSource, latestExecutable,
  compileTimeout,    (* the timer of debounceCompile() is set                *)
  cursor,            (* the window of EventDomain.cursor                     *)
  loaded,            (* the window of EventDomain.events                     *)
  eventIndex,
  fetches,           (* the calls of fetchData(); dataPromise is the last's  *)
  chains,            (* the calls of queueNextEvent() by a message           *)
  eventProcessTimer, (* the chain that set it, 0 if none did                 *)
  now,               (* the newest window that is old enough to be read      *)
  from, played, calm (* history: see EventsInOrder                           *)

editorVars == <<text, compileStatus, typed, moves>>
compileVars == <<latestSource, latestExecutable, compileTimeout>>
domainVars == <<cursor, loaded, eventIndex, fetches>>
chainVars == <<chains, eventProcessTimer>>
historyVars == <<from, played, calm>>
pageVars == <<editorVars, toWorker, toPage, compileVars, domainVars, chainVars,
              now, historyVars>>

PageInit ==
  /\ text = Sample
  /\ compileStatus = "pending"
  /\ toWorker = <<[type |-> "init", source |-> Sample, position |-> FirstWindow]>>
  /\ toPage = << >>
  /\ typed = 0 /\ moves = 0
  /\ latestSource = NoText /\ latestExecutable = NoText
  /\ compileTimeout = FALSE
  /\ cursor = FirstWindow /\ loaded = FirstWindow /\ eventIndex = 0
  /\ fetches = << >>
  /\ chains = << >> /\ eventProcessTimer = 0
  /\ now = FirstWindow
  /\ from = FirstWindow /\ played = << >> /\ calm = TRUE

Chains == DOMAIN chains
Latest == Len(fetches)

(* Promises are continued before the next message, timer or answer. *)
Goes(c) ==
  /\ chains[c].at \in {"delay", "data"}
  /\ fetches[chains[c].on].status # "pending"
NextTurn == \A c \in Chains : ~Goes(c)

(* A chain waits for a fetch or a window; later it runs an event. *)
Chain(at, on) == [at |-> at, on |-> on, event |-> << >>, executable |-> NoText]
Dead == Chain("gone", 0)
Moved(c, at, on) == [chains EXCEPT ![c] = Chain(at, on)]
Ended(c) == [chains EXCEPT ![c] = Dead]

(* fetchData() for a window. *)
Fetching(w) == Append(fetches, [window |-> w, status |-> "pending"])

-----------------------------------------------------------------------------
(* The user types: the page asks for a compilation when it renders. *)
TypeText(t) ==
  /\ typed < NumTyped /\ t # text
  /\ typed' = typed + 1
  /\ text' = t
  /\ compileStatus' = "pending"
  /\ toWorker' = Append(toWorker, [type |-> "compile", source |-> t, position |-> 0])
  /\ UNCHANGED <<moves, toPage, compileVars, domainVars, chainVars, now, historyVars>>

(* A click on the playhead, which offers the windows up to now. *)
MovePlayhead(w) ==
  /\ moves < NumMoves /\ w <= now
  /\ moves' = moves + 1
  /\ toWorker' = Append(toWorker, [type |-> "playhead", source |-> NoText, position |-> w])
  /\ UNCHANGED <<text, compileStatus, typed, toPage, compileVars, domainVars, chainVars,
                 now, historyVars>>

(* Faulty variant of Concerns: any answer is taken for the text. *)
Concerns_Any(answer) == TRUE

Concerns(answer) == answer.source = text

(* The page ignores answers about a text that was edited since. *)
ReceiveAnswer ==
  /\ toPage # << >>
  /\ toPage' = Tail(toPage)
  /\ compileStatus' = IF Concerns(Head(toPage)) THEN Head(toPage).status ELSE compileStatus
  /\ UNCHANGED <<text, typed, moves, toWorker, compileVars, domainVars, chainVars,
                 now, historyVars>>

-----------------------------------------------------------------------------
(* triggerCompile(). *)
TriggerCompile(source) ==
  LET fine == source \notin BrokenTexts
  IN /\ latestExecutable' = IF fine THEN source ELSE latestExecutable
     /\ toPage' = Append(toPage,
          [source |-> source, status |-> IF fine THEN "success" ELSE "error"])

Receives(type) ==
  /\ NextTurn
  /\ toWorker # << >> /\ Head(toWorker).type = type
  /\ toWorker' = Tail(toWorker)

(* new EventDomain() fetches the first file. *)
ServeInit ==
  /\ Receives("init")
  /\ latestSource' = Head(toWorker).source
  /\ TriggerCompile(latestSource')
  /\ cursor' = Head(toWorker).position
  /\ fetches' = Fetching(cursor')
  /\ chains' = <<Chain("delay", 1)>>
  /\ UNCHANGED <<editorVars, compileTimeout, loaded, eventIndex, eventProcessTimer,
                 now, historyVars>>

(* debounceCompile(): compilePromise is never set. *)
ServeCompile ==
  /\ Receives("compile")
  /\ latestSource' = Head(toWorker).source
  /\ compileTimeout' = TRUE
  /\ UNCHANGED <<editorVars, toPage, latestExecutable, domainVars, chainVars, now, historyVars>>

CompileTimer ==
  /\ compileTimeout /\ NextTurn
  /\ compileTimeout' = FALSE
  /\ TriggerCompile(latestSource)
  /\ UNCHANGED <<editorVars, toWorker, latestSource, domainVars, chainVars, now, historyVars>>

(* Faulty variant of Cleared: the timer is left running. *)
Cleared_Not == chains

(* clearTimeout(eventProcessTimer): too late once it has fired. *)
Cleared ==
  [c \in Chains |->
     IF c = eventProcessTimer /\ chains[c].at = "timer"
       THEN Dead ELSE chains[c]]

(* setCursor() does nothing within the window it is in; queueNextEvent()   *)
(* begins a chain beside those the timer was not the last step of.         *)
ServePlayhead ==
  /\ Receives("playhead")
  /\ LET w == Head(toWorker).position
     IN IF w = cursor
          THEN UNCHANGED <<cursor, fetches, from, played>>
          ELSE /\ cursor' = w
               /\ fetches' = Fetching(w)
               /\ from' = w /\ played' = << >>
  /\ chains' = Append(Cleared, Chain("delay", Len(fetches')))
  /\ calm' = (calm /\ \A c \in Chains : chains[c].at \in {"timer", "gone"})
  /\ UNCHANGED <<editorVars, toPage, compileVars, loaded, eventIndex, eventProcessTimer, now>>

-----------------------------------------------------------------------------
(* The answer to a fetch, whichever file is wanted by now. *)
FetchEnds(n) ==
  /\ fetches[n].status = "pending" /\ NextTurn
  /\ \/ /\ fetches' = [fetches EXCEPT ![n].status = "done"]
        /\ loaded' = fetches[n].window
        /\ eventIndex' = 0
     \/ /\ fetches' = [fetches EXCEPT ![n].status = "failed"]
        /\ UNCHANGED <<loaded, eventIndex>>
  /\ UNCHANGED <<editorVars, toWorker, toPage, compileVars, cursor, chainVars, now, historyVars>>

AtEnd == eventIndex >= EventsIn[loaded]

(* What all steps of a chain leave alone. *)
unchained == <<editorVars, toWorker, toPage, compileVars, now, from, calm>>

(* getNextEventDelay(), and the timer: at the end of a file it is set for  *)
(* the moment the next one may be read. A file that failed ends the chain. *)
SetTimer(c) ==
  /\ chains[c].at = "delay" /\ Goes(c)
  /\ IF fetches[chains[c].on].status = "failed"
       THEN chains' = Ended(c) /\ UNCHANGED eventProcessTimer
       ELSE /\ chains' = Moved(c, "timer", IF AtEnd THEN cursor + 1 ELSE 0)
            /\ eventProcessTimer' = c
  /\ UNCHANGED <<unchained, domainVars, played>>

(* processNextEvent() up to its await. *)
TimerFires(c) ==
  /\ chains[c].at = "timer" /\ chains[c].on <= now /\ NextTurn
  /\ IF AtEnd
       THEN /\ cursor' = cursor + 1
            /\ IF cursor' > now
                 THEN chains' = Ended(c) /\ UNCHANGED fetches
                 ELSE fetches' = Fetching(cursor') /\ chains' = Moved(c, "data", Latest + 1)
       ELSE chains' = Moved(c, "data", Latest) /\ UNCHANGED <<cursor, fetches>>
  /\ UNCHANGED <<unchained, loaded, eventIndex, eventProcessTimer, played>>

(* runEvent() on the event, with the executable of that moment. *)
RunEvent(c) ==
  /\ chains[c].at = "data" /\ Goes(c)
  /\ chains' = IF fetches[chains[c].on].status = "failed" THEN Ended(c)
               ELSE [chains EXCEPT ![c] =
                       [at |-> "running", on |-> 0, event |-> <<loaded, eventIndex + 1>>,
                        executable |-> latestExecutable]]
  /\ UNCHANGED <<unchained, eventProcessTimer, domainVars, played>>

(* fetchValue() of a feature that is not there throws, and nobody catches. *)
EventEnds(c) ==
  /\ chains[c].at = "running" /\ NextTurn
  /\ IF chains[c].executable \in LackingTexts
       THEN chains' = Ended(c) /\ UNCHANGED <<eventIndex, played>>
       ELSE /\ eventIndex' = eventIndex + 1
            /\ chains' = Moved(c, "delay", Latest)
            /\ played' = IF calm THEN Append(played, chains[c].event) ELSE played
  /\ UNCHANGED <<unchained, eventProcessTimer, cursor, loaded, fetches>>

(* Time passes, and another window may be read. *)
NextWindow ==
  /\ now < LastWindow
  /\ now' = now + 1
  /\ UNCHANGED <<editorVars, toWorker, toPage, compileVars, domainVars, chainVars, historyVars>>

ChainStep(c) == SetTimer(c) \/ TimerFires(c) \/ RunEvent(c) \/ EventEnds(c)
WorkerStep ==
  \/ ServeInit \/ ServeCompile \/ CompileTimer \/ ServePlayhead
  \/ \E n \in DOMAIN fetches : FetchEnds(n)

PageNext ==
  \/ \E t \in Texts : TypeText(t)
  \/ \E w \in Files : MovePlayhead(w)
  \/ ReceiveAnswer \/ WorkerStep \/ NextWindow
  \/ \E c \in Chains : ChainStep(c)

-----------------------------------------------------------------------------
(* The worker has yet to compile the text of the editor. *)
StillToCompile ==
  \/ \E m \in 1..Len(toWorker) : toWorker[m].type \in {"init", "compile"}
  \/ compileTimeout

(* However edits, debounced compilations and their answers overlap, and    *)
(* also when the user goes back to an earlier text: what the page says of  *)
(* the text in the editor is true, the worker runs that text or is about   *)
(* to, and once nothing is under way both have come to the last text.      *)
StatusIsOfTheText ==
  /\ compileStatus = "error" => text \in BrokenTexts
  /\ compileStatus = "success" =>
       text \notin BrokenTexts /\ (latestExecutable = text \/ StillToCompile)
  /\ ~StillToCompile /\ toPage = << >> =>
       compileStatus # "pending" /\ (text \notin BrokenTexts => latestExecutable = text)

(* The events of all files from window w on. *)
EventsFrom(w) ==
  Sequence!FlattenSeq([k \in 1..(LastWindow - w + 1) |->
                [j \in 1..EventsIn[w + k - 1] |-> <<w + k - 1, j>>]])

(* As long as the playhead was moved only while the worker waited for its  *)
(* timer (calm), events are played one by one from the window it was moved *)
(* to, over the ends of files, none left out and none twice, whatever      *)
(* fails and is compiled meanwhile.                                        *)
EventsInOrder == calm => Sequence!IsPrefix(played, EventsFrom(from))

(* If moreover no file fails and no text lacks a feature, the stream comes *)
(* to the end of what there is.                                            *)
Undisturbed ==
  /\ calm /\ latestExecutable \notin LackingTexts
  /\ \A n \in DOMAIN fetches : fetches[n].status # "failed"
StreamGoesOn == []Undisturbed => <>[](played = EventsFrom(from) /\ compileStatus # "pending")

=============================================================================
