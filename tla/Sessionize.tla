------------------------------ MODULE Sessionize ------------------------------
(***************************************************************************)
(* One key of sessionize(): the script redis runs for it (sessionizeLua),  *)
(* its expiry, and the session an event is told it belongs to.             *)
(*                                                                         *)
(* A session begins with the event that takes the last token; events that  *)
(* find the bucket empty belong to it, and each of them starts the refill  *)
(* time anew. Unlike rateLimitFetch the script takes the time of a late    *)
(* event as it is.                                                         *)
(***************************************************************************)
EXTENDS TokenBucket

VARIABLES
  kept,     (* the value of the key, or NoSession                            *)
  keptTill, (* when the key is dropped                                       *)
  told,     (* history: the last event and the session it was told           *)
  chain,    (* history: the first event of those that followed one another   *)
            (*   within RefillTime, up to the last one                       *)
  prev,     (* history: the time of the event before the last one            *)
  prompt    (* history: no event was late                                    *)

sessVars == <<args, kept, keptTill, told, chain, prev, prompt>>

NoSession == [start |-> Never, tokens |-> Never, lastRefill |-> Never]

(* A nil session, and the session of an event the script fails for. *)
Nil == Never

SessInit ==
  /\ args \in Arguments
  /\ kept = NoSession
  /\ keptTill = Never
  /\ told = [at |-> Never, session |-> Nil]
  /\ chain = Never
  /\ prev = Never
  /\ prompt = TRUE

-----------------------------------------------------------------------------
(* What the script reads: nothing is a full bucket without a session. *)
Read(at) ==
  IF kept = NoSession THEN [start |-> Nil, tokens |-> MaxAmount, lastRefill |-> at] ELSE kept

(* The refills that are due are added if there are fewer tokens than asked *)
(* for; late events undo refills.                                          *)
WithRefills(take, at) ==
  LET s == Read(at)
      refills == Refills(s.lastRefill, at)
  IN IF s.tokens >= take THEN s
     ELSE [s EXCEPT !.lastRefill = @ + refills * RefillTime,
                    !.tokens = Lesser(MaxAmount, @ + refills * RefillAmount)]

(* Enough tokens begin a session. *)
Begun(s, take, at) == IF s.tokens >= take THEN [s EXCEPT !.start = at] ELSE s

(* Faulty variant of Extended: the session is not extended.                *)
Extended_Not(s, take, at) ==
  IF s.tokens = 0 THEN s
  ELSE [s EXCEPT !.tokens = IF @ > take THEN @ - take ELSE 0]

(* An empty bucket starts its refill time anew; any other gives tokens.    *)
Extended(s, take, at) ==
  IF s.tokens = 0 THEN [s EXCEPT !.lastRefill = at]
  ELSE [s EXCEPT !.tokens = IF @ > take THEN @ - take ELSE 0]

(* The history of an event: whether it followed the last one in time. *)
Note(at, session) ==
  /\ told' = [at |-> at, session |-> session]
  /\ prev' = told.at
  /\ chain' = IF told.at # Never /\ at - told.at < RefillTime THEN chain ELSE at
  /\ prompt' = (prompt /\ at = clock)

(* error_reply for a call that takes nothing (WHERE does not hold, or a    *)
(* dry run), and an error of struct.pack for more than the bucket holds:   *)
(* the function fails, which makes the session null.                       *)
SessionFails(take, at) ==
  /\ take = 0 \/ Begun(WithRefills(take, at), take, at).start = Nil
  /\ UNCHANGED <<clock, sessVars>>

Sessionize(take, at) ==
  LET s == Begun(WithRefills(take, at), take, at)
  IN /\ take > 0 /\ s.start # Nil
     /\ kept' = Extended(s, take, at)
     /\ keptTill' = clock + Lifetime(kept'.tokens)
     /\ Note(at, IF s.tokens = 0 THEN s.start ELSE Nil)
     /\ UNCHANGED <<clock, args>>

SessTick ==
  /\ PassTime
  /\ IF Dropped(keptTill)
       THEN kept' = NoSession /\ keptTill' = Never
       ELSE UNCHANGED <<kept, keptTill>>
  /\ UNCHANGED <<args, told, chain, prev, prompt>>

SessNext ==
  \/ SessTick
  \/ \E take \in Takes, at \in EventTimes : SessionFails(take, at) \/ Sessionize(take, at)

-----------------------------------------------------------------------------
(* The types of the variables; a late event may take the time of the last  *)
(* refill below zero.                                                      *)
SessTypeOK ==
  /\ args \in Arguments
  /\ kept \in [start : 0..clock, tokens : 0..MaxAmount, lastRefill : Int] \union {NoSession}
  /\ kept = NoSession <=> keptTill = Never
  /\ told \in [at : -1..clock, session : -1..clock]
  /\ chain \in -1..clock /\ prev \in -1..clock
  /\ prompt \in BOOLEAN

(* As session.md:22-30 describes it for a bucket of one token: events that *)
(* follow one another within the time belong to the session that began     *)
(* with the first of them, and after a longer gap a new session begins,    *)
(* though the script counts whole refill times from the last refill and    *)
(* redis drops the key by its own clock. It holds as long as no event is   *)
(* late. (The event that begins a session is told none.)                   *)
SessionIsTheChain ==
  MaxAmount = 1 /\ prompt /\ told.at # Never =>
    /\ kept # NoSession => kept.start = chain
    /\ told.session # Nil => told.session = chain
    /\ told.session = Nil /\ prev # Never => told.at - prev >= RefillTime

(* session.md:30: "If the session does exist, then we will extend the      *)
(* current session's window": an event less than RefillTime before or      *)
(* after the one before it finds the session that one began or extended.   *)
SessionExtended ==
  MaxAmount = 1 /\ prev # Never /\ told.at - prev \in (1 - RefillTime)..(RefillTime - 1) =>
    told.session # Nil

=============================================================================
