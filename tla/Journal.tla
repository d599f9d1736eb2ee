------------------------------ MODULE Journal ------------------------------
(***************************************************************************)
(* How the page reads the journal the server sends: the effects of         *)
(* pages/Game.jsx that look for news in state.log_events, the opponent     *)
(* toast of pages/GameMobile.jsx, and the cards of CommentaryTicker.jsx.   *)
(* Operators only; Client.tla runs them.                                   *)
(*                                                                         *)
(* An event is its key, the name it is about and a count.  "n" numbers the *)
(* events of a room; the page never reads it, the properties do.           *)
(***************************************************************************)
EXTENDS Integers, Sequences, SequencesExt, FiniteSets

CONSTANTS
  Player,     \* names at the table
  Nobody,     \* null, where a player or an event is expected
  Window,     \* log_events[-40:]
  MaxCards    \* MAX_CARDS: 10

Key == {"turn", "afk_turn", "match_lost", "takeover", "handback", "return", "evicted"}
Event == [key : Key, name : Player, count : 0..2, n : Nat]

ASSUME NobodyAssumption == Nobody \notin Player /\ Nobody \notin Event
ASSUME JournalAssumption == Window \in Nat \ {0} /\ MaxCards \in Nat \ {0}

\* game_state() sends the end of the journal.
Recent(log) == SubSeq(log, Len(log) - Window + 1, Len(log))
Sent(log) == IF Len(log) > Window THEN Recent(log) ELSE log

Places(log, keys) == {i \in DOMAIN log : log[i].key \in keys}
Newest(log, keys) ==
  IF Places(log, keys) = {} THEN Nobody
  ELSE log[CHOOSE i \in Places(log, keys) : \A j \in Places(log, keys) : j <= i]

----------------------------------------------------------------------------
(* The banner of a lost match: shown when the newest loss is not the one   *)
(* whose fingerprint was kept.                                             *)

Fingerprint_Name(e) == <<e.name>>
Fingerprint(e) == <<e.name, e.count>>
NoBanner == [shown |-> Nobody, fp |-> <<>>]

Announce(banner, log) ==
  LET e == Newest(log, {"match_lost"})
  IN  IF e = Nobody \/ (e # Nobody /\ Fingerprint(e) = banner.fp) THEN banner
      ELSE [shown |-> e, fp |-> Fingerprint(e)]

(* The toast of one's own turn: shown when the journal holds more of them  *)
(* than ever before.                                                       *)

OwnTurns(log, me) ==
  {i \in Places(log, {"turn", "afk_turn"}) : log[i].name = me}
NoToast == [shown |-> Nobody, seen |-> 0]

ToastOwnTurn(own, log, me) ==
  IF Cardinality(OwnTurns(log, me)) > own.seen
  THEN [shown |-> log[CHOOSE i \in OwnTurns(log, me) : \A j \in OwnTurns(log, me) : j <= i],
        seen |-> Cardinality(OwnTurns(log, me))]
  ELSE own

(* useOpponentPlayToast: the effect runs for every state, because "plays"  *)
(* is a new array each time, and first clears the timer of its last run.   *)

Quiet == [shown |-> Nobody, prev |-> {}, timer |-> FALSE]

ToastOpponent(opp, plays, me) ==
  LET fresh == {i \in DOMAIN plays : plays[i] # me /\ plays[i] \notin opp.prev}
  IN  IF plays = <<>> THEN [opp EXCEPT !.prev = {}, !.timer = FALSE]
      ELSE IF fresh = {} THEN [opp EXCEPT !.prev = ToSet(plays), !.timer = FALSE]
      ELSE [shown |-> plays[CHOOSE i \in fresh : \A j \in fresh : j <= i],
            prev |-> ToSet(plays), timer |-> TRUE]

----------------------------------------------------------------------------
(* The cards of the ticker, newest first: runs of one headline about one   *)
(* name collapse, and an absence is told once however often the bot plays. *)

Headline == {"match_lost", "takeover", "handback", "return"}

\* What ends an absence: the bot's turn taken back in its grace, or the first
\* action of a player whose bot turn was committed.
BackKey == {"handback", "return"}

\* The pre-pass: a takeover of a player whose absence is already open.
Repeated_NoReturn(log) ==
  {i \in Places(log, {"takeover"}) :
     \E j \in 1..(i - 1) :
       /\ log[j].key = "takeover" /\ log[j].name = log[i].name
       /\ ~\E k \in j..i : log[k].key = "handback" /\ log[k].name = log[i].name}
Repeated(log) ==
  {i \in Places(log, {"takeover"}) :
     \E j \in 1..(i - 1) :
       /\ log[j].key = "takeover" /\ log[j].name = log[i].name
       /\ ~\E k \in j..i : log[k].key \in BackKey /\ log[k].name = log[i].name}

DedupKey(e) == <<e.key, e.name>>
Card(e) == [event |-> e, repeat |-> 1]

AddCard(cards, e) ==
  IF Len(cards) >= MaxCards THEN cards
  ELSE IF cards # <<>> /\ DedupKey(Last(cards).event) = DedupKey(e)
       THEN [cards EXCEPT ![Len(cards)].repeat = @ + 1]
       ELSE Append(cards, Card(e))

Headlines(log) ==
  LET told == {i \in Places(log, Headline) : i \notin Repeated(log)}
  IN  [k \in 1..Cardinality(told) |->
         log[CHOOSE i \in told : Cardinality({j \in told : j > i}) = k - 1]]

Cards(log) == FoldLeft(AddCard, <<>>, Headlines(log))
=============================================================================
