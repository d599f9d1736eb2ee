------------------------------ MODULE Screen -------------------------------
(***************************************************************************)
(* One browser at the table: the play controls of pages/Game.jsx and       *)
(* pages/GameMobile.jsx over the socket of hooks/useGame.js.  The server   *)
(* (Table.tla) broadcasts its state after every step; the tab shows the    *)
(* last state that arrived, offers the controls it derives from it, and    *)
(* sends an action for each click.  Both directions are FIFO channels, so  *)
(* a click may be about a table that has moved on.                         *)
(*                                                                         *)
(* A state message is the Game itself; the operators here read only the    *)
(* fields game_state() puts on the wire.                                   *)
(***************************************************************************)
EXTENDS Table

CONSTANTS
  Me,       \* the player of the tab
  MaxLag    \* messages under way in one direction, at most

ASSUME TabAssumption == Me \in Player /\ MaxLag \in Nat \ {0}

VARIABLES
  view,     \* what useGame holds: the state received last, Blank before
  inbox,    \* states on their way to the tab
  outbox,   \* actions on their way to the server
  asleep    \* this player's handler holds a validated turn or tiebreak
tabVars == <<view, inbox, outbox, asleep>>
allVars == <<game, hold, view, inbox, outbox, asleep>>

Control == {"initial_roll", "roll", "keep", "done", "tiebreak_roll"}

----------------------------------------------------------------------------
(* What the page derives from the state it holds.                          *)

\* INITIAL: no phase, nobody at the table.
Blank == NewGame("sec")

Here(v) == Me \in Seated(v)
IsMyTurn(v)  == CurrentPlayer(v) = Me
IsStarter(v) == v.round_starter_id = Me
MyTurn(v)    == v.turn[Me]
HasTurn(v)   == Here(v) /\ MyTurn(v) # NoTurn
Used(v)      == IF HasTurn(v) THEN Throws - MyTurn(v).rolls_left ELSE 0
HasRolled(v) == Used(v) > 0

CanRoll(v) == IsMyTurn(v) /\ HasTurn(v) /\ ~MyTurn(v).done /\ MyTurn(v).rolls_left > 0
CanDone(v) == IsMyTurn(v) /\ HasTurn(v) /\ ~MyTurn(v).done /\ Used(v) > 0
CanKeep(v) == IsMyTurn(v) /\ HasRolled(v) /\ ~MyTurn(v).done

\* InitialRollScreen: initial_roll is null until the roll is made.
MustOpen_Once(v) == Here(v) /\ v.initial_rolls[Me] = Unasked
MustOpen(v) == ~(Here(v) /\ v.initial_rolls[Me] \in Die)

\* TiebreakScreen
MustThrowAgain_Tied(v) == Me \in v.tiebreak.tied
MustThrowAgain(v) == Me \in v.tiebreak.tied /\ v.tiebreak.next_pid = Me

\* The returns of Game(): a full screen for each special phase, the piste else.
ScreenOf(v) ==
  CASE v.phase = "finished" -> "FinishedScreen"
    [] v.phase \in {"initial_roll", "waiting"} -> "InitialRollScreen"
    [] v.phase = "tiebreak" -> "TiebreakScreen"
    [] OTHER -> "piste"

Offered(v) ==
  CASE ScreenOf(v) = "InitialRollScreen" -> {c \in {"initial_roll"} : MustOpen(v)}
    [] ScreenOf(v) = "TiebreakScreen" -> {c \in {"tiebreak_roll"} : MustThrowAgain(v)}
    [] ScreenOf(v) = "piste" -> {c \in {"roll"} : CanRoll(v)} \cup {c \in {"keep"} : CanKeep(v)}
                                  \cup {c \in {"done"} : CanDone(v)}
    [] OTHER -> {}

\* FinishedScreen: sorted by tokens, the first one takes the trophy.
Winner_Richest(v) ==
  FirstSeated(v, {p \in Seated(v) : \A q \in Seated(v) : v.tokens[p] >= v.tokens[q]})
Winner(v) ==
  FirstSeated(v, {p \in Seated(v) : \A q \in Seated(v) : v.tokens[p] <= v.tokens[q]})

\* RhythmIndicator: free for a starter who has not thrown, used/cap otherwise.
IsSecActive(v) == v.bank_rule = "sec" /\ v.phase = "charge"
StarterStillFree(v) == IsStarter(v) /\ IsMyTurn(v) /\ ~HasRolled(v) /\ ~IsSecActive(v)
ThrowsShownLeft_OfThree(v) == StarterStillFree(v) \/ Used(v) < Throws
ThrowsShownLeft(v) == StarterStillFree(v) \/ Used(v) < v.max_throws

----------------------------------------------------------------------------
(* The server's answer to each message (_dispatch).                        *)

Accepts(g, c) ==
  CASE c = "initial_roll" -> g.phase = "initial_roll" /\ g.initial_rolls[Me] = Unrolled
    [] c = "roll" -> MayRoll(g, Me)
    [] c = "keep" -> /\ MayValidate(g, Me) /\ ~g.turn[Me].done
                     /\ Me = g.round_starter_id \/ RollsUsed(g, Me) < g.max_throws
    [] c = "done" -> MayValidate(g, Me)
    [] c = "tiebreak_roll" -> MayThrowTiebreak(g, Me)

\* The handler's effect; dice toggled by keep are not in the model.
Perform(c) ==
  \/ c = "initial_roll" /\ InitialRoll(Me)
  \/ c = "roll" /\ Roll(Me)
  \/ c = "keep" /\ UNCHANGED <<game, hold>>
  \/ c = "done" /\ Done(Me)
  \/ c = "tiebreak_roll" /\ TiebreakRoll(Me)

----------------------------------------------------------------------------

TabInit == Init /\ view = Blank /\ inbox = <<>> /\ outbox = <<>> /\ asleep = FALSE

\* manager.broadcast, once the tab is connected.
Broadcast ==
  /\ Len(inbox) < MaxLag
  /\ inbox' = IF Me \in Seated(game') \cup Members(game'.waiting_players)
              THEN Append(inbox, game') ELSE inbox

\* Everything the table does without a message of this tab.
Others ==
  /\ \/ Start \/ ResumePartie \/ UpdateRoomRules
     \/ \E p \in Player : Join(p)
     \/ \E p \in Player \ {Me} : InitialRoll(p) \/ Roll(p) \/ Done(p) \/ TiebreakRoll(p)
  /\ Broadcast /\ UNCHANGED <<view, outbox, asleep>>

\* A hold is over: the handler, perhaps of this tab, reads messages again.
Resume ==
  /\ ResumeTurn \/ ResumeTiebreak
  /\ Broadcast /\ asleep' = FALSE /\ UNCHANGED <<view, outbox>>

\* The endpoint of this player takes the next message; a guard of _dispatch
\* that fails returns without a word.
Receive ==
  /\ outbox # <<>> /\ ~asleep
  /\ outbox' = Tail(outbox) /\ UNCHANGED view
  /\ IF Accepts(game, Head(outbox))
     THEN /\ Perform(Head(outbox)) /\ Broadcast
          /\ asleep' = (hold = "none" /\ hold' # "none")
     ELSE UNCHANGED <<game, hold, inbox, asleep>>

\* ws.onmessage: STATE replaces every field.
Show ==
  /\ inbox # <<>>
  /\ view' = Head(inbox) /\ inbox' = Tail(inbox)
  /\ UNCHANGED <<game, hold, outbox, asleep>>

\* A control is clicked; nothing disables it until the next state arrives.
Click ==
  /\ Len(outbox) < MaxLag
  /\ \E c \in Offered(view) : outbox' = Append(outbox, c)
  /\ UNCHANGED <<game, hold, view, inbox, asleep>>

TabNext == Others \/ Resume \/ Receive \/ Show \/ Click
TabSpec == TabInit /\ [][TabNext]_allVars

----------------------------------------------------------------------------
(* Properties.                                                             *)

\* Everything that was sent has arrived and no handler sleeps.
UpToDate == inbox = <<>> /\ outbox = <<>> /\ hold = "none" /\ Here(game)

\* The channels carry states and actions of the table, within their bounds.
TabTypeOK ==
  /\ view \in Game /\ inbox \in Seq(Game) /\ outbox \in Seq(Control)
  /\ Len(inbox) <= MaxLag /\ Len(outbox) <= MaxLag
  /\ asleep \in BOOLEAN /\ (asleep => hold # "none")

\* A control on an up-to-date screen is one the server accepts: canRoll looks
\* at rolls_left alone and canDone at 3 - rolls_left, while the server compares
\* with max_throws and the bank rule; a reached cap always validates the turn.
\* (The page is opened from the waiting room once the opening rolls begin.)
OffersAreAccepted ==
  UpToDate /\ game.phase # "waiting" => \A c \in Offered(view) : Accepts(game, c)

\* Whoever the table waits for has a control on an up-to-date screen: no phase
\* and no score leaves the awaited player before a page without a button.
AwaitedIsOffered ==
  UpToDate => \A c \in {"initial_roll", "roll", "tiebreak_roll"} :
                Accepts(game, c) => c \in Offered(view)

\* The trophy of FinishedScreen never goes to the player who lost the partie,
\* though the screen sorts by the chips of the last match and not by points.
TrophyIsEarned ==
  view.phase = "finished" => Winner(view) # view.partie_loser_id

\* The rhythm a player reads off RhythmIndicator is the one the server keeps: a
\* throw ends the turn by itself exactly when the state sent after it shows no
\* throw left, for the starter and for who follows, under both bank rules.
ThrowsOnce == HasTurn(game) /\ HasTurn(game') /\ Used(game') = Used(game) + 1
RhythmShownIsKept ==
  [][ThrowsOnce => (ThrowsShownLeft(game') <=> ~MyTurn(game').done)]_allVars
=============================================================================
