------------------------------- MODULE Table -------------------------------
(***************************************************************************)
(* A table whose players stay seated and act from one socket each:         *)
(* newcomers may join at any time, nobody leaves, nobody is away.  This is *)
(* the setting the rules of app/game/logic.py are written for; Room.tla    *)
(* adds departures, sockets, timers and the bot.  A step is what a handler *)
(* does between two awaits.                                                *)
(***************************************************************************)
EXTENDS Rules

VARIABLES
  game,     \* the Game object
  hold      \* the handler asleep in _validate_hold: "none", "turn", "tiebreak"
vars == <<game, hold>>

Init == \E rule \in {"sec", "free"} : game = NewGame(rule) /\ hold = "none"

Join(p) ==
  /\ MayJoin(game, p) /\ game' = JoinGame(game, p)
  /\ UNCHANGED hold

Start ==
  /\ game.phase = "waiting" /\ Len(game.players) >= 2
  /\ game' = StartInitialRoll(game)
  /\ UNCHANGED hold

InitialRoll(p) ==
  /\ game.phase = "initial_roll" /\ game.initial_rolls[p] = Unrolled
  /\ \E d \in Die : game' \in RollInitial(game, p, d)
  /\ UNCHANGED hold

Roll(p) ==
  /\ MayRoll(game, p)
  /\ \E r \in Rank : game' = Throw(game, p, r)
  /\ hold' = IF game'.turn[p].done THEN "turn" ELSE hold

\* The handler does not test turn.done: the socket that validated is asleep.
Done(p) ==
  /\ hold = "none" /\ MayValidate(game, p)
  /\ game' = Validate(game, p)
  /\ hold' = "turn"

ResumeTurn ==
  /\ hold = "turn" /\ game' = EndTurn(game) /\ hold' = "none"

TiebreakRoll(p) ==
  /\ MayThrowTiebreak(game, p)
  /\ \E r \in Rank : game' = ThrowTiebreak(game, p, r)
  /\ hold' = IF game'.tiebreak.next_pid = NoPlayer THEN "tiebreak" ELSE hold

ResumeTiebreak ==
  /\ hold = "tiebreak" /\ game' = ResolveTiebreak(game) /\ hold' = "none"

\* persist_completed_partie returns.
ResumePartie ==
  /\ game.partie_loser_id # NoPlayer
  /\ game' = StartNewPartie(game)
  /\ UNCHANGED hold

UpdateRoomRules ==
  /\ game.host_player_id # NoPlayer
  /\ \E rule \in RuleChoices : game' = QueueRule(game, rule)
  /\ UNCHANGED hold

Next ==
  \/ Start \/ ResumeTurn \/ ResumeTiebreak \/ ResumePartie \/ UpdateRoomRules
  \/ \E p \in Player : Join(p) \/ InitialRoll(p) \/ Roll(p) \/ Done(p) \/ TiebreakRoll(p)

Spec == Init /\ [][Next]_vars

----------------------------------------------------------------------------
(* Properties.                                                             *)

TypeOK == game \in Game /\ hold \in {"none", "turn", "tiebreak"}

\* A turn that began has the rank of its last throw: a validated turn can
\* always be compared (_resolve_round reads turn.rank and turn.fiches).
TurnsHaveRanks == RanksKnown(game)

\* While a match is played, the bank and the seated players hold the Chips of
\* the match between them: TakeFromBank, GiveToLoser, the match and partie
\* resets and the admission of newcomers neither make nor lose a chip.
ChipsConserved == ConservesChips(game)

\* The table charges exactly as long as the bank has chips, through tiebreaks
\* and resets (the phase assignments of _resolve_round and _resolve_tiebreak).
PoolMatchesPhase == PoolFitsPhase(game)

\* The starter of a cycle is an active player and throws before the others
\* do; once it validated, nobody makes more throws than it did ("others must
\* match in equal or fewer throws", README): max_throws_this_round, the index
\* and the starter are kept together by every path into a cycle.
StarterSetsTheRhythm == StarterLeads(game)

\* A match in play is between at least two active players, and in décharge
\* each of them has chips to lose: sitting out (SitOut) never leaves one
\* player alone with a match that did not end.
DuelAlive == DuelGoesOn(game)

\* Whenever no handler sleeps, the player the table waits for can act: the
\* index never rests on a turn already played, and a tiebreak's hand is with
\* a tied player who has not thrown.
HandIsLive ==
  hold = "none" =>
    /\ game.phase \in {"charge", "decharge"} =>
         LET c == CurrentPlayer(game) IN c # NoPlayer /\ MayRoll(game, c)
    /\ game.phase = "tiebreak" =>
         LET n == game.tiebreak.next_pid
         IN  n \in game.tiebreak.tied \cap Seated(game) /\ game.tiebreak.throws[n] = 0

\* Scores stay below their limits between two settlements: two lost matches
\* are always turned into a point and the last point always ends the partie.
ScoresBelowLimits == ScoresFit(game)

\* Who takes chips opens the next cycle (or has just lost the partie).
LoserOpensNextCycle ==
  [][\A p \in Player :
       game'.tokens[p] > game.tokens[p] =>
         \/ game'.phase = "finished" /\ game'.partie_loser_id = p
         \/ game'.round_starter_id = p /\ CurrentPlayer(game') = p]_vars

\* A queued rule never changes a match under way: bank_rule changes only as a
\* match with a full bank begins ("live play isn't disrupted mid-cycle",
\* logic.py).
RulesChangeBetweenMatches ==
  [][game'.bank_rule # game.bank_rule =>
       /\ game'.pool = Chips /\ game'.phase = "charge"
       /\ \A p \in Seated(game') : game'.turn[p] = NewTurn]_vars

\* The engine implements the abstract chip and score rules.
MatchRules == INSTANCE Match WITH pool <- game.pool, tokens <- game.tokens,
                losses <- game.match_losses, points <- game.round_points
ImplementsMatch == MatchRules!Spec

----------------------------------------------------------------------------
(* What the documents say of the rules and the engine does not do.         *)

PartieStarts == game.partie_loser_id # NoPlayer /\ game'.partie_loser_id = NoPlayer

\* ROADMAP, G45: "When the current partie resolves and a new partie starts, the
\* rhythm cap moves to 1".  The path that ends a partie skips the queued rules.
QueuedRulesReachNextPartie ==
  [][PartieStarts => game'.pending_rule = "none"]_vars
=============================================================================
