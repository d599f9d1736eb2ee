---------------------------- MODULE TableProofs -----------------------------
(***************************************************************************)
(* Theorems of Table.tla, for any number of players, chips, throws and     *)
(* combinations: every property its run checks, and that the engine        *)
(* implements Match.tla.                                                   *)
(*                                                                         *)
(* The invariant is built up in layers, each kept by every step of the     *)
(* table: TypeInv (the game is well-formed), ScoreInv (bank, phase and     *)
(* scores agree), EvenInv (the chips of a match add up and are in the      *)
(* hands of those who play it) and TurnInv (how far the cycle is). The     *)
(* lemmas on the engine that a step rests on are in the modules this one   *)
(* extends.                                                                *)
(***************************************************************************)
EXTENDS Table, CycleProofs

----------------------------------------------------------------------------
(* The game is well-formed.                                                *)

\* TypeOK is not inductive by itself: to settle a cycle the engine reads the
\* rank of every turn that was validated, so each must have one.
TypeInv == TypeOK /\ TurnsHaveRanks

\* A new room is well-formed.
LEMMA InitType ==
  ASSUME Init
  PROVE  TypeInv
  BY NewGameType DEF Init, TypeInv, TypeOK, TurnsHaveRanks, Typed

\* Every step keeps the room well-formed.
LEMMA NextType ==
  ASSUME TypeInv, [Next]_vars
  PROVE  TypeInv'
<1> USE DEF TypeInv, TypeOK, TurnsHaveRanks
<1>1. Typed(game)
  BY DEF Typed
<1>2. SUFFICES Typed(game') /\ hold' \in {"none", "turn", "tiebreak"}
  BY DEF Typed
<1>3. CASE UNCHANGED vars
  BY <1>1, <1>3 DEF vars
<1>4. CASE Start
  BY <1>1, <1>4, StartInitialRollType DEF Start
<1>5. CASE ResumeTurn
  BY <1>1, <1>5, EndTurnType DEF ResumeTurn
<1>6. CASE ResumeTiebreak
  BY <1>1, <1>6, ResolveTiebreakType DEF ResumeTiebreak
<1>7. CASE ResumePartie
  BY <1>1, <1>7, StartNewPartieType DEF ResumePartie
<1>8. CASE UpdateRoomRules
  BY <1>1, <1>8, QueueRuleType DEF UpdateRoomRules
<1>9. ASSUME NEW p \in Player, Join(p)
      PROVE  Typed(game') /\ hold' \in {"none", "turn", "tiebreak"}
  BY <1>1, <1>9, JoinGameType DEF Join
<1>10. ASSUME NEW p \in Player, InitialRoll(p)
       PROVE  Typed(game') /\ hold' \in {"none", "turn", "tiebreak"}
  BY <1>1, <1>10, RollInitialType DEF InitialRoll
<1>11. ASSUME NEW p \in Player, Roll(p)
       PROVE  Typed(game') /\ hold' \in {"none", "turn", "tiebreak"}
  BY <1>1, <1>11, ThrowType DEF Roll
<1>12. ASSUME NEW p \in Player, Done(p)
       PROVE  Typed(game') /\ hold' \in {"none", "turn", "tiebreak"}
  BY <1>1, <1>12, ValidateType DEF Done
<1>13. ASSUME NEW p \in Player, TiebreakRoll(p)
       PROVE  Typed(game') /\ hold' \in {"none", "turn", "tiebreak"}
  BY <1>1, <1>13, ThrowTiebreakType DEF TiebreakRoll
<1> QED
  BY <1>3, <1>4, <1>5, <1>6, <1>7, <1>8, <1>9, <1>10, <1>11, <1>12, <1>13 DEF Next

\* Spec keeps the invariant.
LEMMA TypeInvariance == Spec => []TypeInv
<1>1. Init => TypeInv
  BY InitType
<1>2. TypeInv /\ [Next]_vars => TypeInv'
  BY NextType
<1> QED BY <1>1, <1>2, PTL DEF Spec

\* The room stays well-formed whatever the number of players, chips, throws
\* and combinations: no function of the engine leaves a negative bank, a hand
\* nobody holds or a starter who is no player.
THEOREM TypeCorrect == Spec => []TypeOK
<1>1. TypeInv => TypeOK
  BY DEF TypeInv
<1> QED BY <1>1, TypeInvariance, PTL

\* Every turn that was thrown has a rank: _resolve_round, which compares the
\* turns that were validated, never meets one it cannot compare.
THEOREM ValidatedTurnsCompare == Spec => []TurnsHaveRanks
<1>1. TypeInv => TurnsHaveRanks
  BY DEF TypeInv
<1> QED BY <1>1, TypeInvariance, PTL

----------------------------------------------------------------------------
(* Bank, phase and scores.                                                 *)

\* The handler asleep went to sleep in the phase the table is still in.
HoldFits ==
  /\ hold = "turn" => game.phase \in {"charge", "decharge"}
  /\ hold = "tiebreak" => game.phase = "tiebreak"

ScoreInv == TypeInv /\ Sound(game) /\ HoldFits

\* A new room has a full bank and no scores.
LEMMA InitScore ==
  ASSUME Init
  PROVE  ScoreInv
<1>1. PICK rule \in {"sec", "free"} : game = NewGame(rule) /\ hold = "none"
  BY DEF Init
<1>2. /\ game.phase = "waiting" /\ game.partie_loser_id = NoPlayer
      /\ \A p \in Player : game.match_losses[p] = 0 /\ game.round_points[p] = 0
  BY <1>1 DEF NewGame
<1>3. Sound(game) /\ HoldFits
  BY <1>1, <1>2, PlayerAssumption, BoundsAssumption
     DEF Sound, PoolFitsPhase, InPlay, ScoresFit, HoldFits
<1> QED BY <1>3, InitType DEF ScoreInv

\* Every step of the table keeps bank, scores and rules in order.
LEMMA NextScore ==
  ASSUME ScoreInv, [Next]_vars
  PROVE  Keeps(game, game') /\ HoldFits'
<1>1. /\ game \in Game /\ Typed(game) /\ Sound(game) /\ HoldFits
      /\ hold \in {"none", "turn", "tiebreak"}
  BY DEF ScoreInv, TypeInv, TypeOK, TurnsHaveRanks, Typed
<1>2. ASSUME SameTable(game, game'), hold' = hold
      PROVE  Keeps(game, game') /\ HoldFits'
  BY <1>1, <1>2, SameTableIsSound DEF SameTable, HoldFits
<1>3. CASE UNCHANGED vars
  <2>1. SameTable(game, game') /\ hold' = hold
    BY <1>3 DEF vars, SameTable, SameScores
  <2> QED BY <1>2, <2>1
<1>4. CASE Start
  <2> DEFINE rolls == [p \in Player |-> IF p \in Seated(game) THEN Unrolled ELSE Unasked]
  <2>1. game' = [game EXCEPT !.phase = "initial_roll", !.initial_rolls = rolls]
    BY <1>4 DEF Start, StartInitialRoll
  <2> HIDE DEF rolls
  <2>2. SameScores(game, game') /\ game'.phase = "initial_roll"
    BY <1>1, <2>1 DEF SameScores, Game
  <2>3. hold = "none" /\ hold' = "none" /\ game.partie_loser_id = NoPlayer
    BY <1>1, <1>4 DEF Start, HoldFits, Sound
  <2>4. Keeps(game, game')
    BY <1>1, <2>2, <2>3 DEF Keeps, Sound, SameScores, RuleWaits, PoolFitsPhase, InPlay, ScoresFit
  <2> QED BY <2>3, <2>4 DEF HoldFits
<1>5. CASE ResumeTurn
  <2>1. InCycle(game)
    BY <1>1, <1>5 DEF ResumeTurn, HoldFits, InCycle
  <2> QED BY <1>5, <2>1, EndTurnSound DEF ResumeTurn, HoldFits
<1>6. CASE ResumeTiebreak
  <2>1. game.phase = "tiebreak"
    BY <1>1, <1>6 DEF ResumeTiebreak, HoldFits
  <2> QED BY <1>1, <1>6, <2>1, ResolveTiebreakSound DEF ResumeTiebreak, HoldFits
<1>7. CASE ResumePartie
  <2>1. hold = "none" /\ hold' = "none"
    BY <1>1, <1>7 DEF ResumePartie, HoldFits, Sound
  <2> QED BY <1>1, <1>7, <2>1, StartNewPartieSound DEF ResumePartie, HoldFits
<1>8. CASE UpdateRoomRules
  BY <1>1, <1>2, <1>8, JoinGameFields DEF UpdateRoomRules
<1>9. ASSUME NEW p \in Player, Join(p)
      PROVE  Keeps(game, game') /\ HoldFits'
  BY <1>1, <1>2, <1>9, JoinGameFields DEF Join
<1>10. ASSUME NEW p \in Player, InitialRoll(p)
       PROVE  Keeps(game, game') /\ HoldFits'
  <2>1. hold = "none" /\ hold' = "none"
    BY <1>1, <1>10 DEF InitialRoll, HoldFits
  <2> QED BY <1>1, <1>10, <2>1, RollInitialSound DEF InitialRoll, HoldFits
<1>11. ASSUME NEW p \in Player, Roll(p)
       PROVE  Keeps(game, game') /\ HoldFits'
  <2>1. SameTable(game, game') /\ hold' \in {"turn", hold}
    BY <1>1, <1>11, ThrowFields DEF Roll
  <2>2. game.phase \in {"charge", "decharge"}
    BY <1>11 DEF Roll, MayRoll
  <2> QED BY <1>1, <2>1, <2>2, SameTableIsSound DEF SameTable, HoldFits
<1>12. ASSUME NEW p \in Player, Done(p)
       PROVE  Keeps(game, game') /\ HoldFits'
  <2>1. SameTable(game, game') /\ hold' = "turn"
    BY <1>1, <1>12, ThrowFields DEF Done
  <2>2. game.phase \in {"charge", "decharge"}
    BY <1>12 DEF Done, MayValidate
  <2> QED BY <1>1, <2>1, <2>2, SameTableIsSound DEF SameTable, HoldFits
<1>13. ASSUME NEW p \in Player, TiebreakRoll(p)
       PROVE  Keeps(game, game') /\ HoldFits'
  <2>1. SameTable(game, game') /\ hold' \in {"tiebreak", hold}
    BY <1>1, <1>13, ThrowTiebreakFields DEF TiebreakRoll
  <2>2. game.phase = "tiebreak"
    BY <1>13 DEF TiebreakRoll, MayThrowTiebreak
  <2> QED BY <1>1, <2>1, <2>2, SameTableIsSound DEF SameTable, HoldFits
<1> QED
  BY <1>3, <1>4, <1>5, <1>6, <1>7, <1>8, <1>9, <1>10, <1>11, <1>12, <1>13 DEF Next

\* Spec keeps the invariant.
LEMMA ScoreInvariance == Spec => []ScoreInv
<1>1. Init => ScoreInv
  BY InitScore
<1>2. ScoreInv /\ [Next]_vars => ScoreInv'
  BY NextScore, NextType DEF ScoreInv, Keeps
<1> QED BY <1>1, <1>2, PTL DEF Spec

\* Charge is played exactly as long as the bank has chips, through every
\* transfer, tiebreak, match and partie: _resolve_round never takes from an
\* empty bank nor moves chips between players while the bank has some.
THEOREM BankTellsThePhase == Spec => []PoolMatchesPhase
<1>1. ScoreInv => PoolMatchesPhase
  BY DEF ScoreInv, Sound, PoolMatchesPhase
<1> QED BY <1>1, ScoreInvariance, PTL

\* No player has two lost matches or the last point between two steps, but
\* the one whose partie is being written: _finalize_cycle acts on each limit
\* the moment it is reached.
THEOREM LimitsAreActedOn == Spec => []ScoresBelowLimits
<1>1. ScoreInv => ScoresBelowLimits
  BY DEF ScoreInv, Sound, ScoresBelowLimits
<1> QED BY <1>1, ScoreInvariance, PTL

\* Whenever the host queues a rule, and however often, bank_rule changes only
\* as a match with a full bank and unplayed turns begins.
THEOREM RulesWaitForAMatch == Spec => RulesChangeBetweenMatches
<1> DEFINE Waits == game'.bank_rule # game.bank_rule =>
                      /\ game'.pool = Chips /\ game'.phase = "charge"
                      /\ \A p \in Seated(game') : game'.turn[p] = NewTurn
<1>1. ScoreInv /\ [Next]_vars => [Waits]_vars
  <2> SUFFICES ASSUME ScoreInv, [Next]_vars
               PROVE  Waits
    OBVIOUS
  <2>1. RuleWaits(game, game') /\ TypeOK'
    BY NextScore, NextType DEF ScoreInv, TypeInv, Keeps
  <2>2. Seated(game') \subseteq Player
    BY <2>1 DEF TypeOK, Game, Seated, Members
  <2> QED BY <2>1, <2>2 DEF RuleWaits
<1> QED BY <1>1, ScoreInvariance, PTL DEF Spec, RulesChangeBetweenMatches

----------------------------------------------------------------------------
(* Chips.                                                                  *)

EvenInv == ScoreInv /\ Even(game)

\* A new room is empty, and every chip is in the bank.
LEMMA InitEven ==
  ASSUME Init
  PROVE  EvenInv
<1>1. PICK rule \in {"sec", "free"} : game = NewGame(rule)
  BY DEF Init
<1>2. /\ game.phase = "waiting" /\ game.players = <<>> /\ game.waiting_players = <<>>
      /\ game.pool = Chips
      /\ \A p \in Player : game.tokens[p] = 0 /\ game.match_losses[p] = 0
  BY <1>1 DEF NewGame
<1>3. Once(<<>>) /\ Members(<<>>) = {}
  BY DEF Once, Members
<1>4. Apart(game) /\ Opening(game)
  BY <1>2, <1>3 DEF Apart, Opening, Seated
<1>5. Even(game)
  BY <1>2, <1>4 DEF Even, Shared, TiedPlay, ConservesChips, DuelGoesOn, InPlay
<1> QED BY <1>5, InitScore DEF EvenInv

\* Every step of the table is a MatchStep, and keeps the table even.
LEMMA NextEven ==
  ASSUME EvenInv, [Next]_vars
  PROVE  Even(game') /\ MatchStep(game, game')
<1>1. /\ game \in Game /\ Typed(game) /\ Sound(game) /\ Even(game) /\ HoldFits
  BY DEF EvenInv, ScoreInv, TypeInv, TypeOK, TurnsHaveRanks, Typed
<1>2. ASSUME Idle(game, game')
      PROVE  Even(game') /\ MatchStep(game, game')
  BY <1>1, <1>2, IdleEven DEF MatchStep, SameMatch, Idle, SameSeats
<1>3. CASE UNCHANGED vars
  <2>1. Idle(game, game')
    BY <1>3 DEF vars, Idle, SameSeats, Kept
  <2> QED BY <1>2, <2>1
<1>4. CASE Start
  BY <1>1, <1>4, StartInitialRollEven DEF Start, MatchStep
<1>5. CASE ResumeTurn
  <2>1. InCycle(game) /\ Contested(game)
    BY <1>1, <1>5 DEF ResumeTurn, HoldFits, InCycle, Contested, InPlay
  <2> QED BY <1>1, <1>5, <2>1, EndTurnEven DEF ResumeTurn, MatchStep
<1>6. CASE ResumeTiebreak
  <2>1. game.phase = "tiebreak" /\ Contested(game)
    BY <1>1, <1>6 DEF ResumeTiebreak, HoldFits, Contested, InPlay
  <2> QED BY <1>1, <1>6, <2>1, ResolveTiebreakEven DEF ResumeTiebreak, MatchStep
<1>7. CASE ResumePartie
  <2>1. game.phase = "finished" /\ \E p \in Player : game.round_points[p] = PointsToLose
    <3>1. game.partie_loser_id \in Player
      BY <1>1, <1>7 DEF ResumePartie, Game, MaybePlayer
    <3> QED BY <1>1, <1>7, <3>1 DEF ResumePartie, Sound, ScoresFit
  <2> QED BY <1>1, <1>7, <2>1, StartNewPartieEven DEF ResumePartie, MatchStep, NewPartie
<1>8. CASE UpdateRoomRules
  BY <1>1, <1>2, <1>8, ThrowIdle DEF UpdateRoomRules
<1>9. ASSUME NEW p \in Player, Join(p)
      PROVE  Even(game') /\ MatchStep(game, game')
  BY <1>1, <1>9, JoinGameEven DEF Join, MatchStep
<1>10. ASSUME NEW p \in Player, InitialRoll(p)
       PROVE  Even(game') /\ MatchStep(game, game')
  BY <1>1, <1>10, RollInitialEven DEF InitialRoll, MatchStep
<1>11. ASSUME NEW p \in Player, Roll(p)
       PROVE  Even(game') /\ MatchStep(game, game')
  BY <1>1, <1>2, <1>11, ThrowIdle DEF Roll
<1>12. ASSUME NEW p \in Player, Done(p)
       PROVE  Even(game') /\ MatchStep(game, game')
  BY <1>1, <1>2, <1>12, ThrowIdle DEF Done
<1>13. ASSUME NEW p \in Player, TiebreakRoll(p)
       PROVE  Even(game') /\ MatchStep(game, game')
  <2>1. Even(game') /\ SameSeats(game, game') /\ Kept(game, game')
    BY <1>1, <1>13, ThrowTiebreakEven DEF TiebreakRoll
  <2> QED BY <2>1 DEF MatchStep, SameMatch, SameSeats
<1> QED
  BY <1>3, <1>4, <1>5, <1>6, <1>7, <1>8, <1>9, <1>10, <1>11, <1>12, <1>13 DEF Next

\* Spec keeps the invariant.
LEMMA EvenInvariance == Spec => []EvenInv
<1>1. Init => EvenInv
  BY InitEven
<1>2. EvenInv /\ [Next]_vars => EvenInv'
  BY NextEven, NextScore, NextType DEF EvenInv, ScoreInv, Keeps
<1> QED BY <1>1, <1>2, PTL DEF Spec

\* While a match is played, the chips of the bank and of the seated players are
\* the chips of the match: no transfer, tiebreak, reset or admission of
\* newcomers makes or loses one.
THEOREM ChipsAreConserved == Spec => []ChipsConserved
<1>1. EvenInv => ChipsConserved
  BY DEF EvenInv, Even, ChipsConserved
<1> QED BY <1>1, EvenInvariance, PTL

\* A match in play is between two active players at least, and in a décharge
\* each of them has chips to lose: sitting out never leaves one player alone
\* with a match that did not end.
THEOREM DuelStaysAlive == Spec => []DuelAlive
<1>1. EvenInv => DuelAlive
  BY DEF EvenInv, Even, DuelAlive
<1> QED BY <1>1, EvenInvariance, PTL

----------------------------------------------------------------------------
(* Whose turn it is.                                                       *)

TurnInv == EvenInv /\ Turns(game, hold)

\* Before the first match there is no cycle.
LEMMA InitTurn ==
  ASSUME Init
  PROVE  TurnInv
<1>1. game.phase = "waiting"
  BY DEF Init, NewGame
<1> QED BY <1>1, InitEven DEF TurnInv, Turns

\* Nobody may roll while a turn is held: the index still rests on the player
\* who validated it.
LEMMA RollIsAwake ==
  ASSUME TurnInv, NEW p, MayRoll(game, p)
  PROVE  hold = "none" /\ Hand(game, "none")
<1>1. /\ game \in Game /\ HoldFits /\ Hand(game, hold) /\ hold \in {"none", "turn", "tiebreak"}
      /\ game.phase \in {"charge", "decharge"} /\ p = CurrentPlayer(game) /\ ~game.turn[p].done
  BY DEF TurnInv, EvenInv, ScoreInv, TypeInv, TypeOK, Turns, MayRoll
<1>2. hold # "tiebreak"
  BY <1>1 DEF HoldFits
<1>3. hold # "turn"
  <2> SUFFICES ASSUME hold = "turn" PROVE FALSE
    OBVIOUS
  <2>1. PICK s, d \in 0..(Len(game.players) - 1) :
          Round(game, s, d) /\ game.turn[SeatAt(game, s + d)].done
    BY <1>1 DEF Hand
  <2> QED BY <1>1, <2>1, RoundHand
<1> QED BY <1>1, <1>2, <1>3

\* Every step keeps the hand where a player can act, and gives the next cycle
\* to who takes chips.
LEMMA NextTurn ==
  ASSUME TurnInv, [Next]_vars
  PROVE  Turns(game', hold') /\ Takes(game, game')
<1>1. /\ game \in Game /\ Typed(game) /\ Sound(game) /\ Even(game) /\ HoldFits
      /\ Turns(game, hold) /\ hold \in {"none", "turn", "tiebreak"}
  BY DEF TurnInv, EvenInv, ScoreInv, TypeInv, TypeOK, TurnsHaveRanks, Typed
<1>2. game.phase # "waiting" => Once(game.players) /\ game.players # <<>>
  <2>1. Len(<<>>) = 0
    OBVIOUS
  <2> QED BY <1>1, <2>1 DEF Even, Apart, Opening
<1>3. ASSUME SameHand(game, game'), game'.tokens = game.tokens, hold' = hold
      PROVE  Turns(game', hold') /\ Takes(game, game')
  BY <1>1, <1>3, SameHandKeeps, KeptTakes
<1>4. ASSUME game'.phase \in {"waiting", "initial_roll"}, game'.tokens = game.tokens
      PROVE  Turns(game', hold') /\ Takes(game, game')
  BY <1>1, <1>4, KeptTakes DEF Turns
<1>5. CASE UNCHANGED vars
  BY <1>3, <1>5 DEF vars, SameHand
<1>6. CASE Start
  BY <1>1, <1>4, <1>6 DEF Start, StartInitialRoll, Game
<1>7. CASE ResumeTurn
  <2>1. InCycle(game) /\ Hand(game, "turn")
    BY <1>1, <1>7 DEF ResumeTurn, HoldFits, InCycle, Turns
  <2> QED BY <1>1, <1>7, <2>1, EndTurnHand DEF ResumeTurn
<1>8. CASE ResumeTiebreak
  <2>1. game.phase = "tiebreak" /\ TieHand(game, "tiebreak")
    BY <1>1, <1>8 DEF ResumeTiebreak, HoldFits, Turns
  <2> QED BY <1>1, <1>8, <2>1, ResolveTiebreakHand DEF ResumeTiebreak
<1>9. CASE ResumePartie
  <2>1. game.phase = "finished" /\ hold = "none" /\ hold' = "none"
    BY <1>1, <1>9 DEF ResumePartie, Sound, HoldFits
  <2>2. game'.phase = "charge" /\ Hand(game', "none")
    BY <1>1, <1>9, <2>1, StartNewPartieHand DEF ResumePartie
  <2>3. game'.tokens = Nobody
    BY <1>1, <1>9, <2>1, StartNewPartieEven DEF ResumePartie
  <2> QED BY <1>1, <2>1, <2>2, <2>3, KeptTakes DEF Turns
<1>10. CASE UpdateRoomRules
  BY <1>1, <1>3, <1>10 DEF UpdateRoomRules, QueueRule, SameHand, Game
<1>11. ASSUME NEW p \in Player, Join(p)
       PROVE  Turns(game', hold') /\ Takes(game, game')
  <2>1. CASE game.phase \in {"waiting", "initial_roll"}
    BY <1>1, <1>4, <1>11, <2>1 DEF Join, JoinGame, Game
  <2>2. CASE ~(game.phase \in {"waiting", "initial_roll"})
    BY <1>1, <1>3, <1>11, <2>2 DEF Join, JoinGame, SameHand, Game
  <2> QED BY <2>1, <2>2
<1>12. ASSUME NEW p \in Player, InitialRoll(p)
       PROVE  Turns(game', hold') /\ Takes(game, game')
  <2>1. game.phase = "initial_roll" /\ hold = "none" /\ hold' = "none"
    BY <1>1, <1>12 DEF InitialRoll, HoldFits
  <2>2. PICK d \in Die : game' \in RollInitial(game, p, d)
    BY <1>12 DEF InitialRoll
  <2>3. game'.phase = "initial_roll" \/ (game'.phase = "charge" /\ Hand(game', "none"))
    BY <1>1, <2>1, <2>2, RollInitialHand
  <2>4. game'.tokens = game.tokens
    BY <1>1, <2>1, <2>2, RollInitialEven DEF SameMatch, Kept
  <2> QED BY <1>1, <2>1, <2>3, <2>4, KeptTakes DEF Turns
<1>13. ASSUME NEW p \in Player, Roll(p)
       PROVE  Turns(game', hold') /\ Takes(game, game')
  <2>1. /\ MayRoll(game, p) /\ game.phase \in {"charge", "decharge"} /\ p = CurrentPlayer(game)
        /\ ~game.turn[p].done /\ Hand(game, hold)
    BY <1>1, <1>13 DEF Roll, MayRoll, Turns
  <2>2. hold = "none" /\ hold' = IF game'.turn[p].done THEN "turn" ELSE "none"
    BY <1>13, RollIsAwake DEF Roll
  <2>3. PICK rank \in Rank : game' = Throw(game, p, rank)
    BY <1>13 DEF Roll
  <2>4. Hand(game', hold')
    BY <1>1, <1>2, <2>1, <2>2, <2>3, ThrowHand
  <2>5. Idle(game, game')
    BY <1>1, <2>3, ThrowIdle
  <2> QED BY <1>1, <2>1, <2>4, <2>5, KeptTakes DEF Turns, Idle, Kept
<1>14. ASSUME NEW p \in Player, Done(p)
       PROVE  Turns(game', hold') /\ Takes(game, game')
  <2>1. /\ MayValidate(game, p) /\ game.phase \in {"charge", "decharge"}
        /\ game' = Validate(game, p) /\ hold = "none" /\ hold' = "turn"
    BY <1>14 DEF Done, MayValidate
  <2>2. Hand(game', hold')
    BY <1>1, <1>2, <2>1, ValidateHand DEF Turns
  <2>3. Idle(game, game')
    BY <1>1, <2>1, ThrowIdle
  <2> QED BY <1>1, <2>1, <2>2, <2>3, KeptTakes DEF Turns, Idle, Kept
<1>15. ASSUME NEW p \in Player, TiebreakRoll(p)
       PROVE  Turns(game', hold') /\ Takes(game, game')
  <2>1. /\ MayThrowTiebreak(game, p) /\ game.phase = "tiebreak"
        /\ game.tiebreak.next_pid = p /\ TieHand(game, hold)
    BY <1>1, <1>15 DEF TiebreakRoll, MayThrowTiebreak, Turns
  <2>2. hold = "none"
    BY <1>1, <2>1, PlayerAssumption DEF HoldFits, TieHand
  <2>3. PICK rank \in Rank : game' = ThrowTiebreak(game, p, rank)
    BY <1>15 DEF TiebreakRoll
  <2>4. hold' = IF game'.tiebreak.next_pid = NoPlayer THEN "tiebreak" ELSE "none"
    BY <1>15, <2>2 DEF TiebreakRoll
  <2>5. game'.phase = "tiebreak" /\ TieHand(game', hold')
    BY <1>1, <2>1, <2>2, <2>3, <2>4, ThrowTiebreakHand
  <2>6. Kept(game, game')
    BY <1>1, <2>1, <2>3, ThrowTiebreakEven
  <2> QED BY <1>1, <2>5, <2>6, KeptTakes DEF Turns, Kept
<1> QED
  BY <1>5, <1>6, <1>7, <1>8, <1>9, <1>10, <1>11, <1>12, <1>13, <1>14, <1>15 DEF Next

\* Spec keeps the invariant.
LEMMA TurnInvariance == Spec => []TurnInv
<1>1. Init => TurnInv
  BY InitTurn
<1>2. TurnInv /\ [Next]_vars => TurnInv'
  BY NextTurn, NextEven, NextScore, NextType DEF TurnInv, EvenInv, ScoreInv, Keeps
<1> QED BY <1>1, <1>2, PTL DEF Spec

\* The starter of a cycle plays and throws first: nobody throws before it has
\* validated, and nobody makes more throws than it did, whatever path led into
\* the cycle.
THEOREM StarterLeadsTheCycle == Spec => []StarterSetsTheRhythm
<1>1. TurnInv => StarterSetsTheRhythm
  BY HandLeads DEF TurnInv, Turns, EvenInv, ScoreInv, TypeInv, TypeOK, StarterSetsTheRhythm,
                   StarterLeads
<1> QED BY <1>1, TurnInvariance, PTL

\* Whenever no handler sleeps, the player the table waits for can act: the index
\* rests on an active player with a throw left, and the hand of a tiebreak is
\* with a tied player at the table who has not thrown.
THEOREM HandStaysLive == Spec => []HandIsLive
<1>1. ASSUME TurnInv, hold = "none", game.phase \in {"charge", "decharge"}
      PROVE  LET c == CurrentPlayer(game) IN c # NoPlayer /\ MayRoll(game, c)
  <2> DEFINE c == CurrentPlayer(game)
  <2>1. Hand(game, "none") /\ game \in Game
    BY <1>1 DEF TurnInv, Turns, EvenInv, ScoreInv, TypeInv, TypeOK
  <2>2. Open(game, c) /\ c \in Player
    BY <2>1, HandOf
  <2>3. game.turn[c] # NoTurn
    BY <2>2 DEF Open, NoTurn
  <2>4. c # NoPlayer
    BY <2>2, PlayerAssumption
  <2> HIDE DEF c
  <2> QED BY <1>1, <2>2, <2>3, <2>4 DEF Open, MayRoll, c
<1>2. ASSUME TurnInv, hold = "none", game.phase = "tiebreak"
      PROVE  LET n == game.tiebreak.next_pid
             IN  n \in game.tiebreak.tied \cap Seated(game) /\ game.tiebreak.throws[n] = 0
  <2>1. TieHand(game, "none") /\ game.tiebreak.tied \subseteq Active(game)
        /\ game.tiebreak.order \in Seq(Player)
    BY <1>2 DEF TurnInv, Turns, EvenInv, ScoreInv, TypeInv, TypeOK, Game, Tiebreak, Even, TiedPlay
  <2>2. PICK at \in DOMAIN game.tiebreak.order :
          /\ game.tiebreak.next_pid = game.tiebreak.order[at]
          /\ game.tiebreak.order[at] \in game.tiebreak.tied
          /\ \A k \in DOMAIN game.tiebreak.order :
               k >= at /\ game.tiebreak.order[k] \in game.tiebreak.tied =>
                 game.tiebreak.throws[game.tiebreak.order[k]] = 0
    BY <2>1 DEF TieHand
  <2>3. at >= at
    BY <2>1
  <2> QED BY <2>1, <2>2, <2>3 DEF Active
<1>3. TurnInv => HandIsLive
  BY <1>1, <1>2 DEF HandIsLive
<1> QED BY <1>3, TurnInvariance, PTL

\* Who takes chips, at the end of a cycle or of a tiebreak, opens the next
\* cycle, that of a new match too, unless it has lost the partie.
THEOREM LoserOpens == Spec => LoserOpensNextCycle
<1>1. TurnInv /\ [Next]_vars =>
        [\A p \in Player :
           game'.tokens[p] > game.tokens[p] =>
             \/ game'.phase = "finished" /\ game'.partie_loser_id = p
             \/ game'.round_starter_id = p /\ CurrentPlayer(game') = p]_vars
  BY NextTurn DEF Takes
<1> QED BY <1>1, TurnInvariance, PTL DEF Spec, LoserOpensNextCycle

----------------------------------------------------------------------------
(* The engine implements Match.                                            *)

\* A new room is a new match.
LEMMA InitImplements ==
  ASSUME Init
  PROVE  MatchRules!Init
<1>1. PICK rule \in {"sec", "free"} : game = NewGame(rule)
  BY DEF Init
<1>2. /\ game.pool = Chips /\ game.tokens = Nobody
      /\ game.match_losses = Nobody /\ game.round_points = Nobody
  BY <1>1 DEF NewGame, Nobody
<1> QED BY <1>2 DEF MatchRules!Init, MatchRules!Nobody, Nobody

\* Closing a cycle is the Score of Match.tla.
LEMMA ScoresImplement ==
  ASSUME NEW k, k.match_losses = game.match_losses, k.round_points = game.round_points,
         Scores(k, game')
  PROVE  MatchRules!Score(k.pool, k.tokens)
<1>1. Nobody = MatchRules!Nobody
  BY DEF Nobody, MatchRules!Nobody
<1>2. CASE /\ \A p \in Player : k.tokens[p] < Chips
           /\ game'.pool = k.pool /\ game'.tokens = k.tokens
           /\ game'.match_losses = k.match_losses /\ game'.round_points = k.round_points
  BY <1>2 DEF MatchRules!Score
<1>3. CASE \E p \in Player :
             /\ k.tokens[p] = Chips
             /\ IF k.match_losses[p] = 0
                THEN /\ game'.match_losses = [k.match_losses EXCEPT ![p] = 1]
                     /\ game'.round_points = k.round_points
                     /\ game'.pool = Chips /\ game'.tokens = Nobody
                ELSE /\ game'.match_losses = Nobody
                     /\ game'.round_points = [k.round_points EXCEPT ![p] = @ + 1]
                     /\ IF k.round_points[p] + 1 < PointsToLose
                        THEN game'.pool = Chips /\ game'.tokens = Nobody
                        ELSE game'.pool = k.pool /\ game'.tokens = k.tokens
  BY <1>1, <1>3 DEF MatchRules!Score
<1> QED BY <1>2, <1>3 DEF Scores

\* Every step of the table is a step of a match or changes nothing of it.
LEMMA NextImplements ==
  ASSUME EvenInv, [Next]_vars
  PROVE  [MatchRules!Next]_MatchRules!vars
<1>1. game \in Game /\ Sound(game) /\ MatchStep(game, game')
  BY NextEven DEF EvenInv, ScoreInv, TypeInv, TypeOK
<1>2. game.round_points \in [Player -> Nat] /\ PointsToLose \in Nat
  BY <1>1, BoundsAssumption DEF Game
<1>3. CASE SameMatch(game, game')
  BY <1>3 DEF MatchRules!vars, SameMatch, Kept
<1>4. CASE NewPartie(game, game')
  <2>1. ~MatchRules!InProgress
    BY <1>2, <1>4 DEF NewPartie, MatchRules!InProgress
  <2> QED BY <1>4, <2>1
          DEF NewPartie, MatchRules!Next, MatchRules!NewPartie, MatchRules!Nobody, Nobody
<1>5. CASE Contested(game) /\ Settles(game, game')
  <2>1. MatchRules!InProgress
    <3>1. game.partie_loser_id = NoPlayer
      BY <1>5, ContestedFacts
    <3>2. \A p \in Player : game.round_points[p] # PointsToLose
      BY <1>1, <3>1, PlayerAssumption DEF Sound, ScoresFit
    <3> QED BY <1>1, <1>2, <3>2 DEF Sound, ScoresFit, MatchRules!InProgress
  <2>2. PICK k : Transferred(game, k) /\ Scores(k, game')
    BY <1>5 DEF Settles
  <2>3. k.match_losses = game.match_losses /\ k.round_points = game.round_points
    BY <2>2 DEF Transferred
  <2>4. MatchRules!Score(k.pool, k.tokens)
    BY <2>2, <2>3, ScoresImplement
  <2>5. CASE FromBank(game, k)
    <3>1. PICK loser \in Player, n \in 1..Chips :
            /\ n <= game.pool /\ k.pool = game.pool - n
            /\ k.tokens = [game.tokens EXCEPT ![loser] = @ + n]
      BY <2>5 DEF FromBank
    <3>2. MatchRules!Charge(loser, n)
      BY <2>1, <2>4, <3>1 DEF MatchRules!Charge
    <3> QED BY <3>2 DEF MatchRules!Next
  <2>6. CASE FromWinner(game, k)
    <3>1. PICK loser \in Player, winner \in Player, n \in 1..Chips :
            /\ game.pool = 0 /\ winner # loser /\ n <= game.tokens[winner] /\ k.pool = 0
            /\ k.tokens = Moved(game.tokens, winner, loser, n)
      BY <2>6 DEF FromWinner
    <3>2. MatchRules!Decharge(winner, loser, n)
      BY <2>1, <2>4, <3>1 DEF MatchRules!Decharge, Moved
    <3> QED BY <3>2 DEF MatchRules!Next
  <2>7. CASE Kept(game, k)
    <3>1. \A p \in Player : game.tokens[p] < Chips /\ game.tokens[p] \in Nat
      BY <1>5, ContestedFacts
    <3>2. \A p \in Player : k.tokens[p] # Chips
      BY <2>7, <3>1, BoundsAssumption DEF Kept
    <3>3. SameMatch(game, game')
      BY <2>2, <2>3, <2>7, <3>2 DEF Scores, SameMatch, Kept
    <3> QED BY <1>3, <3>3 DEF MatchRules!vars, SameMatch, Kept
  <2> QED BY <2>2, <2>5, <2>6, <2>7 DEF Transferred
<1> QED BY <1>1, <1>3, <1>4, <1>5 DEF MatchStep

\* The whole engine - rolls, holds, tiebreaks, sitting out, newcomers - does to
\* chips and scores what Match.tla allows: one player takes chips from the
\* bank while it has any and from another player afterwards, who holds every
\* chip loses the match, two lost matches cost a point, and a partie begins
\* anew only after the last point.
THEOREM TableImplementsMatch == Spec => ImplementsMatch
<1>1. Init => MatchRules!Init
  BY InitImplements
<1>2. EvenInv /\ [Next]_vars => [MatchRules!Next]_MatchRules!vars
  BY NextImplements
<1>3. MatchRules!Init /\ [][MatchRules!Next]_MatchRules!vars => MatchRules!Spec
  BY DEF MatchRules!Spec
<1> QED BY <1>1, <1>2, <1>3, EvenInvariance, PTL DEF Spec, ImplementsMatch
=============================================================================
