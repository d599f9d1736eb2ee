---------------------------- MODULE ScreenProofs ---------------------------
(***************************************************************************)
(* Theorems about the tab of Screen.tla, for any table, any player and any *)
(* lag: the controls it offers are the ones the server takes, whoever the  *)
(* table waits for has one, the trophy goes to who did not lose, and the   *)
(* rhythm it shows is the rhythm the server keeps.                         *)
(*                                                                         *)
(* A screen shows a state of the past, so the argument has two halves: the *)
(* states of the table say what the page makes of them (Told, an invariant *)
(* of the table beside the one of TableProofs), and the state received     *)
(* last is the state of the table once everything has arrived (Synced).    *)
(***************************************************************************)
EXTENDS Screen, TableProofs

----------------------------------------------------------------------------
(* The tab does to the table what the table does.                          *)

\* Whatever the tab and its channels do, the table takes one of its own steps
\* or none.
LEMMA TabStepIsTableStep ==
  ASSUME [TabNext]_allVars
  PROVE  [Next]_vars
<1>1. CASE UNCHANGED allVars
  BY <1>1 DEF allVars, vars
<1>2. CASE Others
  BY <1>2 DEF Others, Next
<1>3. CASE Resume
  BY <1>3 DEF Resume, Next
<1>4. CASE Receive
  <2>1. UNCHANGED <<game, hold>> \/ Perform(Head(outbox))
    BY <1>4 DEF Receive
  <2>2. ASSUME NEW c, Perform(c)
        PROVE  [Next]_vars
    BY <2>2, TabAssumption DEF Perform, Next, vars
  <2> QED BY <2>1, <2>2 DEF vars
<1>5. CASE Show \/ Click
  BY <1>5 DEF Show, Click, vars
<1> QED BY <1>1, <1>2, <1>3, <1>4, <1>5 DEF TabNext

\* What holds of every table holds of the table this tab plays at: the tab of
\* one player, its lag and its late clicks are nothing the handlers do not
\* expect of their players.
THEOREM TabPlaysTheTable == TabSpec => Spec
<1>1. TabInit => Init
  BY DEF TabInit
<1>2. [TabNext]_allVars => [Next]_vars
  BY TabStepIsTableStep
<1> QED BY <1>1, <1>2, PTL DEF TabSpec, Spec

LEMMA TabTurnInvariance == TabSpec => []TurnInv
BY TabPlaysTheTable, TurnInvariance, PTL

----------------------------------------------------------------------------
(* What the states of the table tell a page.                               *)

\* Who is seated when the opening rolls begin, or later, is asked for one.
Asked(g) ==
  g.phase = "initial_roll" => \A p \in Seated(g) : g.initial_rolls[p] # Unasked

\* Who lost the partie is not the poorest: somebody seated has fewer chips.
Earned(g) ==
  g.phase = "finished" => \E q \in Seated(g) : g.tokens[q] < g.tokens[g.partie_loser_id]

\* The cap is all throws until the starter has validated, and one throw after
\* that where the rule allows one.
Paced(g) ==
  g.phase \in {"charge", "decharge"} =>
    IF g.turn[g.round_starter_id].done THEN OneThrow(g) => g.max_throws = 1
    ELSE g.max_throws = Throws

Told(g) == Asked(g) /\ Earned(g) /\ Paced(g)

\* A cycle that has just begun.
FreshCycle(g) == g.max_throws = Throws /\ ~g.turn[g.round_starter_id].done

\* What follows the end of a cycle: another one, a tiebreak, or the end of the
\* partie.
Opened(g) ==
  /\ g.phase \in {"charge", "decharge"} => FreshCycle(g)
  /\ Earned(g) /\ g.phase # "initial_roll"

LEMMA OpenedTells ==
  ASSUME NEW g, Opened(g)
  PROVE  Told(g)
BY DEF Opened, Told, Asked, Paced, FreshCycle

\* Who holds every chip at the end of a partie plays with somebody who holds
\* none.
LEMMA EndMatchOpens ==
  ASSUME NEW g, Settled(g), NEW p \in Player, p \in Seated(g), g.tokens[p] >= Chips
  PROVE  Opened(EndMatch(g, p))
<1> DEFINE h == EndMatch(g, p)
<1>1. /\ Typed(g) /\ g \in Game /\ Apart(g) /\ Len(g.players) >= 2 /\ Conserved(g)
      /\ g.players \in Seq(Player) /\ g.waiting_players \in Seq(Player)
      /\ g.tokens \in [Player -> Nat] /\ g.pool \in Nat /\ Seated(g) \subseteq Player
  BY SeatedArePlayers DEF Settled, InCycle, Typed, Game
<1>2. MatchEnded(g, p, h)
  BY <1>1, EndMatchWrites
<1> HIDE DEF h
<1>3. Seated(h) = Seated(g) \cup Members(g.waiting_players)
  BY <1>1, <1>2, OnceAppended, SMTT(30) DEF Apart, Seated, MatchEnded
<1>4. CASE PartieLost(g, p)
  <2>1. h.phase = "finished" /\ h.tokens = g.tokens /\ h.partie_loser_id = p
    BY <1>2, <1>4 DEF MatchEnded
  <2>2. PICK q \in Seated(g) : q # p
    BY <1>1, TwoSeated DEF Apart
  <2>3. IsFiniteSet(Seated(g)) /\ \A x \in Seated(g) : g.tokens[x] \in Nat
    BY <1>1, SeatedIsFinite
  <2>4. g.tokens[p] + g.tokens[q] <= Total(g.tokens, Seated(g))
    BY <2>2, <2>3, TotalBoundsTwo
  <2>5. Total(g.tokens, Seated(g)) \in Nat
    BY <2>3, TotalIsNat
  <2>6. g.tokens[q] < g.tokens[p]
    BY <1>1, <2>2, <2>3, <2>4, <2>5, BoundsAssumption DEF Conserved
  <2> QED BY <1>3, <2>1, <2>2, <2>6 DEF Opened, Earned, h
<1>5. CASE ~PartieLost(g, p)
  <2>1. /\ h.phase = "charge" /\ h.max_throws = Throws /\ h.round_starter_id = p
        /\ \A q \in Player : q \in Seated(h) => h.turn[q] = NewTurn
    BY <1>2, <1>5 DEF MatchEnded
  <2> QED BY <1>3, <2>1 DEF Opened, Earned, FreshCycle, NewTurn, h
<1> QED BY <1>4, <1>5

LEMMA NextCycleOpens ==
  ASSUME NEW g, Settled(g), NEW p \in Active(g) \cap Player,
         g.phase = "decharge" => g.tokens[p] > 0
  PROVE  Opened(NextCycle(SitOut(g), p))
<1> DEFINE h == NextCycle(SitOut(g), p)
           out == IF g.phase = "decharge"
                  THEN g.out_of_match \cup {q \in Seated(g) : g.tokens[q] = 0}
                  ELSE g.out_of_match
<1>1. /\ g \in Game /\ g.phase \in {"charge", "decharge"} /\ p \in Seated(g)
      /\ p \notin g.out_of_match /\ p # NoPlayer
  BY PlayerAssumption DEF Settled, InCycle, Typed, Active
<1>2. /\ h.phase = g.phase /\ h.max_throws = Throws
      /\ h.turn = [q \in Player |-> IF q \notin Seated(g) THEN g.turn[q]
                                    ELSE IF q \in out THEN NoTurn ELSE NewTurn]
      /\ h.round_starter_id = IF p = NoPlayer THEN g.round_starter_id ELSE p
  <2>1. g \in Game
    BY <1>1
  <2> HIDE <1>1
  <2> QED BY <2>1, NextCycleWrites, ZenonT(60)
<1> HIDE DEF h
<1>3. p \notin out
  BY <1>1
<1> HIDE DEF out
<1>4. Opened(h)
  BY <1>1, <1>2, <1>3 DEF Opened, Earned, FreshCycle, NewTurn
<1> QED BY <1>4 DEF h

LEMMA FinalizeCycleOpens ==
  ASSUME NEW g, NEW loser, NEW k, Pays(g, loser, k)
  PROVE  Opened(FinalizeCycle(k, loser))
<1> DEFINE full == {q \in Seated(k) : k.tokens[q] >= Chips}
<1>1. /\ k \in Game /\ Settled(k) /\ loser \in Active(k) \cap Player
      /\ Seated(k) \subseteq Player
      /\ k.phase = "decharge" => k.tokens[loser] > 0
  <2>1. Settled(k) /\ k \in Game /\ SameSeats(g, k)
    BY DEF Pays, Settled, InCycle, Typed
  <2>2. Active(k) = Active(g)
    BY <2>1 DEF SameSeats, Active, Seated
  <2> QED BY <2>1, <2>2, SeatedArePlayers DEF Pays
<1>2. CASE full = {}
  <2>1. Opened(NextCycle(SitOut(k), loser))
    BY <1>1, NextCycleOpens
  <2> QED BY <1>2, <2>1 DEF FinalizeCycle
<1>3. CASE full # {}
  <2> DEFINE ml == FirstSeated(k, full)
  <2>1. PICK q \in full : q \in full \cap Seated(k)
    BY <1>3
  <2>2. ml \in full \cap Seated(k) /\ ml \in Player
    <3> HIDE DEF full
    <3> QED BY <1>1, <2>1, FirstSeatedType
  <2>3. Opened(EndMatch(k, ml))
    <3> HIDE DEF ml
    <3> QED BY <1>1, <2>2, EndMatchOpens
  <2> QED BY <1>3, <2>3 DEF FinalizeCycle
<1> QED BY <1>2, <1>3

LEMMA EnterTiebreakOpens ==
  ASSUME NEW g \in Game, NEW tied, NEW penalty, NEW phase, NEW winner
  PROVE  Opened(EnterTiebreak(g, tied, penalty, phase, winner))
BY EnterTiebreakFields DEF Opened, Earned

LEMMA ResolveRoundOpens ==
  ASSUME NEW g, InCycle(g), Even(g), AllDone(g)
  PROVE  Opened(ResolveRound(g))
<1>1. g \in Game
  BY DEF InCycle, Typed
<1> QED BY <1>1, ResolveRoundPays, FinalizeCycleOpens, EnterTiebreakOpens, Zenon

LEMMA ResolveTiebreakOpens ==
  ASSUME NEW g, Typed(g), Sound(g), Even(g), g.phase = "tiebreak", TieHand(g, "tiebreak")
  PROVE  Opened(ResolveTiebreak(g))
<1>1. g \in Game
  BY DEF Typed
<1>2. Opened(g)
  BY DEF Opened, Earned
<1>3. ASSUME NEW loser \in LowestThrows(g)
      PROVE  Opened(FinalizeCycle(Cleared(g, loser), loser))
  BY TiebreakPays, FinalizeCycleOpens
<1> QED BY <1>1, <1>2, <1>3, ResolveTiebreakCases, EnterTiebreakOpens, Zenon

\* h is g as far as a page is told.
SameTold(g, h) ==
  /\ h.phase = g.phase /\ h.players = g.players /\ h.tokens = g.tokens
  /\ h.partie_loser_id = g.partie_loser_id /\ h.initial_rolls = g.initial_rolls
  /\ h.turn = g.turn /\ h.max_throws = g.max_throws
  /\ h.round_starter_id = g.round_starter_id /\ h.bank_rule = g.bank_rule

LEMMA SameToldTells ==
  ASSUME NEW g, Told(g), NEW h, SameTold(g, h)
  PROVE  Told(h)
<1>1. Asked(h)
  BY DEF Told, SameTold, Asked, Seated
<1>2. Earned(h)
  BY DEF Told, SameTold, Earned, Seated
<1>3. Paced(h)
  BY DEF Told, SameTold, Paced, OneThrow
<1> QED BY <1>1, <1>2, <1>3 DEF Told

LEMMA EndTurnTells ==
  ASSUME NEW g, InCycle(g), Even(g), Told(g)
  PROVE  Told(EndTurn(g))
<1> DEFINE k == Advance(g)
           index == (g.current_index + StepsToActive(g, 1)) % Len(g.players)
<1>1. k = g \/ k = [g EXCEPT !.current_index = index]
  BY DEF Advance
<1>2. k \in Game /\ g \in Game
  BY AdvanceType DEF InCycle, Typed
<1>3. SameScores(g, k) /\ Idle(g, k) /\ SameTold(g, k)
  <2> HIDE DEF k, index
  <2> QED BY <1>1, <1>2 DEF Game, SameScores, Idle, SameSeats, Kept, SameTold
<1>4. EndTurn(g) = IF AllDone(k) THEN ResolveRound(k) ELSE k
  BY DEF EndTurn
<1> HIDE DEF k
<1>5. InCycle(k)
  BY <1>2, <1>3, SameIsSound DEF Keeps, InCycle, Typed, RanksKnown, Idle, Kept, SameTold
<1>6. AllDone(k) => Told(ResolveRound(k))
  BY <1>3, <1>5, IdleEven, ResolveRoundOpens, OpenedTells
<1> QED BY <1>3, <1>4, <1>6, SameToldTells

\* The starter that stops sets the cap; nobody else does.
LEMMA ThrowTells ==
  ASSUME NEW g \in Game, Paced(g), NEW p \in Player, MayRoll(g, p), NEW rank \in Rank
  PROVE  Told(Throw(g, p, rank))
<1> DEFINE left == g.turn[p].rolls_left - 1
           at_max == \/ left = 0
                     \/ OneThrow(g)
                     \/ p # g.round_starter_id /\ Throws - left >= g.max_throws
           t == [rolls_left |-> left, rank |-> rank, done |-> at_max]
           cap == IF at_max /\ OneThrow(g) /\ p = g.round_starter_id THEN 1 ELSE g.max_throws
           h == Throw(g, p, rank)
<1>1. h = [g EXCEPT !.turn[p] = t, !.max_throws = cap]
  BY DEF Throw, Game
<1>2. t.done = at_max
  OBVIOUS
<1> HIDE DEF t, h
<1>3. /\ h.turn = [g.turn EXCEPT ![p] = t] /\ h.max_throws = cap /\ h.phase = g.phase
      /\ h.round_starter_id = g.round_starter_id /\ h.bank_rule = g.bank_rule
  BY <1>1 DEF Game
<1>4. g.turn \in [Player -> Turn] /\ g.phase \in {"charge", "decharge"} /\ ~g.turn[p].done
  BY DEF Game, MayRoll
<1>5. h.turn[p] = t /\ \A q : q # p => h.turn[q] = g.turn[q]
  BY <1>3, <1>4
<1>6. OneThrow(h) = OneThrow(g)
  BY <1>3 DEF OneThrow
<1>7. CASE p = g.round_starter_id
  <2>1. g.max_throws = Throws
    BY <1>4, <1>7 DEF Paced
  <2> HIDE DEF at_max
  <2> QED BY <1>2, <1>3, <1>4, <1>5, <1>6, <1>7, <2>1 DEF Told, Asked, Earned, Paced, h
<1>8. CASE p # g.round_starter_id
  <2>1. h.max_throws = g.max_throws /\ h.turn[h.round_starter_id] = g.turn[g.round_starter_id]
    BY <1>3, <1>5, <1>8
  <2> HIDE DEF at_max, cap
  <2> QED BY <1>3, <1>4, <1>6, <2>1 DEF Told, Asked, Earned, Paced, h
<1> QED BY <1>7, <1>8

LEMMA ValidateTells ==
  ASSUME NEW g \in Game, Paced(g), NEW p \in Player, MayValidate(g, p)
  PROVE  Told(Validate(g, p))
<1> DEFINE t == [g.turn[p] EXCEPT !.done = TRUE]
           cap == IF p # g.round_starter_id THEN g.max_throws
                  ELSE IF OneThrow(g) THEN 1 ELSE RollsUsed(g, p)
           h == Validate(g, p)
<1>1. g.turn \in [Player -> Turn] /\ g.phase \in {"charge", "decharge"}
  BY DEF Game, MayValidate
<1>2. h = [g EXCEPT !.turn[p] = t, !.max_throws = cap]
  BY <1>1 DEF Validate, Game
<1>3. t.done
  BY <1>1 DEF Turn
<1> HIDE DEF t, h
<1>4. /\ h.turn = [g.turn EXCEPT ![p] = t] /\ h.max_throws = cap /\ h.phase = g.phase
      /\ h.round_starter_id = g.round_starter_id /\ h.bank_rule = g.bank_rule
  BY <1>2 DEF Game
<1>5. h.turn[p] = t /\ \A q : q # p => h.turn[q] = g.turn[q]
  BY <1>1, <1>4
<1>6. OneThrow(h) = OneThrow(g)
  BY <1>4 DEF OneThrow
<1>7. CASE p = g.round_starter_id
  BY <1>1, <1>3, <1>4, <1>5, <1>6, <1>7 DEF Told, Asked, Earned, Paced, h
<1>8. CASE p # g.round_starter_id
  <2>1. h.max_throws = g.max_throws /\ h.turn[h.round_starter_id] = g.turn[g.round_starter_id]
    BY <1>4, <1>5, <1>8
  <2> HIDE DEF cap
  <2> QED BY <1>1, <1>4, <1>6, <2>1 DEF Told, Asked, Earned, Paced, h
<1> QED BY <1>7, <1>8

\* A game that is dealt anew, by the last opening roll or after a partie.
LEMMA DealtTells ==
  ASSUME NEW g \in Game, NEW h, h.phase = "charge", h.max_throws = Throws,
         h.turn = FreshTurns(g, Seated(g)), h.round_starter_id \in Seated(g)
  PROVE  Told(h)
<1>1. h.round_starter_id \in Player
  BY SeatedArePlayers
<1>2. h.turn[h.round_starter_id] = NewTurn
  BY <1>1 DEF FreshTurns
<1> QED BY <1>2 DEF Told, Asked, Earned, Paced, NewTurn

LEMMA RollInitialTells ==
  ASSUME NEW g, Typed(g), Told(g), g.phase = "initial_roll", NEW p \in Player, NEW d \in Die,
         NEW h \in RollInitial(g, p, d)
  PROVE  Told(h)
<1> DEFINE k == [g EXCEPT !.initial_rolls[p] = d]
           lowest == {q \in Seated(k) : \A r \in Seated(k) : k.initial_rolls[q] <= k.initial_rolls[r]}
           again == [q \in Player |-> IF q \in lowest THEN Unrolled ELSE k.initial_rolls[q]]
<1>1. /\ k \in Game /\ k.phase = "initial_roll" /\ Seated(k) = Seated(g)
      /\ k.initial_rolls = [g.initial_rolls EXCEPT ![p] = d]
  BY DEF Typed, Game, Seated
<1>2. Seated(g) \subseteq Player /\ g.initial_rolls \in [Player -> Die \cup {Unasked, Unrolled}]
  BY SeatedArePlayers DEF Typed, Game
<1>3. \A q \in Seated(k) : k.initial_rolls[q] # Unasked
  BY <1>1, <1>2, DiceAssumption DEF Told, Asked, Unasked
<1>4. h = k \/ h \in FinalizeOrder(k)
  BY DEF RollInitial
<1>5. \/ h = k \/ h = [k EXCEPT !.initial_rolls = again]
      \/ /\ \E q \in Seated(k) : lowest = {q}
         /\ \E s \in SortedSeatings(k) : h = DoStart([k EXCEPT !.players = s])
  BY <1>4 DEF FinalizeOrder
<1> HIDE DEF k, lowest
<1>6. CASE h = k
  BY <1>1, <1>3, <1>6 DEF Told, Asked, Earned, Paced
<1>7. CASE h = [k EXCEPT !.initial_rolls = again]
  <2> HIDE DEF again
  <2>1. h.phase = "initial_roll" /\ Seated(h) = Seated(k) /\ h.initial_rolls = again
    BY <1>1, <1>7 DEF Game, Seated
  <2>2. \A q \in Seated(k) : again[q] # Unasked
    BY <1>1, <1>2, <1>3 DEF again, Unasked, Unrolled
  <2> QED BY <2>1, <2>2 DEF Told, Asked, Earned, Paced
<1>8. ASSUME NEW q \in Seated(k), NEW s \in SortedSeatings(k), h = DoStart([k EXCEPT !.players = s])
      PROVE  Told(h)
  <2> DEFINE t == [k EXCEPT !.players = s]
  <2>1. s \in Seq(Player) /\ Len(s) = Len(k.players)
    BY <1>1, SeatingsAreOnce
  <2>2. t \in Game /\ t.players = s
    BY <1>1, <2>1 DEF Game
  <2>3. s[1] \in Seated(t)
    <3>1. k.players \in Seq(Player) /\ k.players # <<>>
      BY <1>1, <1>8 DEF Game, Seated, Members
    <3>2. 1 \in DOMAIN s
      BY <2>1, <3>1
    <3> HIDE DEF t
    <3> QED BY <2>2, <3>2 DEF Seated, Members
  <2>4. /\ h.phase = "charge" /\ h.max_throws = Throws /\ h.turn = FreshTurns(t, Seated(t))
        /\ h.round_starter_id = t.players[1]
    <3> HIDE DEF t
    <3> QED BY <1>8, <2>2, DoStartWrites DEF t
  <2> HIDE DEF t
  <2> QED BY <2>2, <2>3, <2>4, DealtTells
<1> QED BY <1>5, <1>6, <1>7, <1>8

LEMMA StartNewPartieTells ==
  ASSUME NEW g \in Game, Even(g), g.phase = "finished"
  PROVE  Told(StartNewPartie(g))
<1> DEFINE h == StartNewPartie(g)
           starter == IF g.partie_loser_id \in Seated(g) THEN g.partie_loser_id
                      ELSE IF g.players # <<>> THEN g.players[1] ELSE NoPlayer
<1>1. /\ h.phase = "charge" /\ h.max_throws = Throws /\ h.turn = FreshTurns(g, Seated(g))
      /\ h.round_starter_id = starter
  BY StartNewPartieWrites
<1>2. starter \in Seated(g)
  <2>1. Len(g.players) >= 2 /\ Once(g.players)
    BY DEF Even, Opening, Apart
  <2>2. g.players[1] \in Seated(g) /\ g.players # <<>>
    BY <2>1, TwoSeated
  <2> QED BY <2>2
<1> HIDE DEF h, starter
<1>3. Told(h)
  BY <1>1, <1>2, DealtTells
<1> QED BY <1>3 DEF h

\* Who joins during the opening rolls is asked for one.
LEMMA JoinGameTells ==
  ASSUME NEW g \in Game, Told(g), NEW p \in Player
  PROVE  Told(JoinGame(g, p))
<1> DEFINE h == JoinGame(g, p)
           roll == IF g.phase = "initial_roll" THEN Unrolled ELSE g.initial_rolls[p]
           host == IF g.host_player_id = NoPlayer THEN p ELSE g.host_player_id
           rolls == [g.initial_rolls EXCEPT ![p] = roll]
<1>1. CASE g.phase \in {"waiting", "initial_roll"}
  <2>1. h = [g EXCEPT !.players = Append(g.players, p), !.initial_rolls = rolls,
                      !.host_player_id = host]
    BY <1>1 DEF JoinGame, Game
  <2> HIDE DEF h, rolls, host
  <2>2. h.phase = g.phase /\ h.players = Append(g.players, p) /\ h.initial_rolls = rolls
    BY <2>1 DEF Game
  <2>3. Seated(h) \subseteq Seated(g) \cup {p}
    <3>1. g.players \in Seq(Player)
      BY DEF Game
    <3> QED BY <2>2, <3>1 DEF Seated, Members
  <2>4. Asked(h)
    BY <2>2, <2>3, SeatedArePlayers DEF Told, Asked, rolls, Game, Unrolled, Unasked
  <2> QED BY <1>1, <2>2, <2>4 DEF Told, Earned, Paced, h
<1>2. CASE ~(g.phase \in {"waiting", "initial_roll"})
  <2>1. SameTold(g, h)
    BY <1>2 DEF JoinGame, SameTold, Game
  <2> QED BY <2>1, SameToldTells
<1> QED BY <1>1, <1>2

LEMMA StartInitialRollTells ==
  ASSUME NEW g \in Game
  PROVE  Told(StartInitialRoll(g))
<1> DEFINE rolls == [p \in Player |-> IF p \in Seated(g) THEN Unrolled ELSE Unasked]
           h == StartInitialRoll(g)
<1>1. h = [g EXCEPT !.phase = "initial_roll", !.initial_rolls = rolls]
  BY DEF StartInitialRoll
<1> HIDE DEF rolls, h
<1>2. h.phase = "initial_roll" /\ Seated(h) = Seated(g) /\ h.initial_rolls = rolls
  BY <1>1 DEF Game, Seated
<1>3. \A p \in Seated(g) : rolls[p] = Unrolled
  BY SeatedArePlayers DEF rolls
<1> QED BY <1>2, <1>3 DEF Told, Asked, Earned, Paced, Unrolled, Unasked, h

\* A tiebreak throw tells the page nothing of these.
LEMMA ThrowTiebreakTells ==
  ASSUME NEW g, NEW p, MayThrowTiebreak(g, p), NEW rank, g \in Game
  PROVE  Told(ThrowTiebreak(g, p, rank))
<1>1. ThrowTiebreak(g, p, rank).phase = "tiebreak"
  BY ThrowTiebreakFields DEF SameTable, MayThrowTiebreak
<1> QED BY <1>1 DEF Told, Asked, Earned, Paced

ToldInv == TurnInv /\ Told(game)

\* A step of the table writes a game a page reads rightly.
LEMMA NextTold ==
  ASSUME ToldInv, [Next]_vars
  PROVE  Told(game')
<1>1. /\ game \in Game /\ Typed(game) /\ Sound(game) /\ Even(game) /\ HoldFits
      /\ Turns(game, hold) /\ Told(game) /\ hold \in {"none", "turn", "tiebreak"}
  BY DEF ToldInv, TurnInv, EvenInv, ScoreInv, TypeInv, TypeOK, TurnsHaveRanks, Typed
<1>2. CASE UNCHANGED vars
  BY <1>1, <1>2 DEF vars
<1>3. CASE Start
  BY <1>1, <1>3, StartInitialRollTells DEF Start
<1>4. CASE ResumeTurn
  <2>1. InCycle(game)
    BY <1>1, <1>4 DEF ResumeTurn, HoldFits, InCycle
  <2> QED BY <1>1, <1>4, <2>1, EndTurnTells DEF ResumeTurn
<1>5. CASE ResumeTiebreak
  <2>1. game.phase = "tiebreak" /\ TieHand(game, "tiebreak")
    BY <1>1, <1>5 DEF ResumeTiebreak, HoldFits, Turns
  <2> QED BY <1>1, <1>5, <2>1, ResolveTiebreakOpens, OpenedTells DEF ResumeTiebreak
<1>6. CASE ResumePartie
  BY <1>1, <1>6, StartNewPartieTells DEF ResumePartie, Sound
<1>7. CASE UpdateRoomRules
  <2>1. SameTold(game, game')
    BY <1>1, <1>7 DEF UpdateRoomRules, QueueRule, SameTold, Game
  <2> QED BY <1>1, <2>1, SameToldTells
<1>8. ASSUME NEW p \in Player, Join(p)
      PROVE  Told(game')
  BY <1>1, <1>8, JoinGameTells DEF Join
<1>9. ASSUME NEW p \in Player, InitialRoll(p)
      PROVE  Told(game')
  BY <1>1, <1>9, RollInitialTells DEF InitialRoll
<1>10. ASSUME NEW p \in Player, Roll(p)
       PROVE  Told(game')
  BY <1>1, <1>10, ThrowTells DEF Roll, Told
<1>11. ASSUME NEW p \in Player, Done(p)
       PROVE  Told(game')
  BY <1>1, <1>11, ValidateTells DEF Done, Told
<1>12. ASSUME NEW p \in Player, TiebreakRoll(p)
       PROVE  Told(game')
  BY <1>1, <1>12, ThrowTiebreakTells DEF TiebreakRoll
<1> QED
  BY <1>2, <1>3, <1>4, <1>5, <1>6, <1>7, <1>8, <1>9, <1>10, <1>11, <1>12 DEF Next

LEMMA ToldInvariance == TabSpec => []ToldInv
<1>1. TabInit => Told(game)
  BY DEF TabInit, Init, NewGame, Told, Asked, Earned, Paced
<1>2. ToldInv /\ [TabNext]_allVars => Told(game)'
  BY NextTold, TabStepIsTableStep
<1> QED BY <1>1, <1>2, TabTurnInvariance, PTL DEF TabSpec, ToldInv

----------------------------------------------------------------------------
(* What is under way.                                                      *)

\* The state sent last: nothing newer reaches the tab.
Newest == IF inbox = <<>> THEN view ELSE inbox[Len(inbox)]

\* Every step of the table is sent to whoever is at the table, so the state
\* sent last is the state of the table.
Synced == Me \in Known(game) => Newest = game

\* What the tab has received, or will, was the table once.
WereTables == Earned(view) /\ \A i \in DOMAIN inbox : Earned(inbox[i])

ChannelInv == TabTypeOK /\ Synced /\ WereTables
TabInv == ToldInv /\ ChannelInv

LEMMA NewestAppended ==
  ASSUME NEW s \in Seq(Game), NEW g \in Game
  PROVE  LET t == Append(s, g)
         IN  /\ t \in Seq(Game) /\ Len(t) = Len(s) + 1 /\ t # <<>> /\ t[Len(t)] = g
             /\ DOMAIN t = 1..(Len(s) + 1) /\ \A i \in DOMAIN s : t[i] = s[i]
OBVIOUS

\* What is broadcast is the newest state, and one of the table.
LEMMA BroadcastKeeps ==
  ASSUME ChannelInv, game' \in Game, Earned(game'), Broadcast, view' = view
  PROVE  inbox' \in Seq(Game) /\ Len(inbox') <= MaxLag /\ Synced' /\ WereTables'
<1>1. /\ inbox \in Seq(Game) /\ Len(inbox) < MaxLag /\ MaxLag \in Nat
      /\ Earned(view) /\ \A i \in DOMAIN inbox : Earned(inbox[i])
  BY TabAssumption DEF ChannelInv, TabTypeOK, WereTables, Broadcast
<1>2. CASE Me \in Seated(game') \cup Members(game'.waiting_players)
  <2>1. inbox' = Append(inbox, game')
    BY <1>2 DEF Broadcast
  <2>2. /\ inbox' \in Seq(Game) /\ Len(inbox') = Len(inbox) + 1 /\ inbox' # <<>>
        /\ inbox'[Len(inbox')] = game' /\ DOMAIN inbox' = 1..(Len(inbox) + 1)
        /\ \A i \in DOMAIN inbox : inbox'[i] = inbox[i]
    BY <1>1, <2>1, NewestAppended
  <2>3. \A i \in DOMAIN inbox' : Earned(inbox'[i])
    <3> SUFFICES ASSUME NEW i \in DOMAIN inbox'
                 PROVE  Earned(inbox'[i])
      OBVIOUS
    <3>1. i \in DOMAIN inbox \/ i = Len(inbox')
      BY <1>1, <2>2
    <3> QED BY <1>1, <2>2, <3>1
  <2> QED BY <1>1, <2>2, <2>3 DEF Synced, Newest, WereTables
<1>3. CASE ~(Me \in Seated(game') \cup Members(game'.waiting_players))
  BY <1>1, <1>3 DEF Broadcast, Synced, Known, WereTables
<1> QED BY <1>2, <1>3

LEMMA NextChannel ==
  ASSUME TabInv, ToldInv', [TabNext]_allVars
  PROVE  ChannelInv'
<1>1. /\ game' \in Game /\ Earned(game') /\ ChannelInv
      /\ view \in Game /\ inbox \in Seq(Game) /\ outbox \in Seq(Control)
      /\ Len(inbox) <= MaxLag /\ Len(outbox) <= MaxLag /\ MaxLag \in Nat
      /\ asleep \in BOOLEAN /\ (asleep => hold # "none") /\ Synced /\ WereTables
  BY TabAssumption
     DEF TabInv, ToldInv, Told, TurnInv, EvenInv, ScoreInv, TypeInv, TypeOK, ChannelInv, TabTypeOK
<1>2. CASE UNCHANGED allVars
  BY <1>1, <1>2 DEF allVars, ChannelInv, TabTypeOK, Synced, Newest, WereTables
<1>3. ASSUME Broadcast, UNCHANGED view, outbox' \in Seq(Control), Len(outbox') <= MaxLag,
             asleep' \in BOOLEAN, asleep' => hold' # "none"
      PROVE  ChannelInv'
  BY <1>1, <1>3, BroadcastKeeps DEF ChannelInv, TabTypeOK
<1>4. CASE Others
  <2>1. Next /\ (hold # "none" => hold' # "none")
    <3>1. CASE Start \/ ResumePartie \/ UpdateRoomRules
      BY <3>1 DEF Next, Start, ResumePartie, UpdateRoomRules
    <3>2. ASSUME NEW p \in Player, Join(p) \/ InitialRoll(p) \/ Roll(p) \/ Done(p) \/ TiebreakRoll(p)
          PROVE  Next /\ (hold # "none" => hold' # "none")
      BY <3>2 DEF Next, Join, InitialRoll, Roll, Done, TiebreakRoll
    <3> QED BY <1>4, <3>1, <3>2 DEF Others
  <2> QED BY <1>1, <1>3, <1>4, <2>1 DEF Others
<1>5. CASE Resume
  BY <1>1, <1>3, <1>5 DEF Resume
<1>6. CASE Receive
  <2>1. outbox' \in Seq(Control) /\ Len(outbox') <= MaxLag
    BY <1>1, <1>6 DEF Receive
  <2>2. CASE Accepts(game, Head(outbox))
    BY <1>3, <1>6, <2>1, <2>2 DEF Receive
  <2>3. CASE ~Accepts(game, Head(outbox))
    <3>1. UNCHANGED <<game, hold, inbox, asleep, view>>
      BY <1>6, <2>3 DEF Receive
    <3> QED BY <1>1, <2>1, <3>1 DEF ChannelInv, TabTypeOK, Synced, Newest, WereTables
  <2> QED BY <2>2, <2>3
<1>7. CASE Show
  <2>1. /\ inbox # <<>> /\ view' = inbox[1] /\ inbox' = Tail(inbox)
        /\ UNCHANGED <<game, hold, outbox, asleep>>
    BY <1>7 DEF Show
  <2>2. /\ view' \in Game /\ inbox' \in Seq(Game) /\ Len(inbox') = Len(inbox) - 1
        /\ \A i \in DOMAIN inbox' : inbox'[i] = inbox[i + 1] /\ i + 1 \in DOMAIN inbox
    BY <1>1, <2>1
  <2>3. Newest' = Newest
    <3>1. CASE inbox' = <<>>
      <4>1. Len(inbox) = 1
        BY <1>1, <2>2, <3>1
      <4> QED BY <2>1, <3>1, <4>1 DEF Newest
    <3>2. CASE inbox' # <<>>
      <4>1. Len(inbox') \in DOMAIN inbox'
        BY <2>2, <3>2
      <4> QED BY <1>1, <2>1, <2>2, <3>2, <4>1 DEF Newest
    <3> QED BY <3>1, <3>2
  <2>4. WereTables'
    BY <1>1, <2>1, <2>2 DEF WereTables
  <2>5. Synced'
    BY <1>1, <2>1, <2>3 DEF Synced
  <2>6. TabTypeOK'
    BY <1>1, <2>1, <2>2 DEF TabTypeOK
  <2> QED BY <2>4, <2>5, <2>6 DEF ChannelInv
<1>8. CASE Click
  <2>1. PICK c \in Offered(view) : outbox' = Append(outbox, c)
    BY <1>8 DEF Click
  <2>2. c \in Control
    BY <2>1 DEF Offered, Control
  <2>3. outbox' \in Seq(Control) /\ Len(outbox') <= MaxLag
    BY <1>1, <1>8, <2>1, <2>2 DEF Click
  <2> QED BY <1>1, <1>8, <2>3 DEF Click, ChannelInv, TabTypeOK, Synced, Newest, WereTables
<1> QED BY <1>2, <1>4, <1>5, <1>6, <1>7, <1>8 DEF TabNext

LEMMA TabInvariance == TabSpec => []TabInv
<1>1. TabInit => ChannelInv
  <2> SUFFICES ASSUME TabInit PROVE ChannelInv
    OBVIOUS
  <2>1. view \in Game /\ view.phase = "waiting"
    BY NewGameType DEF TabInit, Blank, Typed, NewGame
  <2>2. game.players = <<>> /\ game.waiting_players = <<>>
    BY DEF TabInit, Init, NewGame
  <2>3. Me \notin Known(game)
    BY <2>2 DEF Known, Seated, Members
  <2>4. <<>> \in Seq(Game) /\ <<>> \in Seq(Control) /\ Len(<<>>) = 0 /\ DOMAIN <<>> = {}
    OBVIOUS
  <2>5. TabTypeOK
    <3>1. inbox = <<>> /\ outbox = <<>> /\ asleep = FALSE
      BY DEF TabInit
    <3>2. inbox \in Seq(Game) /\ outbox \in Seq(Control) /\ Len(inbox) = 0 /\ Len(outbox) = 0
      BY <2>4, <3>1
    <3>3. asleep \in BOOLEAN /\ (asleep => hold # "none")
      BY <3>1, Zenon
    <3>4. Len(inbox) <= MaxLag /\ Len(outbox) <= MaxLag
      BY <3>2, TabAssumption
    <3> QED BY <2>1, <3>2, <3>3, <3>4, Zenon DEF TabTypeOK
  <2>6. WereTables
    BY <2>1, <2>4 DEF TabInit, WereTables, Earned
  <2> QED BY <2>3, <2>5, <2>6 DEF ChannelInv, Synced
<1>2. TabInv /\ ToldInv' /\ [TabNext]_allVars => ChannelInv'
  BY NextChannel
<1> QED BY <1>1, <1>2, ToldInvariance, PTL DEF TabSpec, TabInv

\* The channels between tab and server stay well-formed and within their bounds,
\* and the handler of the tab sleeps only while the table is held.
THEOREM TabTypeCorrect == TabSpec => []TabTypeOK
<1>1. TabInv => TabTypeOK
  BY DEF TabInv, ChannelInv
<1> QED BY <1>1, TabInvariance, PTL

----------------------------------------------------------------------------
(* The controls.                                                           *)

\* Which screen shows which control.
LEMMA ScreensOffer ==
  ASSUME NEW g \in Game
  PROVE  /\ g.phase = "initial_roll" => (Offered(g) = {c \in {"initial_roll"} : MustOpen(g)})
         /\ g.phase = "tiebreak" => (Offered(g) = {c \in {"tiebreak_roll"} : MustThrowAgain(g)})
         /\ g.phase = "finished" => Offered(g) = {}
         /\ g.phase \in {"charge", "decharge"} =>
              (Offered(g) = {c \in {"roll"} : CanRoll(g)} \cup {c \in {"keep"} : CanKeep(g)}
                              \cup {c \in {"done"} : CanDone(g)})
<1>1. CASE g.phase = "initial_roll"
  <2>1. ScreenOf(g) = "InitialRollScreen"
    BY <1>1 DEF ScreenOf
  <2> QED BY <1>1, <2>1 DEF Offered
<1>2. CASE g.phase = "tiebreak"
  <2>1. ScreenOf(g) = "TiebreakScreen"
    BY <1>2 DEF ScreenOf
  <2> QED BY <1>2, <2>1 DEF Offered
<1>3. CASE g.phase = "finished"
  <2>1. ScreenOf(g) = "FinishedScreen"
    BY <1>3 DEF ScreenOf
  <2> QED BY <1>3, <2>1 DEF Offered
<1>4. CASE g.phase \in {"charge", "decharge"}
  <2>1. ScreenOf(g) = "piste"
    BY <1>4 DEF ScreenOf
  <2> QED BY <1>4, <2>1 DEF Offered
<1>5. CASE g.phase = "waiting"
  BY <1>5
<1> QED BY <1>1, <1>2, <1>3, <1>4, <1>5 DEF Game, Phase

\* What the tab offers on the state it shows, the server takes in that state:
\* the hand the table waits for is open, whatever cap and bank rule it is
\* played under.
LEMMA OfferedIsAccepted ==
  ASSUME NEW g \in Game, Asked(g), Turns(g, "none"), Here(g), g.phase # "waiting",
         NEW c \in Offered(g)
  PROVE  Accepts(g, c)
<1>1. CASE g.phase = "initial_roll"
  <2>1. c = "initial_roll" /\ g.initial_rolls[Me] \notin Die
    BY <1>1, ScreensOffer DEF MustOpen
  <2>2. g.initial_rolls[Me] \in {Unasked, Unrolled} /\ g.initial_rolls[Me] # Unasked
    BY <1>1, <2>1, TabAssumption DEF Game, Asked, Here
  <2> QED BY <1>1, <2>1, <2>2 DEF Accepts
<1>2. CASE g.phase = "tiebreak"
  BY <1>2, ScreensOffer DEF MustThrowAgain, Accepts, MayThrowTiebreak
<1>3. CASE g.phase = "finished"
  BY <1>3, ScreensOffer
<1>4. CASE g.phase \in {"charge", "decharge"}
  <2>1. Open(g, CurrentPlayer(g))
    BY <1>4, HandOf DEF Turns
  <2>2. /\ c \in {"roll", "keep", "done"}
        /\ Me = CurrentPlayer(g) /\ g.turn[Me] # NoTurn /\ ~g.turn[Me].done
        /\ c = "roll" => g.turn[Me].rolls_left > 0
        /\ c \in {"keep", "done"} => Throws - g.turn[Me].rolls_left > 0
    <3>1. CASE c = "roll" /\ CanRoll(g)
      BY <3>1 DEF CanRoll, IsMyTurn, HasTurn, MyTurn
    <3>2. CASE c = "keep" /\ CanKeep(g)
      BY <3>2 DEF CanKeep, IsMyTurn, HasTurn, MyTurn, HasRolled, Used
    <3>3. CASE c = "done" /\ CanDone(g)
      BY <3>3 DEF CanDone, IsMyTurn, HasTurn, MyTurn, Used
    <3> QED BY <1>4, <3>1, <3>2, <3>3, ScreensOffer
  <2>3. g.turn[Me].rolls_left \in 0..Throws /\ Throws \in Nat
    BY TabAssumption, BoundsAssumption DEF Game, Turn
  <2>4. CASE c = "roll"
    BY <1>4, <2>1, <2>2, <2>4 DEF Accepts, MayRoll, Open
  <2>5. CASE c \in {"keep", "done"}
    <3>1. MayValidate(g, Me)
      BY <1>4, <2>2, <2>3, <2>5 DEF MayValidate
    <3> QED BY <2>1, <2>2, <2>5, <3>1 DEF Accepts, Open
  <2> QED BY <2>2, <2>4, <2>5
<1> QED BY <1>1, <1>2, <1>3, <1>4 DEF Game, Phase

\* What the server would take of the awaited player, the tab offers.
LEMMA AcceptedIsOffered ==
  ASSUME NEW g \in Game, TiedPlay(g), Here(g), NEW c \in {"initial_roll", "roll", "tiebreak_roll"},
         Accepts(g, c)
  PROVE  c \in Offered(g)
<1>1. CASE c = "initial_roll"
  <2>1. g.phase = "initial_roll" /\ g.initial_rolls[Me] = Unrolled
    BY <1>1 DEF Accepts
  <2>2. MustOpen(g)
    BY <2>1, DiceAssumption DEF MustOpen, Unrolled
  <2> QED BY <1>1, <2>1, <2>2, ScreensOffer
<1>2. CASE c = "roll"
  <2>1. MayRoll(g, Me)
    BY <1>2 DEF Accepts
  <2>2. CanRoll(g)
    BY <2>1 DEF MayRoll, CanRoll, IsMyTurn, HasTurn, MyTurn
  <2>3. g.phase \in {"charge", "decharge"}
    BY <2>1 DEF MayRoll
  <2> QED BY <1>2, <2>2, <2>3, ScreensOffer
<1>3. CASE c = "tiebreak_roll"
  <2>1. g.phase = "tiebreak" /\ g.tiebreak.next_pid = Me
    BY <1>3 DEF Accepts, MayThrowTiebreak
  <2>2. MustThrowAgain(g)
    BY <2>1, TabAssumption, PlayerAssumption DEF TiedPlay, MustThrowAgain
  <2> QED BY <1>3, <2>1, <2>2, ScreensOffer
<1> QED BY <1>1, <1>2, <1>3

\* Once everything has arrived, the tab shows the table.
LEMMA ShowsTheTable ==
  ASSUME TabInv, UpToDate
  PROVE  /\ view = game /\ game \in Game /\ Here(game)
         /\ Told(game) /\ Turns(game, "none") /\ TiedPlay(game)
<1>1. Me \in Known(game)
  BY DEF UpToDate, Here, Known
<1>2. view = game
  BY <1>1 DEF UpToDate, TabInv, ChannelInv, Synced, Newest
<1> QED
  BY <1>2 DEF TabInv, ToldInv, TurnInv, EvenInv, Even, ScoreInv, TypeInv, TypeOK, UpToDate

\* No control of an up-to-date screen is refused: canRoll looks at the throws
\* left and canDone at the throws made, where the server asks for the cap of the
\* cycle and the bank rule, and never do the two disagree.
THEOREM NoOfferIsRefused == TabSpec => []OffersAreAccepted
<1>1. ASSUME TabInv, UpToDate, game.phase # "waiting", NEW c \in Offered(view)
      PROVE  Accepts(game, c)
  BY <1>1, ShowsTheTable, OfferedIsAccepted DEF Told
<1>2. TabInv => OffersAreAccepted
  BY <1>1 DEF OffersAreAccepted
<1> QED BY <1>2, TabInvariance, PTL

\* No up-to-date screen leaves the player the table waits for without a control.
THEOREM NobodyWaitsWithoutControl == TabSpec => []AwaitedIsOffered
<1>1. ASSUME TabInv, UpToDate, NEW c \in {"initial_roll", "roll", "tiebreak_roll"},
             Accepts(game, c)
      PROVE  c \in Offered(view)
  BY <1>1, ShowsTheTable, AcceptedIsOffered
<1>2. TabInv => AwaitedIsOffered
  BY <1>1 DEF AwaitedIsOffered
<1> QED BY <1>2, TabInvariance, PTL

\* The trophy goes to somebody seated with the fewest chips, and whoever lost the
\* partie has more than somebody: the screen may sort by the chips of the last
\* match and never names the player who lost.
THEOREM TrophyNeverToTheLoser == TabSpec => []TrophyIsEarned
<1>1. ASSUME NEW v \in Game, Earned(v), v.phase = "finished"
      PROVE  Winner(v) # v.partie_loser_id
  <2> DEFINE poorest == {p \in Seated(v) : \A q \in Seated(v) : v.tokens[p] <= v.tokens[q]}
             chips == [p \in Seated(v) |-> v.tokens[p]]
  <2>1. PICK q \in Seated(v) : v.tokens[q] < v.tokens[v.partie_loser_id]
    BY <1>1 DEF Earned
  <2>2. Seated(v) \subseteq Player /\ v.tokens \in [Player -> Nat]
    BY SeatedArePlayers DEF Game
  <2>3. chips \in [Seated(v) -> Nat] /\ Seated(v) # {}
    BY <2>1, <2>2
  <2>4. PICK p \in Seated(v) : \A r \in Seated(v) : chips[p] <= chips[r]
    <3> HIDE DEF chips
    <3> QED BY <2>3, LeastExists
  <2>5. p \in poorest \cap Seated(v)
    BY <2>4
  <2>6. Winner(v) = FirstSeated(v, poorest)
    BY DEF Winner
  <2> HIDE DEF poorest
  <2>7. Winner(v) \in poorest
    BY <2>5, <2>6, FirstSeatedType
  <2>8. Winner(v) \in Seated(v) /\ v.tokens[Winner(v)] <= v.tokens[q]
    BY <2>1, <2>7 DEF poorest
  <2> DEFINE w == Winner(v)
  <2> HIDE DEF w
  <2>9. w # v.partie_loser_id
    <3> SUFFICES ASSUME w = v.partie_loser_id PROVE FALSE
      OBVIOUS
    <3>1. v.tokens[w] \in Nat /\ v.tokens[q] \in Nat
      BY <2>1, <2>2, <2>8 DEF w
    <3>2. v.tokens[w] <= v.tokens[q] /\ v.tokens[q] < v.tokens[w]
      BY <2>1, <2>8 DEF w
    <3> QED BY <3>1, <3>2
  <2> QED BY <2>9 DEF w
<1>2. TabInv => TrophyIsEarned
  BY <1>1 DEF TabInv, ChannelInv, TabTypeOK, WereTables, TrophyIsEarned
<1> QED BY <1>2, TabInvariance, PTL

----------------------------------------------------------------------------
(* The rhythm.                                                             *)

LEMMA RollInitialRenews ==
  ASSUME NEW g \in Game, NEW p \in Player, NEW d \in Die, NEW h \in RollInitial(g, p, d)
  PROVE  Renewed(g, h)
<1> DEFINE k == [g EXCEPT !.initial_rolls[p] = d]
           lowest == {q \in Seated(k) : \A r \in Seated(k) : k.initial_rolls[q] <= k.initial_rolls[r]}
           again == [q \in Player |-> IF q \in lowest THEN Unrolled ELSE k.initial_rolls[q]]
<1>1. k \in Game /\ k.turn = g.turn
  BY DEF Game
<1>2. h = k \/ h \in FinalizeOrder(k)
  BY DEF RollInitial
<1>3. \/ h = k \/ h = [k EXCEPT !.initial_rolls = again]
      \/ \E s \in SortedSeatings(k) : h = DoStart([k EXCEPT !.players = s])
  BY <1>2 DEF FinalizeOrder
<1> HIDE DEF k, lowest, again
<1>4. CASE h = k \/ h = [k EXCEPT !.initial_rolls = again]
  <2>1. h.turn = g.turn
    BY <1>1, <1>4 DEF Game
  <2> QED BY <2>1 DEF Renewed
<1>5. ASSUME NEW s \in SortedSeatings(k), h = DoStart([k EXCEPT !.players = s])
      PROVE  Renewed(g, h)
  <2> DEFINE t == [k EXCEPT !.players = s]
  <2>1. s \in Seq(Player)
    BY <1>1, SeatingsAreOnce
  <2>2. t \in Game /\ t.turn = g.turn
    BY <1>1, <2>1 DEF Game
  <2> HIDE DEF t
  <2>3. h.turn = FreshTurns(t, Seated(t))
    BY <1>5, <2>2, DoStartWrites DEF t
  <2> QED BY <2>2, <2>3 DEF FreshTurns, Renewed
<1> QED BY <1>3, <1>4, <1>5

\* Nothing but a throw of its player adds to the throws of a turn.
LEMMA OnlyRollsThrow ==
  ASSUME TurnInv, [Next]_vars, ~Roll(Me)
  PROVE  \/ game'.turn[Me] \in {NewTurn, NoTurn}
         \/ game'.turn[Me].rolls_left = game.turn[Me].rolls_left
<1>1. /\ game \in Game /\ Typed(game) /\ Sound(game) /\ Even(game) /\ HoldFits
      /\ Turns(game, hold) /\ hold \in {"none", "turn", "tiebreak"} /\ Me \in Player
      /\ game.turn \in [Player -> Turn]
  BY TabAssumption
     DEF TurnInv, EvenInv, ScoreInv, TypeInv, TypeOK, TurnsHaveRanks, Typed, Game
<1>2. Renewed(game, game') => \/ game'.turn[Me] \in {NewTurn, NoTurn}
                              \/ game'.turn[Me].rolls_left = game.turn[Me].rolls_left
  BY <1>1 DEF Renewed
<1>3. game'.turn = game.turn => Renewed(game, game')
  BY DEF Renewed
<1>4. CASE UNCHANGED vars
  BY <1>2, <1>3, <1>4 DEF vars
<1>5. CASE Start \/ UpdateRoomRules
  BY <1>1, <1>2, <1>3, <1>5 DEF Start, StartInitialRoll, UpdateRoomRules, QueueRule, Game
<1>6. CASE ResumeTurn
  BY <1>1, <1>2, <1>6, EndTurnRenews DEF ResumeTurn
<1>7. CASE ResumeTiebreak
  BY <1>1, <1>2, <1>7, ResolveTiebreakRenews DEF ResumeTiebreak
<1>8. CASE ResumePartie
  <2>1. game'.turn = FreshTurns(game, Seated(game))
    BY <1>1, <1>8, StartNewPartieWrites DEF ResumePartie
  <2>2. Renewed(game, game')
    BY <2>1 DEF Renewed, FreshTurns
  <2> QED BY <1>2, <2>2
<1>9. ASSUME NEW p \in Player, Join(p)
      PROVE  game'.turn = game.turn
  BY <1>1, <1>9 DEF Join, JoinGame, Game
<1>10. ASSUME NEW p \in Player, InitialRoll(p)
       PROVE  Renewed(game, game')
  BY <1>1, <1>10, RollInitialRenews DEF InitialRoll
<1>11. ASSUME NEW p \in Player, Roll(p)
       PROVE  game'.turn[Me] = game.turn[Me]
  <2>1. p # Me
    BY <1>11
  <2>2. PICK rank \in Rank : game' = Throw(game, p, rank)
    BY <1>11 DEF Roll
  <2> QED BY <1>1, <2>1, <2>2 DEF Throw, Game
<1>12. ASSUME NEW p \in Player, Done(p)
       PROVE  game'.turn[Me].rolls_left = game.turn[Me].rolls_left
  <2>1. game' = Validate(game, p)
    BY <1>12 DEF Done
  <2>2. game'.turn = [game.turn EXCEPT ![p] = [game.turn[p] EXCEPT !.done = TRUE]]
    BY <1>1, <2>1 DEF Validate, Game
  <2> QED BY <1>1, <2>2 DEF Turn
<1>13. ASSUME NEW p \in Player, TiebreakRoll(p)
       PROVE  game'.turn = game.turn
  BY <1>1, <1>13 DEF TiebreakRoll, ThrowTiebreak, Game
<1> QED
  BY <1>2, <1>3, <1>4, <1>5, <1>6, <1>7, <1>8, <1>9, <1>10, <1>11, <1>12, <1>13 DEF Next

\* The throw of the tab's player ends its turn exactly when the page counts no
\* throw left.
LEMMA RollShowsTheRhythm ==
  ASSUME NEW g \in Game, Paced(g), Hand(g, "none"), MayRoll(g, Me), NEW rank \in Rank,
         HasTurn(Throw(g, Me, rank))
  PROVE  ThrowsShownLeft(Throw(g, Me, rank)) <=> ~MyTurn(Throw(g, Me, rank)).done
<1> DEFINE left == g.turn[Me].rolls_left - 1
           at_max == \/ left = 0
                     \/ OneThrow(g)
                     \/ Me # g.round_starter_id /\ Throws - left >= g.max_throws
           t == [rolls_left |-> left, rank |-> rank, done |-> at_max]
           cap == IF at_max /\ OneThrow(g) /\ Me = g.round_starter_id THEN 1 ELSE g.max_throws
           h == Throw(g, Me, rank)
<1>1. /\ g.turn[Me].rolls_left \in 1..Throws /\ Throws \in Nat \ {0} /\ Me \in Player
      /\ left \in 0..(Throws - 1)
  BY TabAssumption, BoundsAssumption DEF Game, Turn, MayRoll
<1>2. h = [g EXCEPT !.turn[Me] = t, !.max_throws = cap]
  BY DEF Throw, Game
<1>3. t.done = at_max /\ t.rolls_left = left
  OBVIOUS
<1> HIDE DEF t, h
<1>4. h.turn[Me] = t /\ h.max_throws = cap
  BY <1>1, <1>2 DEF Game
<1>5. /\ g.phase \in {"charge", "decharge"} /\ ~g.turn[Me].done /\ Me = CurrentPlayer(g)
      /\ OneThrow(g) => Throws - g.turn[Me].rolls_left = 0
  BY DEF MayRoll, RollsUsed
<1> HIDE DEF left
<1>6. Used(h) = Throws - left /\ Used(h) > 0
  BY <1>1, <1>3, <1>4 DEF Used, MyTurn, h
<1>7. ThrowsShownLeft(h) <=> Throws - left < cap
  BY <1>4, <1>6 DEF ThrowsShownLeft, StarterStillFree, HasRolled
<1>8. OneThrow(g) => Throws - left = 1
  BY <1>1, <1>5 DEF left
<1>9. g.max_throws \in 1..Throws
  BY DEF Hand, Capped
<1>10. CASE Me = g.round_starter_id
  <2>1. g.max_throws = Throws
    BY <1>5, <1>10 DEF Paced
  <2>2. Throws - left < cap <=> ~at_max
    BY <1>1, <1>8, <1>10, <2>1
  <2> QED BY <1>3, <1>4, <1>7, <2>2 DEF MyTurn, h
<1>11. CASE Me # g.round_starter_id
  <2>1. g.turn[g.round_starter_id].done
    BY <1>5, <1>11, HandOf
  <2>2. OneThrow(g) => g.max_throws = 1
    BY <1>5, <2>1 DEF Paced
  <2>3. Throws - left < cap <=> ~at_max
    BY <1>1, <1>8, <1>9, <1>11, <2>2
  <2> QED BY <1>3, <1>4, <1>7, <2>3 DEF MyTurn, h
<1> QED BY <1>10, <1>11

\* The rhythm a player reads off the screen is the one the server keeps, for the
\* starter and for who follows, under both bank rules: a throw ends the turn by
\* itself exactly when the state sent after it shows no throw left.
THEOREM RhythmIsShown == TabSpec => RhythmShownIsKept
<1>1. ASSUME ToldInv, [Next]_vars, ThrowsOnce
      PROVE  ThrowsShownLeft(game') <=> ~MyTurn(game').done
  <2>1. TurnInv /\ Told(game) /\ game \in Game /\ Me \in Player /\ Throws \in Nat
        /\ game.turn[Me].rolls_left \in 0..Throws
    BY <1>1, TabAssumption, BoundsAssumption
       DEF ToldInv, TurnInv, EvenInv, ScoreInv, TypeInv, TypeOK, Game, Turn
  <2>2. HasTurn(game) /\ HasTurn(game') /\ Used(game') = Used(game) + 1
    BY <1>1 DEF ThrowsOnce
  <2>3. /\ Used(game) = Throws - game.turn[Me].rolls_left
        /\ Used(game') = Throws - game'.turn[Me].rolls_left /\ game'.turn[Me] # NoTurn
    BY <2>2 DEF Used, MyTurn, HasTurn
  <2>4. Roll(Me)
    <3> SUFFICES ASSUME ~Roll(Me) PROVE FALSE
      OBVIOUS
    <3>1. game'.turn[Me] = NewTurn \/ game'.turn[Me].rolls_left = game.turn[Me].rolls_left
      BY <1>1, <2>1, <2>3, OnlyRollsThrow
    <3> QED BY <2>1, <2>2, <2>3, <3>1 DEF NewTurn
  <2>5. PICK rank \in Rank : game' = Throw(game, Me, rank)
    BY <2>4 DEF Roll
  <2>6. MayRoll(game, Me) /\ Hand(game, "none")
    BY <2>1, <2>4, RollIsAwake DEF Roll
  <2> QED BY <2>1, <2>2, <2>5, <2>6, RollShowsTheRhythm DEF Told
<1>2. ToldInv /\ [TabNext]_allVars =>
        [ThrowsOnce => (ThrowsShownLeft(game') <=> ~MyTurn(game').done)]_allVars
  BY <1>1, TabStepIsTableStep
<1> QED BY <1>2, ToldInvariance, PTL DEF TabSpec, RhythmShownIsKept
=============================================================================
