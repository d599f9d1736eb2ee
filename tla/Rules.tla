------------------------------- MODULE Rules -------------------------------
(***************************************************************************)
(* The rules engine of one 421 room: app/game/logic.py, and the parts of   *)
(* the play handlers of app/game/ws.py that only rewrite the Game object.  *)
(* The room is one record, as it is one Game object in the code; each      *)
(* function that rewrites the object is an operator from a game to a game  *)
(* (or to a set of games, where the outcome is a choice).  Table.tla and   *)
(* Room.tla are the state machines built from these operators.             *)
(*                                                                         *)
(* Data: dice are their rank and the chips ("fiches") that rank is worth;  *)
(* which dice were kept only limits the next rank, so a throw may show any *)
(* rank.  round_num, partie_number, the manche counters and the journal    *)
(* are left out: no guard reads them.                                      *)
(*                                                                         *)
(* X_Fault is X with a plausible mistake in it, kept beside X to show that *)
(* the properties notice; nothing uses it.                                 *)
(***************************************************************************)
EXTENDS Integers, Sequences, Functions

CONSTANTS
  Player,         \* player ids; an id is used once, as uuid4 ids are
  NoPlayer,       \* Python's None where an id is expected
  Chips,          \* chips of a match: 11
  Throws,         \* throws of a turn: 3
  Die,            \* faces of the die of the initial roll: 1..6
  Fiches,         \* what each combination is worth, from the weakest on
  MaxPlayers,     \* room capacity, 2..5
  PointsToLose,   \* round_points_to_lose: 5
  RuleChoices     \* the bank rules a host may ask for; {} when nobody edits

ASSUME PlayerAssumption == NoPlayer \notin Player
ASSUME BoundsAssumption ==
  /\ Chips \in Nat \ {0} /\ Throws \in Nat \ {0}
  /\ MaxPlayers \in Nat /\ MaxPlayers >= 2 /\ PointsToLose \in Nat \ {0}
ASSUME DiceAssumption ==
  /\ Die \subseteq Nat \ {0} /\ Die # {} /\ Fiches \in Seq(Nat) /\ Fiches # <<>>
ASSUME RuleAssumption == RuleChoices \subseteq {"sec", "free"}

----------------------------------------------------------------------------
(* The Game object.                                                        *)

\* The rank classify() gives to thrown dice, as its place in the hierarchy.
Rank == 1..Len(Fiches)

Phase == {"waiting", "initial_roll", "charge", "decharge", "tiebreak", "finished"}
MaybePlayer == Player \cup {NoPlayer}

Unasked  == -1      \* no key in initial_rolls
Unrolled == 0       \* key present, value None

\* PlayerTurn; NoTurn is player.turn = None.
Turn   == [rolls_left : 0..Throws, rank : Rank \cup {0}, done : BOOLEAN]
NoTurn == [rolls_left |-> 0, rank |-> 0, done |-> FALSE]
NewTurn == [rolls_left |-> Throws, rank |-> 0, done |-> FALSE]

\* game.tiebreak.  tied_pids is the members of "order" that are in "tied";
\* throws[p] = 0 when p has not thrown.
Tiebreak == [order : Seq(Player), tied : SUBSET Player,
             throws : [Player -> Rank \cup {0}], next_pid : MaybePlayer,
             penalty : Nat, return_phase : Phase, original_winner_id : MaybePlayer]
NoTiebreak == [order |-> <<>>, tied |-> {}, throws |-> [p \in Player |-> 0],
               next_pid |-> NoPlayer, penalty |-> 0, return_phase |-> "charge",
               original_winner_id |-> NoPlayer]

Game == [phase : Phase, players : Seq(Player), waiting_players : Seq(Player),
         current_index : Nat, pool : Nat, tokens : [Player -> Nat],
         turn : [Player -> Turn], initial_rolls : [Player -> Die \cup {Unasked, Unrolled}],
         max_throws : Nat, round_starter_id : MaybePlayer, host_player_id : MaybePlayer,
         match_losses : [Player -> Nat], round_points : [Player -> Nat],
         out_of_match : SUBSET Player, partie_loser_id : MaybePlayer,
         tiebreak : Tiebreak, bank_rule : {"sec", "free"},
         pending_rule : {"sec", "free", "none"}, dissolving : BOOLEAN]

\* create_game: an empty room waiting for its host.
NewGame(rule) ==
  [phase |-> "waiting", players |-> <<>>, waiting_players |-> <<>>,
   current_index |-> 0, pool |-> Chips, tokens |-> [p \in Player |-> 0],
   turn |-> [p \in Player |-> NoTurn], initial_rolls |-> [p \in Player |-> Unasked],
   max_throws |-> Throws, round_starter_id |-> NoPlayer, host_player_id |-> NoPlayer,
   match_losses |-> [p \in Player |-> 0], round_points |-> [p \in Player |-> 0],
   out_of_match |-> {}, partie_loser_id |-> NoPlayer, tiebreak |-> NoTiebreak,
   bank_rule |-> rule, pending_rule |-> "none", dissolving |-> FALSE]

----------------------------------------------------------------------------
(* Seats.                                                                  *)

Members(s) == {s[i] : i \in DOMAIN s}
Seated(g)  == Members(g.players)
Active(g)  == Seated(g) \ g.out_of_match
Smallest(S) == CHOOSE n \in S : \A m \in S : n <= m
Lesser(m, n) == IF m <= n THEN m ELSE n

\* The seat k places after the first one, counted round the table from 0.
SeatAt(g, k) == g.players[(k % Len(g.players)) + 1]
IndexOf(g, p) == Smallest({i \in 0..(Len(g.players) - 1) : g.players[i + 1] = p})
\* next((i for i, p ...  if p.id == pid), 0)
IndexOrZero(g, p) == IF p \in Seated(g) THEN IndexOf(g, p) ELSE 0
FirstSeated(g, S) == g.players[Smallest({i \in DOMAIN g.players : g.players[i] \in S})]

\* Game.current_player: the first active seat from current_index on.
StepsToActive(g, from) ==
  Smallest({k \in from..(from + Len(g.players) - 1) :
              SeatAt(g, g.current_index + k) \notin g.out_of_match})
CurrentPlayer(g) ==
  IF Active(g) = {} THEN NoPlayer ELSE SeatAt(g, g.current_index + StepsToActive(g, 0))

\* Game.all_done
AllDone(g) == \A p \in Seated(g) : p \in g.out_of_match \/ g.turn[p].done

\* Game.advance: on to the next active seat; a full turn when nobody is active.
Advance(g) ==
  IF Active(g) = {} THEN g
  ELSE [g EXCEPT !.current_index = (g.current_index + StepsToActive(g, 1)) % Len(g.players)]

FreshTurns(g, S) == [p \in Player |-> IF p \in S THEN NewTurn ELSE g.turn[p]]
NoChips_Forgotten(g) == g.tokens
NoChips(g) == [p \in Player |-> IF p \in Seated(g) THEN 0 ELSE g.tokens[p]]

----------------------------------------------------------------------------
(* Opening: who plays first.                                               *)

\* _start_initial_roll
StartInitialRoll(g) ==
  [g EXCEPT !.phase = "initial_roll",
            !.initial_rolls = [p \in Player |-> IF p \in Seated(g) THEN Unrolled ELSE Unasked]]

\* _do_start.  Nothing but the display reads the initial rolls from here on,
\* so the model forgets them.
DoStart(g) ==
  [g EXCEPT !.phase = "charge", !.pool = Chips, !.current_index = 0,
            !.max_throws = Throws, !.out_of_match = {}, !.tokens = NoChips(g),
            !.turn = FreshTurns(g, Seated(g)), !.round_starter_id = g.players[1],
            !.initial_rolls = [p \in Player |-> Unasked]]

\* The seating players.sort(key=roll) leaves: by roll, equal rolls as before.
SortedSeatings(g) ==
  LET before(p, q) == \/ g.initial_rolls[p] < g.initial_rolls[q]
                      \/ /\ g.initial_rolls[p] = g.initial_rolls[q]
                         /\ IndexOf(g, p) < IndexOf(g, q)
  IN  {s \in [DOMAIN g.players -> Seated(g)] :
         \A i, j \in DOMAIN g.players : i < j => before(s[i], s[j])}

\* _finalize_order: players tied for the lowest roll again, else the lowest
\* starts.
FinalizeOrder(g) ==
  LET lowest == {p \in Seated(g) : \A q \in Seated(g) : g.initial_rolls[p] <= g.initial_rolls[q]}
  IN  IF \E p \in Seated(g) : lowest = {p}
      THEN {DoStart([g EXCEPT !.players = s]) : s \in SortedSeatings(g)}
      ELSE {[g EXCEPT !.initial_rolls =
               [p \in Player |-> IF p \in lowest THEN Unrolled ELSE g.initial_rolls[p]]]}

----------------------------------------------------------------------------
(* Matches and parties.                                                    *)

\* _admit_waiting; match_losses[ml] was written before it and is kept.
AdmitWaiting(g) ==
  LET new == Members(g.waiting_players)
  IN  [g EXCEPT !.players = @ \o g.waiting_players, !.waiting_players = <<>>,
                !.match_losses = [p \in Player |-> IF p \in new THEN 0 ELSE @[p]],
                !.turn = FreshTurns(g, new)]

\* _start_new_set: a new match, opened by the player who lost the last one.
StartNewSet(g, loser) ==
  [g EXCEPT !.out_of_match = {}, !.tokens = NoChips(g), !.turn = FreshTurns(g, Seated(g)),
            !.pool = Chips, !.phase = "charge", !.max_throws = Throws,
            !.current_index = IndexOrZero(g, loser), !.round_starter_id = loser]

\* The block of _finalize_cycle that applies pending_room_rules.
ApplyPendingRules(g) ==
  IF g.pending_rule = "none" THEN g
  ELSE [g EXCEPT !.bank_rule = g.pending_rule, !.pending_rule = "none"]

\* Its lines that turn two lost matches into a point.
LosePoint_NoReset(g, ml) == [g EXCEPT !.round_points[ml] = @ + 1]
LosePoint_OthersKeep(g, ml) == [g EXCEPT !.round_points[ml] = @ + 1, !.match_losses[ml] = 0]
LosePoint(g, ml) ==
  [g EXCEPT !.round_points[ml] = @ + 1, !.match_losses = [p \in Player |-> 0]]

\* The "if manche" branch of _finalize_cycle: ml holds every chip.  When ml
\* has lost the partie the caller waits in persist_completed_partie
\* (partie_loser_id is set until it returns, see StartNewPartie).
EndMatch(g, ml) ==
  LET count  == g.match_losses[ml] + 1
      h      == AdmitWaiting([g EXCEPT !.match_losses[ml] = count])
      scored == LosePoint(h, ml)
  IN  IF count < 2 THEN StartNewSet(h, ml)
      ELSE IF scored.round_points[ml] >= PointsToLose
           THEN [scored EXCEPT !.partie_loser_id = ml, !.phase = "finished"]
           ELSE StartNewSet(ApplyPendingRules(scored), ml)

\* _start_new_partie
StartNewPartie(g) ==
  LET starter == IF g.partie_loser_id \in Seated(g) THEN g.partie_loser_id
                 ELSE IF g.players # <<>> THEN g.players[1] ELSE NoPlayer
  IN  [g EXCEPT !.partie_loser_id = NoPlayer, !.pool = Chips,
                !.round_points = [p \in Player |-> 0], !.match_losses = [p \in Player |-> 0],
                !.out_of_match = {}, !.tiebreak = NoTiebreak, !.max_throws = Throws,
                !.tokens = NoChips(g), !.turn = FreshTurns(g, Seated(g)),
                !.round_starter_id = starter, !.current_index = IndexOrZero(g, starter),
                !.phase = "charge"]

\* The rest of _finalize_cycle: the next cycle, opened by "starter" when the
\* last one had a loser.
OpenedBy_IndexStays(g, starter) ==
  IF starter = NoPlayer THEN g ELSE [g EXCEPT !.round_starter_id = starter]
OpenedBy(g, starter) ==
  IF starter = NoPlayer THEN g
  ELSE [g EXCEPT !.round_starter_id = starter, !.current_index = IndexOrZero(g, starter)]
NextCycle(g, starter) ==
  LET h == OpenedBy(g, starter)
  IN  [h EXCEPT !.max_throws = Throws,
                !.turn = [p \in Player |-> IF p \notin Seated(g) THEN @[p]
                                           ELSE IF p \in g.out_of_match THEN NoTurn ELSE NewTurn]]

\* In a décharge a player without chips sits out the rest of the match.
SitOut_AnyPhase(g) ==
  [g EXCEPT !.out_of_match = @ \cup {p \in Seated(g) : g.tokens[p] = 0}]
SitOut(g) ==
  IF g.phase = "decharge"
  THEN [g EXCEPT !.out_of_match = @ \cup {p \in Seated(g) : g.tokens[p] = 0}]
  ELSE g

\* _finalize_cycle
FinalizeCycle(g, starter) ==
  LET full == {p \in Seated(g) : g.tokens[p] >= Chips}
  IN  IF full # {} THEN EndMatch(g, FirstSeated(g, full)) ELSE NextCycle(SitOut(g), starter)

----------------------------------------------------------------------------
(* Settling a cycle.                                                       *)

\* _play_order reversed, from the last seat before the starter to the starter.
\* The code also drops players who sit out; they are never tied.
ReversePlayOrder(g) ==
  LET n == Len(g.players)
      s == IndexOrZero(g, g.round_starter_id)
  IN  [k \in 1..n |-> SeatAt(g, s + n - k)]

FirstTied_Again(order, tied, from) ==
  LET later == {k \in DOMAIN order : k >= from - 1 /\ order[k] \in tied}
  IN  IF later = {} THEN NoPlayer ELSE order[Smallest(later)]
FirstTied(order, tied, from) ==
  LET later == {k \in DOMAIN order : k >= from /\ order[k] \in tied}
  IN  IF later = {} THEN NoPlayer ELSE order[Smallest(later)]

\* _enter_tiebreak
EnterTiebreak(g, tied, penalty, return_phase, winner) ==
  [g EXCEPT !.phase = "tiebreak", !.turn = FreshTurns(g, tied),
            !.tiebreak = [order |-> ReversePlayOrder(g), tied |-> tied,
                          throws |-> [p \in Player |-> 0],
                          next_pid |-> FirstTied(ReversePlayOrder(g), tied, 1),
                          penalty |-> penalty, return_phase |-> return_phase,
                          original_winner_id |-> winner]]

\* Charge: the loser takes the penalty from the bank; an empty bank turns the
\* game to décharge.  "phase" is the phase a bank that is not empty leaves.
TakeFromBank_Overdraws(g, loser, penalty, phase) ==
  [g EXCEPT !.tokens[loser] = @ + penalty, !.pool = @ - penalty,
            !.phase = IF g.pool - penalty = 0 THEN "decharge" ELSE phase]
TakeFromBank_LateSwitch(g, loser, penalty, phase) ==
  LET taken == Lesser(penalty, g.pool)
  IN  [g EXCEPT !.tokens[loser] = @ + taken, !.pool = @ - taken,
                !.phase = IF g.pool = 0 THEN "decharge" ELSE phase]
TakeFromBank(g, loser, penalty, phase) ==
  LET taken == Lesser(penalty, g.pool)
  IN  [g EXCEPT !.tokens[loser] = @ + taken, !.pool = @ - taken,
                !.phase = IF g.pool - taken = 0 THEN "decharge" ELSE phase]

\* Décharge: the winner gives the loser up to the penalty, of what it has.
GiveToLoser_WinnerKeeps(g, winner, loser, penalty) ==
  IF winner \notin Seated(g) THEN g
  ELSE [g EXCEPT !.tokens[loser] = @ + Lesser(penalty, g.tokens[winner])]
GiveToLoser(g, winner, loser, penalty) ==
  IF winner \notin Seated(g) THEN g
  ELSE LET given == Lesser(penalty, g.tokens[winner])
           paid  == [g.tokens EXCEPT ![winner] = @ - given]
       IN  [g EXCEPT !.tokens = [paid EXCEPT ![loser] = @ + given]]

\* _resolve_round with one player left: the room is dissolved.
Disband_StaysOpen(g) == [g EXCEPT !.phase = "finished"]
Disband(g) == [g EXCEPT !.phase = "finished", !.dissolving = TRUE]

\* _resolve_round: compare the active players' ranks.  The else of its
\* "phase == CHARGE" test is every other phase, not only décharge.
ResolveRound(g) ==
  LET playing == {p \in Active(g) : g.turn[p] # NoTurn}
      top == {p \in playing : \A q \in playing : g.turn[q].rank <= g.turn[p].rank}
      low == {p \in playing : \A q \in playing : g.turn[p].rank <= g.turn[q].rank}
      best == CHOOSE p \in top : TRUE
      worth == Fiches[g.turn[best].rank]
      penalty == IF worth = 0 THEN 1 ELSE worth
      winner == IF top = {best} THEN best ELSE NoPlayer
      loser == CHOOSE p \in low : TRUE
  IN  IF Len(g.players) = 1
      THEN Disband(g)
      ELSE IF playing = {} \/ \E p \in playing : playing = {p}
      THEN FinalizeCycle(g, NoPlayer)
      ELSE IF low # {loser}
      THEN EnterTiebreak(g, low, penalty, g.phase, winner)
      ELSE IF g.phase = "charge"
      THEN FinalizeCycle(TakeFromBank(g, loser, penalty, "charge"), loser)
      ELSE FinalizeCycle(GiveToLoser(g, winner, loser, penalty), loser)

Threw(g) == {p \in Player : g.tiebreak.throws[p] # 0}
LowestThrows(g) ==
  {p \in Threw(g) : \A q \in Threw(g) : g.tiebreak.throws[p] <= g.tiebreak.throws[q]}

\* _resolve_tiebreak raises when nobody threw (min of nothing) and when the
\* loser is no longer seated (next of nothing); the game stays as it was.
TiebreakRaises(g) ==
  /\ g.tiebreak # NoTiebreak
  /\ \/ Threw(g) = {}
     \/ \E p \in Player \ Seated(g) : LowestThrows(g) = {p}

\* _resolve_tiebreak: the lowest throw loses, at the ORIGINAL combination's
\* price; a new tie throws again.
ResolveTiebreak(g) ==
  LET tb == g.tiebreak
      low == LowestThrows(g)
      loser == CHOOSE p \in low : TRUE
      settled == IF tb.return_phase = "charge"
                 THEN TakeFromBank(g, loser, tb.penalty, "charge")
                 ELSE [GiveToLoser(g, tb.original_winner_id, loser, tb.penalty)
                         EXCEPT !.phase = "decharge"]
  IN  IF tb = NoTiebreak \/ TiebreakRaises(g) THEN g
      ELSE IF low # {loser}
      THEN EnterTiebreak(g, low, tb.penalty, tb.return_phase, tb.original_winner_id)
      ELSE FinalizeCycle([settled EXCEPT !.tiebreak = NoTiebreak], loser)

----------------------------------------------------------------------------
(* Throwing (the roll, done and tiebreak_roll handlers of ws.py).          *)

RollsUsed(g, p) == Throws - g.turn[p].rolls_left
OneThrow(g) == g.phase = "charge" /\ g.bank_rule = "sec"

MayRoll(g, p) ==
  /\ g.phase \in {"charge", "decharge"} /\ p = CurrentPlayer(g)
  /\ g.turn[p] # NoTurn /\ ~g.turn[p].done /\ g.turn[p].rolls_left > 0
  /\ IF OneThrow(g) THEN RollsUsed(g, p) = 0
     ELSE p = g.round_starter_id \/ RollsUsed(g, p) < g.max_throws

\* One throw; validated automatically when the player has no throw left.
Throw(g, p, rank) ==
  LET left   == g.turn[p].rolls_left - 1
      at_max == \/ left = 0
                \/ OneThrow(g)
                \/ p # g.round_starter_id /\ Throws - left >= g.max_throws
  IN  [g EXCEPT !.turn[p] = [rolls_left |-> left, rank |-> rank, done |-> at_max],
                !.max_throws = IF at_max /\ OneThrow(g) /\ p = g.round_starter_id
                               THEN 1 ELSE @]

MayValidate(g, p) ==
  /\ g.phase \in {"charge", "decharge"} /\ p = CurrentPlayer(g)
  /\ g.turn[p] # NoTurn /\ g.turn[p].rolls_left < Throws

\* "done"; the starter's number of throws becomes the cap of the cycle.
Validate_NoCap(g, p) == [g EXCEPT !.turn[p].done = TRUE]
Validate(g, p) ==
  [g EXCEPT !.turn[p].done = TRUE,
            !.max_throws = IF p # g.round_starter_id THEN @
                           ELSE IF OneThrow(g) THEN 1 ELSE RollsUsed(g, p)]

\* The end of a turn, after the hold: advance, and settle a complete cycle.
EndTurn(g) ==
  LET h == Advance(g) IN IF AllDone(h) THEN ResolveRound(h) ELSE h

MayThrowTiebreak(g, p) == g.phase = "tiebreak" /\ g.tiebreak.next_pid = p

\* A tiebreak throw passes the hand to the next tied player, if there is one.
ThrowTiebreak(g, p, rank) ==
  LET tb == g.tiebreak
      at == Smallest({k \in DOMAIN tb.order : tb.order[k] = p})
  IN  [g EXCEPT !.tiebreak.throws[p] = rank,
                !.tiebreak.next_pid = FirstTied(tb.order, tb.tied, at + 1)]

----------------------------------------------------------------------------
(* Joining and rules.                                                      *)

Known(g) == Seated(g) \cup Members(g.waiting_players)

\* join_game: a seat before the game starts, the waiting list afterwards; the
\* capacity only limits the seats.
MayJoin(g, p) ==
  /\ p \notin Known(g)
  /\ g.phase \in {"waiting", "initial_roll"} => Len(g.players) < MaxPlayers
JoinGame(g, p) ==
  IF g.phase \in {"waiting", "initial_roll"}
  THEN [g EXCEPT !.players = Append(@, p),
                 !.initial_rolls[p] = IF g.phase = "initial_roll" THEN Unrolled ELSE @,
                 !.host_player_id = IF @ = NoPlayer THEN p ELSE @]
  ELSE [g EXCEPT !.waiting_players = Append(@, p)]

\* update_room_rules: asking for the rule in force cancels a pending change.
QueueRule_AtOnce(g, rule) == [g EXCEPT !.bank_rule = rule]
QueueRule(g, rule) ==
  [g EXCEPT !.pending_rule = IF rule = g.bank_rule THEN "none" ELSE rule]

\* The initial roll of p shows d; the last roll settles the order.
RollInitial(g, p, d) ==
  LET h == [g EXCEPT !.initial_rolls[p] = d]
  IN  IF \E q \in Player : h.initial_rolls[q] = Unrolled THEN {h} ELSE FinalizeOrder(h)

----------------------------------------------------------------------------
(* Vocabulary of the properties.                                           *)

InPlay == {"charge", "decharge", "tiebreak"}
\* Charge or décharge, a tiebreak counting as the phase it returns to.
PlayPhase(g) == IF g.phase = "tiebreak" THEN g.tiebreak.return_phase ELSE g.phase
Total(f, S) == FoldFunctionOnSet(LAMBDA m, n : m + n, 0, f, S)

RanksKnown(g) ==
  \A p \in Player : g.turn[p] = NoTurn \/ g.turn[p] = NewTurn \/ g.turn[p].rank # 0

ConservesChips(g) == g.phase \in InPlay => g.pool + Total(g.tokens, Seated(g)) = Chips

PoolFitsPhase(g) ==
  g.phase \in InPlay => /\ PlayPhase(g) \in {"charge", "decharge"}
                        /\ PlayPhase(g) = "charge" <=> g.pool > 0

StarterLeads(g) ==
  g.phase \in {"charge", "decharge"} =>
    LET s == g.round_starter_id
    IN  /\ s \in Active(g)
        /\ \A p \in Active(g) \ {s} :
             g.turn[p].rolls_left < Throws =>
               g.turn[s].done /\ RollsUsed(g, p) <= RollsUsed(g, s)

DuelGoesOn(g) ==
  g.phase \in InPlay =>
    /\ \E p, q \in Active(g) : p # q
    /\ PlayPhase(g) = "decharge" => \A p \in Active(g) : g.tokens[p] > 0

ScoresFit(g) ==
  \A p \in Player :
    /\ g.match_losses[p] <= 1
    /\ g.round_points[p] <= PointsToLose
    /\ g.round_points[p] = PointsToLose <=> g.partie_loser_id = p
=============================================================================
