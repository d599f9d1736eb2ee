---------------------------- MODULE RulesProofs -----------------------------
(***************************************************************************)
(* Lemmas on the engine of Rules.tla, for any number of players, chips,    *)
(* throws and combinations. The engine's functions are operators from a    *)
(* game to a game, so each has a lemma of its own: from a well-formed game *)
(* it makes a well-formed game. The theorems about the table (TableProofs) *)
(* and about the room (RoomProofs) rest on them.                           *)
(***************************************************************************)
EXTENDS Rules, TLAPS, WellFoundedInduction, Folds, FiniteSetTheorems

----------------------------------------------------------------------------
(* Least elements and the arithmetic of seats.                             *)

\* A set of naturals that is not empty has a smallest element: Smallest is it.
LEMMA SmallestIn ==
  ASSUME NEW S \in SUBSET Nat, S # {}
  PROVE  Smallest(S) \in S /\ \A m \in S : Smallest(S) <= m
<1> DEFINE R == OpToRel(<, Nat)
<1>1. \A x, y \in Nat : x < y => <<x, y>> \in R
  BY Zenon DEF OpToRel
<1>2. PICK n \in S : \A m \in S : ~ (<<m, n>> \in R)
  BY NatLessThanWellFounded, WFMin, Zenon
<1>3. \A m \in S : n <= m
  <2> HIDE DEF R
  <2> SUFFICES ASSUME NEW m \in S PROVE n <= m
    OBVIOUS
  <2>1. ~(m < n)
    BY <1>1, <1>2, Zenon
  <2> QED BY <2>1
<1> QED BY <1>3 DEF Smallest

\* A remainder does not see whole turns of the table.
LEMMA ModShift ==
  ASSUME NEW n \in Nat \ {0}, NEW q \in Int, NEW r \in 0..(n - 1)
  PROVE  (r + n * q) % n = r
  OBVIOUS

\* A remainder is the place of a seat.
LEMMA ModRange ==
  ASSUME NEW n \in Nat \ {0}, NEW a \in Int
  PROVE  a % n \in 0..(n - 1)
  OBVIOUS

\* Quotient and remainder.
LEMMA DivMod ==
  ASSUME NEW n \in Nat \ {0}, NEW a \in Int
  PROVE  a = n * (a \div n) + (a % n) /\ (a \div n) \in Int
  OBVIOUS

\* Some k of n places in a row from "from" on comes down to place r.
Reaches(n, c, from, r) == \E k \in from..(from + n - 1) : (c + k) % n = r

\* n consecutive steps from any place round a table of n visit every seat.
LEMMA ModReach ==
  ASSUME NEW n \in Nat \ {0}, NEW c \in Nat, NEW from \in Nat, NEW r \in 0..(n - 1)
  PROVE  Reaches(n, c, from, r)
<1> DEFINE a == r - c - from
           k == from + (a % n)
           q == 0 - (a \div n)
<1>1. a \in Int
  OBVIOUS
<1>2. a % n \in 0..(n - 1)
  <2> HIDE DEF a
  <2> QED BY <1>1, ModRange
<1>3. a = n * (a \div n) + (a % n) /\ (a \div n) \in Int
  <2> HIDE DEF a
  <2> QED BY <1>1, DivMod
<1>4. c + k = r + n * q /\ q \in Int
  BY <1>2, <1>3
<1>5. (c + k) % n = r
  <2> HIDE DEF k, q
  <2> QED BY <1>4, ModShift
<1>6. k \in from..(from + n - 1)
  BY <1>2
<1> QED BY <1>5, <1>6 DEF Reaches

----------------------------------------------------------------------------
(* Seats.                                                                  *)

\* SeatAt finds a seated player, wherever the count starts.
LEMMA SeatAtIsSeated ==
  ASSUME NEW g \in Game, g.players # <<>>, NEW k \in Int
  PROVE  SeatAt(g, k) \in Seated(g) /\ Seated(g) \subseteq Player
<1>1. g.players \in Seq(Player)
  BY DEF Game
<1>2. Len(g.players) \in Nat \ {0}
  BY <1>1
<1>3. k % Len(g.players) \in 0..(Len(g.players) - 1)
  BY <1>2, ModRange
<1> QED BY <1>1, <1>2, <1>3 DEF SeatAt, Seated, Members

\* Somebody active is always found within one turn of the table.
LEMMA StepsExist ==
  ASSUME NEW g \in Game, Active(g) # {}, NEW from \in Nat
  PROVE  /\ StepsToActive(g, from) \in Nat
         /\ SeatAt(g, g.current_index + StepsToActive(g, from)) \in Active(g)
<1> DEFINE n == Len(g.players)
           S == {k \in from..(from + n - 1) : SeatAt(g, g.current_index + k) \notin g.out_of_match}
<1>1. g.players \in Seq(Player) /\ g.current_index \in Nat
  BY DEF Game
<1>2. PICK i \in 1..n : g.players[i] \in Active(g)
  BY <1>1 DEF Active, Seated, Members
<1>3. n \in Nat \ {0} /\ g.players # <<>>
  BY <1>1, <1>2
<1>4. PICK k \in from..(from + n - 1) : (g.current_index + k) % n = i - 1
  <2> HIDE DEF n
  <2>1. i - 1 \in 0..(n - 1)
    BY <1>2, <1>3
  <2>2. Reaches(n, g.current_index, from, i - 1)
    BY <1>1, <1>3, <2>1, ModReach
  <2> QED BY <2>2 DEF Reaches
<1>5. k \in S
  BY <1>4, <1>2, <1>1 DEF SeatAt, Active
<1>6. S \in SUBSET Nat
  BY <1>3
<1>7. Smallest(S) \in S
  <2> HIDE DEF S
  <2> QED BY <1>5, <1>6, SmallestIn
<1>8. StepsToActive(g, from) = Smallest(S)
  BY DEF StepsToActive
<1> HIDE DEF S
<1>9. StepsToActive(g, from) \in S
  BY <1>7, <1>8
<1>10. StepsToActive(g, from) \in Nat
  BY <1>9, <1>6
<1>11. SeatAt(g, g.current_index + StepsToActive(g, from)) \notin g.out_of_match
  BY <1>9 DEF S
<1>12. SeatAt(g, g.current_index + StepsToActive(g, from)) \in Seated(g)
  BY <1>10, <1>1, <1>3, SeatAtIsSeated
<1> QED BY <1>10, <1>11, <1>12 DEF Active

\* Game.advance keeps the game well-formed.
LEMMA AdvanceType ==
  ASSUME NEW g \in Game
  PROVE  Advance(g) \in Game
<1>1. CASE Active(g) = {}
  BY <1>1 DEF Advance
<1>2. CASE Active(g) # {}
  <2> DEFINE i == (g.current_index + StepsToActive(g, 1)) % Len(g.players)
  <2>1. g.players \in Seq(Player) /\ g.current_index \in Nat
    BY DEF Game
  <2>2. Len(g.players) \in Nat \ {0}
    BY <1>2, <2>1 DEF Active, Seated, Members
  <2>3. StepsToActive(g, 1) \in Nat
    BY <1>2, StepsExist
  <2>4. i \in Nat
    <3>1. g.current_index + StepsToActive(g, 1) \in Int
      BY <2>1, <2>3
    <3>2. i \in 0..(Len(g.players) - 1)
      BY <3>1, <2>2, ModRange, Zenon
    <3> QED BY <3>2, <2>2
  <2>5. Advance(g) = [g EXCEPT !.current_index = i]
    BY <1>2 DEF Advance
  <2> HIDE DEF i
  <2> QED BY <2>4, <2>5 DEF Game
<1> QED BY <1>1, <1>2

\* The seat looked up for a player is a place at the table.
LEMMA IndexOrZeroType ==
  ASSUME NEW g \in Game, NEW p
  PROVE  IndexOrZero(g, p) \in Nat
<1>1. CASE p \notin Seated(g)
  BY <1>1 DEF IndexOrZero
<1>2. CASE p \in Seated(g)
  <2> DEFINE S == {i \in 0..(Len(g.players) - 1) : g.players[i + 1] = p}
  <2>1. g.players \in Seq(Player)
    BY DEF Game
  <2>2. PICK i \in 1..Len(g.players) : g.players[i] = p
    BY <1>2, <2>1 DEF Seated, Members
  <2>3. i - 1 \in S /\ S \in SUBSET Nat
    BY <2>1, <2>2
  <2>4. Smallest(S) \in Nat
    <3> HIDE DEF S
    <3> QED BY <2>3, SmallestIn
  <2> QED BY <2>4, <1>2 DEF IndexOrZero, IndexOf
<1> QED BY <1>1, <1>2

\* FirstSeated finds a member of the set, when one is seated.
LEMMA FirstSeatedType ==
  ASSUME NEW g \in Game, NEW S, NEW q \in S \cap Seated(g)
  PROVE  FirstSeated(g, S) \in S \cap Seated(g) /\ FirstSeated(g, S) \in Player
<1> DEFINE I == {i \in DOMAIN g.players : g.players[i] \in S}
<1>1. g.players \in Seq(Player)
  BY DEF Game
<1>2. I # {} /\ I \in SUBSET Nat
  BY <1>1 DEF Seated, Members
<1>3. Smallest(I) \in I
  <2> HIDE DEF I
  <2> QED BY <1>2, SmallestIn
<1>4. PICK i \in I : FirstSeated(g, S) = g.players[i]
  BY <1>3 DEF FirstSeated
<1> QED BY <1>1, <1>4 DEF Seated, Members

----------------------------------------------------------------------------
(* Types of the engine's operators.                                        *)

\* A well-formed game, and the fact about ranks that keeps it so.
Typed(g) == g \in Game /\ RanksKnown(g)

\* The two blank turns are turns, and a rank that is set is a rank.
LEMMA TurnTypes ==
  /\ NoTurn \in Turn /\ NewTurn \in Turn
  /\ \A t \in Turn : t.rank \in Nat /\ (t.rank # 0 => t.rank \in Rank)
  BY BoundsAssumption DEF NoTurn, NewTurn, Turn, Rank

\* Dealing turns leaves each turn blank or as it was.
LEMMA FreshTurnsType ==
  ASSUME NEW g, Typed(g), NEW S
  PROVE  /\ FreshTurns(g, S) \in [Player -> Turn]
         /\ \A p \in Player : \/ FreshTurns(g, S)[p] = NewTurn
                            \/ FreshTurns(g, S)[p] = g.turn[p]
  BY TurnTypes DEF FreshTurns, Typed, Game

\* Taking the chips back leaves nobody with a debt.
LEMMA NoChipsType ==
  ASSUME NEW g \in Game
  PROVE  NoChips(g) \in [Player -> Nat]
  BY DEF NoChips, Game

\* Admitting the waiting players keeps the game well-formed (_admit_waiting).
LEMMA AdmitWaitingType ==
  ASSUME NEW g, Typed(g)
  PROVE  Typed(AdmitWaiting(g))
<1> DEFINE new == Members(g.waiting_players)
<1>1. g.players \o g.waiting_players \in Seq(Player)
  BY DEF Typed, Game
<1>2. FreshTurns(g, new) \in [Player -> Turn]
  BY FreshTurnsType
<1>3. AdmitWaiting(g) \in Game
  <2> DEFINE losses == [p \in Player |-> IF p \in new THEN 0 ELSE g.match_losses[p]]
             seats == g.players \o g.waiting_players
  <2>1. losses \in [Player -> Nat] /\ <<>> \in Seq(Player)
    BY DEF Typed, Game
  <2>2. AdmitWaiting(g) = [g EXCEPT !.players = seats, !.waiting_players = <<>>,
                             !.match_losses = losses, !.turn = FreshTurns(g, new)]
    BY DEF AdmitWaiting, Typed, Game
  <2> HIDE DEF losses, new, seats
  <2>3. seats \in Seq(Player)
    BY <1>1 DEF seats
  <2> QED BY <1>2, <2>1, <2>2, <2>3 DEF Typed, Game
<1>4. AdmitWaiting(g).turn = FreshTurns(g, new)
  BY DEF AdmitWaiting, Typed, Game
<1>5. RanksKnown(AdmitWaiting(g))
  BY <1>4, FreshTurnsType DEF RanksKnown, Typed
<1> QED BY <1>3, <1>5 DEF Typed

\* A new match is well-formed (_start_new_set).
LEMMA StartNewSetType ==
  ASSUME NEW g, Typed(g), NEW p \in Player
  PROVE  Typed(StartNewSet(g, p))
<1>1. FreshTurns(g, Seated(g)) \in [Player -> Turn]
  BY FreshTurnsType
<1>2. NoChips(g) \in [Player -> Nat] /\ IndexOrZero(g, p) \in Nat
  BY NoChipsType, IndexOrZeroType DEF Typed
<1>3. StartNewSet(g, p) \in Game
  BY <1>1, <1>2, BoundsAssumption DEF StartNewSet, Typed, Game, Phase, MaybePlayer
<1>4. StartNewSet(g, p).turn = FreshTurns(g, Seated(g))
  BY DEF StartNewSet, Typed, Game
<1>5. RanksKnown(StartNewSet(g, p))
  BY <1>4, FreshTurnsType DEF RanksKnown, Typed
<1> QED BY <1>3, <1>5 DEF Typed

\* So is the game after a lost match, a round point or a partie (_finalize_cycle).
LEMMA EndMatchType ==
  ASSUME NEW g, Typed(g), NEW p \in Player
  PROVE  Typed(EndMatch(g, p))
<1> DEFINE count  == g.match_losses[p] + 1
           kept   == [g EXCEPT !.match_losses[p] = count]
           h      == AdmitWaiting(kept)
           scored == LosePoint(h, p)
           over   == [scored EXCEPT !.partie_loser_id = p, !.phase = "finished"]
<1>1. Typed(kept)
  <2>1. count \in Nat
    BY DEF Typed, Game
  <2> HIDE DEF count
  <2>2. [g.match_losses EXCEPT ![p] = count] \in [Player -> Nat]
    BY <2>1 DEF Typed, Game
  <2> QED BY <2>2 DEF Typed, Game, RanksKnown
<1>2. Typed(h)
  <2> HIDE DEF kept
  <2> QED BY <1>1, AdmitWaitingType
<1>3. Typed(scored)
  <2> DEFINE points == [h.round_points EXCEPT ![p] = h.round_points[p] + 1]
             clean  == [q \in Player |-> 0]
  <2>1. scored = [h EXCEPT !.round_points = points, !.match_losses = clean]
    <3> HIDE DEF h
    <3> QED BY DEF LosePoint
  <2> HIDE DEF h, scored
  <2>2. points \in [Player -> Nat] /\ clean \in [Player -> Nat]
    BY <1>2 DEF Typed, Game
  <2> HIDE DEF points, clean
  <2> QED BY <1>2, <2>1, <2>2 DEF Typed, Game, RanksKnown
<1>4. Typed(over)
  <2> HIDE DEF scored
  <2> QED BY <1>3 DEF Typed, Game, RanksKnown, Phase, MaybePlayer
<1>5. Typed(ApplyPendingRules(scored))
  <2> HIDE DEF scored
  <2> QED BY <1>3 DEF Typed, Game, RanksKnown, ApplyPendingRules
<1>6. Typed(StartNewSet(h, p)) /\ Typed(StartNewSet(ApplyPendingRules(scored), p))
  <2> HIDE DEF scored, h
  <2> QED BY <1>2, <1>5, StartNewSetType
<1>7. EndMatch(g, p) \in {over, StartNewSet(h, p), StartNewSet(ApplyPendingRules(scored), p)}
  BY DEF EndMatch
<1> HIDE DEF over, scored, h
<1> QED BY <1>4, <1>6, <1>7

\* So is a new partie (_start_new_partie).
LEMMA StartNewPartieType ==
  ASSUME NEW g, Typed(g)
  PROVE  Typed(StartNewPartie(g))
<1> DEFINE starter == IF g.partie_loser_id \in Seated(g) THEN g.partie_loser_id
                      ELSE IF g.players # <<>> THEN g.players[1] ELSE NoPlayer
           clean == [q \in Player |-> 0]
           turns == FreshTurns(g, Seated(g))
<1>1. starter \in MaybePlayer
  BY DEF Typed, Game, MaybePlayer
<1>2. turns \in [Player -> Turn] /\ clean \in [Player -> Nat]
  BY FreshTurnsType
<1>3. NoChips(g) \in [Player -> Nat] /\ IndexOrZero(g, starter) \in Nat
  BY NoChipsType, IndexOrZeroType DEF Typed
<1>4. NoTiebreak \in Tiebreak
  BY DEF NoTiebreak, Tiebreak, MaybePlayer, Phase
<1> DEFINE h == [g EXCEPT !.partie_loser_id = NoPlayer, !.pool = Chips,
                    !.round_points = clean, !.match_losses = clean, !.out_of_match = {},
                    !.tiebreak = NoTiebreak]
<1>5. StartNewPartie(g) = [h EXCEPT !.max_throws = Throws, !.tokens = NoChips(g),
                             !.turn = turns, !.round_starter_id = starter,
                             !.current_index = IndexOrZero(g, starter), !.phase = "charge"]
  BY DEF StartNewPartie
<1> HIDE DEF starter, clean, turns
<1>6. h \in Game
  BY <1>2, <1>4, BoundsAssumption DEF Typed, Game, MaybePlayer
<1> HIDE DEF h
<1>7. StartNewPartie(g) \in Game /\ StartNewPartie(g).turn = turns
  BY <1>1, <1>2, <1>3, <1>5, <1>6, BoundsAssumption, ZenonT(60) DEF Game, Phase
<1>8. RanksKnown(StartNewPartie(g))
  BY <1>7, FreshTurnsType DEF RanksKnown, Typed, turns
<1> QED BY <1>7, <1>8 DEF Typed

\* So is the next cycle of the same match.
LEMMA NextCycleType ==
  ASSUME NEW g, Typed(g), NEW p \in MaybePlayer
  PROVE  Typed(NextCycle(g, p))
<1> DEFINE h == OpenedBy(g, p)
           turns == [q \in Player |-> IF q \notin Seated(g) THEN h.turn[q]
                                      ELSE IF q \in g.out_of_match THEN NoTurn ELSE NewTurn]
<1>1. h \in Game /\ h.turn = g.turn
  BY IndexOrZeroType DEF OpenedBy, Typed, Game
<1>2. turns \in [Player -> Turn]
  <2> HIDE DEF h
  <2> QED BY <1>1, TurnTypes DEF Typed, Game
<1>3. NextCycle(g, p) = [h EXCEPT !.max_throws = Throws, !.turn = turns]
  BY DEF NextCycle
<1>4. \A q \in Player : turns[q] = g.turn[q] \/ turns[q] = NoTurn \/ turns[q] = NewTurn
  <2> HIDE DEF h
  <2> QED BY <1>1
<1> HIDE DEF h, turns
<1>5. NextCycle(g, p) \in Game /\ NextCycle(g, p).turn = turns
  BY <1>1, <1>2, <1>3, BoundsAssumption DEF Game
<1> QED BY <1>4, <1>5 DEF Typed, RanksKnown

\* So is the game after the end of a cycle (_finalize_cycle).
LEMMA FinalizeCycleType ==
  ASSUME NEW g, Typed(g), NEW p \in MaybePlayer
  PROVE  Typed(FinalizeCycle(g, p))
<1> DEFINE full == {q \in Seated(g) : g.tokens[q] >= Chips}
<1>1. Typed(SitOut(g))
  <2>1. Seated(g) \subseteq Player
    BY DEF Seated, Members, Typed, Game
  <2>2. g.out_of_match \cup {q \in Seated(g) : g.tokens[q] = 0} \in SUBSET Player
    BY <2>1 DEF Typed, Game
  <2> QED BY <2>2 DEF SitOut, Typed, Game, RanksKnown
<1>2. CASE full = {}
  BY <1>1, <1>2, NextCycleType DEF FinalizeCycle
<1>3. CASE full # {}
  <2>1. FirstSeated(g, full) \in Player
    BY <1>3, FirstSeatedType DEF Typed
  <2> QED BY <1>3, <2>1, EndMatchType DEF FinalizeCycle
<1> QED BY <1>2, <1>3

----------------------------------------------------------------------------
(* Settling a cycle.                                                       *)

\* Among players that have a natural number each, one has the least.
LEMMA LeastExists ==
  ASSUME NEW S, S # {}, NEW f \in [S -> Nat]
  PROVE  \E p \in S : \A q \in S : f[p] <= f[q]
<1> DEFINE V == {f[p] : p \in S}
<1>1. V \in SUBSET Nat /\ V # {}
  OBVIOUS
<1>2. Smallest(V) \in V /\ \A m \in V : Smallest(V) <= m
  <2> HIDE DEF V
  <2> QED BY <1>1, SmallestIn
<1>3. PICK p \in S : f[p] = Smallest(V)
  BY <1>2
<1>4. \A q \in S : f[q] \in V
  OBVIOUS
<1> QED BY <1>2, <1>3, <1>4

\* The tiebreak order lists players, from the last seat back to the starter.
LEMMA ReversePlayOrderType ==
  ASSUME NEW g \in Game
  PROVE  ReversePlayOrder(g) \in Seq(Player)
<1> DEFINE n == Len(g.players)
           s == IndexOrZero(g, g.round_starter_id)
<1>1. g.players \in Seq(Player) /\ n \in Nat /\ s \in Nat
  <2>1. g.players \in Seq(Player) /\ n \in Nat
    BY DEF Game
  <2>2. s \in Nat
    BY IndexOrZeroType
  <2> QED BY <2>1, <2>2
<1>2. \A k \in 1..n : SeatAt(g, s + n - k) \in Player
  <2> SUFFICES ASSUME NEW k \in 1..n PROVE SeatAt(g, s + n - k) \in Player
    OBVIOUS
  <2>1. g.players # <<>> /\ s + n - k \in Int
    <3> HIDE DEF s
    <3> QED BY <1>1
  <2> HIDE DEF n, s
  <2> QED BY <2>1, SeatAtIsSeated
<1>3. ReversePlayOrder(g) = [k \in 1..n |-> SeatAt(g, s + n - k)]
  BY DEF ReversePlayOrder
<1> HIDE DEF n, s
<1> QED BY <1>1, <1>2, <1>3

\* The hand of a tiebreak goes to a tied player of the order, or to nobody.
LEMMA FirstTiedType ==
  ASSUME NEW order \in Seq(Player), NEW tied, NEW from
  PROVE  FirstTied(order, tied, from) \in (Player \cap tied) \cup {NoPlayer}
<1> DEFINE later == {k \in DOMAIN order : k >= from /\ order[k] \in tied}
<1>1. later \in SUBSET Nat
  OBVIOUS
<1>2. CASE later = {}
  BY <1>2 DEF FirstTied
<1>3. CASE later # {}
  <2>1. Smallest(later) \in later
    <3> HIDE DEF later
    <3> QED BY <1>1, <1>3, SmallestIn
  <2>2. FirstTied(order, tied, from) = order[Smallest(later)]
    BY <1>3 DEF FirstTied
  <2> QED BY <2>1, <2>2
<1> QED BY <1>2, <1>3

\* Entering a tiebreak keeps the game well-formed.
LEMMA EnterTiebreakType ==
  ASSUME NEW g, Typed(g), NEW tied \in SUBSET Player, NEW penalty \in Nat,
         NEW phase \in Phase, NEW winner \in MaybePlayer
  PROVE  Typed(EnterTiebreak(g, tied, penalty, phase, winner))
<1> DEFINE order == ReversePlayOrder(g)
           hand  == FirstTied(order, tied, 1)
           clean == [p \in Player |-> 0]
           tb == [order |-> order, tied |-> tied, throws |-> clean, next_pid |-> hand,
                  penalty |-> penalty, return_phase |-> phase, original_winner_id |-> winner]
<1>1. order \in Seq(Player)
  BY ReversePlayOrderType DEF Typed
<1>2. hand \in MaybePlayer
  <2> HIDE DEF order
  <2> QED BY <1>1, FirstTiedType DEF MaybePlayer
<1>3. clean \in [Player -> Rank \cup {0}]
  OBVIOUS
<1>4. EnterTiebreak(g, tied, penalty, phase, winner)
        = [g EXCEPT !.phase = "tiebreak", !.turn = FreshTurns(g, tied), !.tiebreak = tb]
  BY DEF EnterTiebreak
<1>5. tb \in Tiebreak
  <2> HIDE DEF order, hand, clean
  <2> QED BY <1>1, <1>2, <1>3 DEF Tiebreak
<1> HIDE DEF tb
<1>6. EnterTiebreak(g, tied, penalty, phase, winner) \in Game
  <2>1. FreshTurns(g, tied) \in [Player -> Turn] /\ "tiebreak" \in Phase
    BY FreshTurnsType DEF Phase
  <2> QED BY <1>4, <1>5, <2>1 DEF Typed, Game
<1>7. EnterTiebreak(g, tied, penalty, phase, winner).turn = FreshTurns(g, tied)
  BY <1>4 DEF Typed, Game
<1> QED BY <1>6, <1>7, FreshTurnsType DEF RanksKnown, Typed

\* The bank never goes below zero.
LEMMA TakeFromBankType ==
  ASSUME NEW g, Typed(g), NEW loser \in Player, NEW penalty \in Nat, NEW phase \in Phase
  PROVE  Typed(TakeFromBank(g, loser, penalty, phase))
<1> DEFINE taken == Lesser(penalty, g.pool)
           chips == [g.tokens EXCEPT ![loser] = @ + taken]
           left  == g.pool - taken
           after == IF left = 0 THEN "decharge" ELSE phase
<1>1. taken \in Nat /\ left \in Nat
  BY DEF Lesser, Typed, Game
<1>2. chips \in [Player -> Nat]
  <2> HIDE DEF taken
  <2> QED BY <1>1 DEF Typed, Game
<1>3. after \in Phase
  BY DEF Phase
<1>4. TakeFromBank(g, loser, penalty, phase)
        = [g EXCEPT !.tokens = chips, !.pool = left, !.phase = after]
  BY DEF TakeFromBank, Typed, Game
<1> HIDE DEF taken, chips, left, after
<1> QED BY <1>1, <1>2, <1>3, <1>4 DEF Typed, Game, RanksKnown

\* Nobody gives more chips than it has.
LEMMA GiveToLoserType ==
  ASSUME NEW g, Typed(g), NEW winner \in MaybePlayer, NEW loser \in Player, NEW penalty \in Nat
  PROVE  Typed(GiveToLoser(g, winner, loser, penalty))
<1>1. CASE winner \notin Seated(g)
  BY <1>1 DEF GiveToLoser
<1>2. CASE winner \in Seated(g)
  <2> DEFINE given == Lesser(penalty, g.tokens[winner])
             left  == g.tokens[winner] - given
             poorer == [g.tokens EXCEPT ![winner] = left]
             more  == poorer[loser] + given
             chips == [poorer EXCEPT ![loser] = more]
  <2>1. winner \in Player
    BY <1>2 DEF Seated, Members, Typed, Game
  <2>2. given \in Nat /\ left \in Nat
    BY <2>1 DEF Lesser, Typed, Game
  <2>3. GiveToLoser(g, winner, loser, penalty) = [g EXCEPT !.tokens = chips]
    <3>1. GiveToLoser(g, winner, loser, penalty)
            = [g EXCEPT !.tokens = [[g.tokens EXCEPT ![winner] = @ - given] EXCEPT ![loser] = @ + given]]
      BY <1>2, Zenon DEF GiveToLoser
    <3>2. [[g.tokens EXCEPT ![winner] = @ - given] EXCEPT ![loser] = @ + given] = chips
      <4> HIDE DEF given
      <4> QED OBVIOUS
    <3> HIDE DEF chips, given
    <3> QED BY <3>1, <3>2, Zenon
  <2> HIDE DEF left, given
  <2>4. poorer \in [Player -> Nat]
    BY <2>2 DEF Typed, Game
  <2> HIDE DEF poorer
  <2>5. more \in Nat
    BY <2>2, <2>4
  <2> HIDE DEF more
  <2>6. chips \in [Player -> Nat]
    BY <2>4, <2>5
  <2> HIDE DEF chips
  <2> QED BY <2>3, <2>6 DEF Typed, Game, RanksKnown
<1> QED BY <1>1, <1>2

\* The rank of a turn that was validated is the rank of a throw.
LEMMA DoneTurnsHaveRanks ==
  ASSUME NEW g, Typed(g), AllDone(g), NEW p \in Active(g), g.turn[p] # NoTurn
  PROVE  p \in Player /\ g.turn[p].rank \in Rank
<1>1. p \in Player
  BY DEF Active, Seated, Members, Typed, Game
<1>2. g.turn[p] \in Turn /\ g.turn[p].done
  BY <1>1 DEF Active, AllDone, Typed, Game
<1>3. g.turn[p] # NewTurn
  BY <1>2 DEF NewTurn
<1>4. g.turn[p].rank # 0
  BY <1>1, <1>3 DEF Typed, RanksKnown
<1> QED BY <1>1, <1>2, <1>4, TurnTypes

\* p alone has the lowest rank of those who played.
Lowest(g, p) ==
  /\ p \in Active(g) /\ g.turn[p] # NoTurn
  /\ \A q \in Active(g) \ {p} : g.turn[q] # NoTurn => g.turn[p].rank < g.turn[q].rank

\* What settling a cycle comes to: a room of one is disbanded, a cycle of one
\* player goes on, equal lowest ranks throw again, or the one lowest player takes
\* chips from the bank or from a player.  The winner, if there is one, is not
\* among the lowest, and the price is a chip at least.
LEMMA ResolveRoundRanks ==
  ASSUME NEW g, Typed(g), AllDone(g)
  PROVE  \/ Len(g.players) = 1 /\ ResolveRound(g) = Disband(g)
         \/ /\ ResolveRound(g) = FinalizeCycle(g, NoPlayer)
            /\ \A p, q \in Active(g) : g.turn[p] # NoTurn /\ g.turn[q] # NoTurn => p = q
         \/ \E low \in SUBSET (Active(g) \cap Player) : \E loser \in low :
              \E winner \in MaybePlayer \ low, penalty \in Nat \ {0} :
                \/ /\ ResolveRound(g) = EnterTiebreak(g, low, penalty, g.phase, winner)
                   /\ \A l : ~Lowest(g, l)
                \/ /\ g.phase = "charge" /\ Lowest(g, loser)
                   /\ ResolveRound(g) = FinalizeCycle(TakeFromBank(g, loser, penalty, "charge"), loser)
                \/ /\ g.phase # "charge" /\ Lowest(g, loser)
                   /\ ResolveRound(g) = FinalizeCycle(GiveToLoser(g, winner, loser, penalty), loser)
<1> DEFINE playing == {p \in Active(g) : g.turn[p] # NoTurn}
           top == {p \in playing : \A q \in playing : g.turn[q].rank <= g.turn[p].rank}
           low == {p \in playing : \A q \in playing : g.turn[p].rank <= g.turn[q].rank}
           best == CHOOSE p \in top : TRUE
           worth == Fiches[g.turn[best].rank]
           penalty == IF worth = 0 THEN 1 ELSE worth
           winner == IF top = {best} THEN best ELSE NoPlayer
           loser == CHOOSE p \in low : TRUE
<1>1. \A p \in playing : p \in Player /\ g.turn[p].rank \in Rank
  BY DoneTurnsHaveRanks, SMTT(30)
<1>2. ASSUME playing # {}
      PROVE  /\ best \in top /\ loser \in low
             /\ penalty \in Nat \ {0} /\ winner \in MaybePlayer
  <2>1. \E p \in playing : \A q \in playing : g.turn[p].rank <= g.turn[q].rank
    <3> DEFINE f == [p \in playing |-> g.turn[p].rank]
    <3>1. f \in [playing -> Nat]
      BY <1>1 DEF Rank
    <3>2. \E p \in playing : \A q \in playing : f[p] <= f[q]
      <4> HIDE DEF f, playing
      <4> QED BY <3>1, <1>2, LeastExists
    <3> QED BY <3>2
  <2>2. \E p \in playing : \A q \in playing : g.turn[q].rank <= g.turn[p].rank
    <3> DEFINE f == [p \in playing |-> Len(Fiches) - g.turn[p].rank]
    <3>1. Len(Fiches) \in Nat
      BY DiceAssumption
    <3>2. f \in [playing -> Nat]
      BY <1>1, <3>1 DEF Rank
    <3>3. \E p \in playing : \A q \in playing : f[p] <= f[q]
      <4> HIDE DEF f, playing
      <4> QED BY <3>2, <1>2, LeastExists
    <3>4. PICK p \in playing : \A q \in playing : Len(Fiches) - g.turn[p].rank <= Len(Fiches) - g.turn[q].rank
      BY <3>3
    <3>5. \A q \in playing : g.turn[q].rank <= g.turn[p].rank
      <4> HIDE DEF playing
      <4> QED BY <3>1, <3>4, <1>1 DEF Rank
    <3> QED BY <3>5
  <2>3. best \in top /\ loser \in low
    <3> HIDE DEF playing
    <3> QED BY <2>1, <2>2
  <2>4. best \in playing /\ loser \in playing
    <3> HIDE DEF best, loser
    <3> QED BY <2>3
  <2>5. worth \in Nat
    <3> HIDE DEF best, playing
    <3> QED BY <2>4, <1>1, DiceAssumption DEF Rank
  <2>6. penalty \in Nat \ {0}
    <3> HIDE DEF worth
    <3> QED BY <2>5
  <2>7. winner \in MaybePlayer
    <3> HIDE DEF best, playing
    <3> QED BY <2>4, <1>1 DEF MaybePlayer
  <2> QED BY <2>3, <2>6, <2>7
<1>3. low \in SUBSET (Active(g) \cap Player)
  <2>1. low \subseteq playing /\ playing \subseteq Active(g)
    OBVIOUS
  <2>2. playing \subseteq Player
    BY <1>1
  <2> HIDE DEF low, playing
  <2> QED BY <2>1, <2>2
<1>4. \/ Len(g.players) = 1 /\ ResolveRound(g) = Disband(g)
      \/ /\ ResolveRound(g) = FinalizeCycle(g, NoPlayer)
         /\ playing = {} \/ \E p \in playing : playing = {p}
      \/ /\ playing # {} /\ ~ \E p \in playing : playing = {p}
         /\ \/ low # {loser} /\ ResolveRound(g) = EnterTiebreak(g, low, penalty, g.phase, winner)
            \/ /\ g.phase = "charge" /\ low = {loser}
               /\ ResolveRound(g) = FinalizeCycle(TakeFromBank(g, loser, penalty, "charge"), loser)
            \/ /\ g.phase # "charge" /\ low = {loser}
               /\ ResolveRound(g) = FinalizeCycle(GiveToLoser(g, winner, loser, penalty), loser)
  BY Zenon DEF ResolveRound
<1>5. ASSUME playing # {}, ~ \E p \in playing : playing = {p}
      PROVE  winner \notin low
  <2>1. NoPlayer \notin low
    <3> HIDE DEF low
    <3> QED BY <1>3, PlayerAssumption
  <2>2. ASSUME top = {best}, best \in low
        PROVE  FALSE
    <3>1. best \in playing /\ \A q \in playing : g.turn[best].rank <= g.turn[q].rank
      <4> HIDE DEF playing, best
      <4> QED BY <2>2
    <3>2. \A q \in playing : g.turn[q].rank <= g.turn[best].rank
      <4> HIDE DEF playing, best
      <4> QED BY <2>2
    <3>3. \A q \in playing : g.turn[q].rank = g.turn[best].rank
      <4> HIDE DEF playing, best
      <4> QED BY <1>1, <3>1, <3>2 DEF Rank
    <3>4. \A q \in playing : q \in top
      <4> HIDE DEF playing, best
      <4> QED BY <3>2, <3>3
    <3>5. playing = {best}
      <4> HIDE DEF playing, best, top
      <4> QED BY <2>2, <3>1, <3>4
    <3> HIDE DEF playing, best
    <3> QED BY <1>5, <3>1, <3>5
  <2> HIDE DEF low, best, top
  <2> QED BY <2>1, <2>2
<1>6. ASSUME playing = {} \/ \E p \in playing : playing = {p}
      PROVE  \A p, q \in Active(g) : g.turn[p] # NoTurn /\ g.turn[q] # NoTurn => p = q
  <2>1. \A p \in Active(g) : g.turn[p] # NoTurn => p \in playing
    OBVIOUS
  <2> HIDE DEF playing
  <2> QED BY <1>6, <2>1
  \* Who is in low alone is the lowest, and who is the lowest is in low alone.
<1>8. \A p \in playing : g.turn[p].rank \in Nat
  BY <1>1 DEF Rank
<1>9. ASSUME NEW l, Lowest(g, l)
      PROVE  low = {l} /\ loser = l
  <2>1. /\ l \in playing /\ \A q \in playing \ {l} : g.turn[l].rank < g.turn[q].rank
    BY <1>9 DEF Lowest
  <2>2. low = {l}
    <3> HIDE DEF playing
    <3> QED BY <1>8, <2>1
  <2> HIDE DEF low
  <2> QED BY <2>2
<1>10. ASSUME low = {loser}
       PROVE  Lowest(g, loser)
  <2>1. loser \in playing /\ \A q \in playing : g.turn[loser].rank <= g.turn[q].rank
    <3> HIDE DEF playing, loser
    <3> QED BY <1>10
  <2>2. ASSUME NEW q \in playing, q # loser
        PROVE  g.turn[loser].rank < g.turn[q].rank
    <3>1. q \notin low
      BY <1>10, <2>2
    <3>2. PICK m \in playing : ~(g.turn[q].rank <= g.turn[m].rank)
      <4> HIDE DEF playing, loser
      <4> QED BY <3>1
    <3> HIDE DEF playing, loser
    <3> QED BY <1>8, <2>1, <3>2
  <2>3. \A q \in Active(g) : g.turn[q] # NoTurn => q \in playing
    OBVIOUS
  <2>4. loser \in Active(g) /\ g.turn[loser] # NoTurn
    <3> HIDE DEF loser
    <3> QED BY <2>1
  <2> HIDE DEF playing, loser
  <2> QED BY <2>2, <2>3, <2>4 DEF Lowest
<1> HIDE DEF playing, low, best, worth, penalty, winner, loser, top
<1>7. CASE playing # {} /\ ~ \E p \in playing : playing = {p}
  <2>1. winner \notin low /\ loser \in low /\ penalty \in Nat \ {0} /\ winner \in MaybePlayer
    BY <1>2, <1>5, <1>7
  <2>2. \/ Len(g.players) = 1 /\ ResolveRound(g) = Disband(g)
        \/ /\ ResolveRound(g) = EnterTiebreak(g, low, penalty, g.phase, winner)
           /\ low # {loser}
        \/ /\ g.phase = "charge" /\ low = {loser}
           /\ ResolveRound(g) = FinalizeCycle(TakeFromBank(g, loser, penalty, "charge"), loser)
        \/ /\ g.phase # "charge" /\ low = {loser}
           /\ ResolveRound(g) = FinalizeCycle(GiveToLoser(g, winner, loser, penalty), loser)
    BY <1>4, <1>7, Zenon
  <2>3. low # {loser} => \A l : ~Lowest(g, l)
    BY <1>9
  <2> QED BY <1>3, <1>10, <2>1, <2>2, <2>3, Zenon
<1> QED BY <1>4, <1>7, <1>6, Zenon

\* The same, with nothing said of ranks.
LEMMA ResolveRoundDetails ==
  ASSUME NEW g, Typed(g), AllDone(g)
  PROVE  \/ Len(g.players) = 1 /\ ResolveRound(g) = Disband(g)
         \/ /\ ResolveRound(g) = FinalizeCycle(g, NoPlayer)
            /\ \A p, q \in Active(g) : g.turn[p] # NoTurn /\ g.turn[q] # NoTurn => p = q
         \/ \E low \in SUBSET (Active(g) \cap Player) : \E loser \in low :
              \E winner \in MaybePlayer \ low, penalty \in Nat \ {0} :
                \/ ResolveRound(g) = EnterTiebreak(g, low, penalty, g.phase, winner)
                \/ /\ g.phase = "charge"
                   /\ ResolveRound(g) = FinalizeCycle(TakeFromBank(g, loser, penalty, "charge"), loser)
                \/ /\ g.phase # "charge"
                   /\ ResolveRound(g) = FinalizeCycle(GiveToLoser(g, winner, loser, penalty), loser)
BY ResolveRoundRanks, Zenon

\* The same, with nothing said of who wins and loses.
LEMMA ResolveRoundCases ==
  ASSUME NEW g, Typed(g), AllDone(g)
  PROVE  \/ ResolveRound(g) = Disband(g)
         \/ ResolveRound(g) = FinalizeCycle(g, NoPlayer)
         \/ \E low \in SUBSET Player, loser \in Player, winner \in MaybePlayer, penalty \in Nat :
              \/ ResolveRound(g) = EnterTiebreak(g, low, penalty, g.phase, winner)
              \/ /\ g.phase = "charge"
                 /\ ResolveRound(g) = FinalizeCycle(TakeFromBank(g, loser, penalty, "charge"), loser)
              \/ /\ g.phase # "charge"
                 /\ ResolveRound(g) = FinalizeCycle(GiveToLoser(g, winner, loser, penalty), loser)
<1> DEFINE Outcome(low, loser, winner, penalty) ==
             \/ ResolveRound(g) = EnterTiebreak(g, low, penalty, g.phase, winner)
             \/ /\ g.phase = "charge"
                /\ ResolveRound(g) = FinalizeCycle(TakeFromBank(g, loser, penalty, "charge"), loser)
             \/ /\ g.phase # "charge"
                /\ ResolveRound(g) = FinalizeCycle(GiveToLoser(g, winner, loser, penalty), loser)
<1>1. ASSUME NEW low \in SUBSET (Active(g) \cap Player), NEW loser \in low,
             NEW winner \in MaybePlayer \ low, NEW penalty \in Nat \ {0},
             Outcome(low, loser, winner, penalty)
      PROVE  \E l \in SUBSET Player, p \in Player, w \in MaybePlayer, k \in Nat : Outcome(l, p, w, k)
  <2>1. low \in SUBSET Player /\ loser \in Player /\ winner \in MaybePlayer /\ penalty \in Nat
    OBVIOUS
  <2> HIDE DEF Outcome
  <2> QED BY <1>1, <2>1
<1> QED BY <1>1, ResolveRoundDetails, Zenon

\* Settling a cycle keeps the game well-formed.
LEMMA ResolveRoundType ==
  ASSUME NEW g, Typed(g), AllDone(g)
  PROVE  Typed(ResolveRound(g))
<1> DEFINE h == ResolveRound(g)
<1>1. CASE h = Disband(g)
  <2>1. Typed(Disband(g))
    BY DEF Disband, Typed, Game, RanksKnown, Phase
  <2> QED BY <1>1, <2>1
<1>2. CASE h = FinalizeCycle(g, NoPlayer)
  <2>1. Typed(FinalizeCycle(g, NoPlayer))
    BY FinalizeCycleType DEF MaybePlayer
  <2> QED BY <1>2, <2>1
<1>3. ASSUME NEW low \in SUBSET Player, NEW loser \in Player,
             NEW winner \in MaybePlayer, NEW penalty \in Nat
      PROVE  /\ Typed(EnterTiebreak(g, low, penalty, g.phase, winner))
             /\ Typed(FinalizeCycle(TakeFromBank(g, loser, penalty, "charge"), loser))
             /\ Typed(FinalizeCycle(GiveToLoser(g, winner, loser, penalty), loser))
  <2>1. g.phase \in Phase /\ loser \in MaybePlayer
    BY DEF Typed, Game, MaybePlayer
  <2>2. Typed(EnterTiebreak(g, low, penalty, g.phase, winner))
    BY <2>1, EnterTiebreakType
  <2>3. Typed(TakeFromBank(g, loser, penalty, "charge"))
    BY TakeFromBankType DEF Phase
  <2>4. Typed(GiveToLoser(g, winner, loser, penalty))
    BY GiveToLoserType
  <2> QED BY <2>1, <2>2, <2>3, <2>4, FinalizeCycleType
<1> QED BY <1>1, <1>2, <1>3, ResolveRoundCases, ZenonT(60)

\* Settling a tiebreak keeps the game well-formed.
LEMMA ResolveTiebreakType ==
  ASSUME NEW g, Typed(g)
  PROVE  Typed(ResolveTiebreak(g))
<1> DEFINE tb == g.tiebreak
           low == LowestThrows(g)
           loser == CHOOSE p \in low : TRUE
           charged == TakeFromBank(g, loser, tb.penalty, "charge")
           given == GiveToLoser(g, tb.original_winner_id, loser, tb.penalty)
           discharged == [given EXCEPT !.phase = "decharge"]
           settled == IF tb.return_phase = "charge" THEN charged ELSE discharged
           cleared == [settled EXCEPT !.tiebreak = NoTiebreak]
<1>1. tb \in Tiebreak
  BY DEF Typed, Game
<1>2. CASE tb = NoTiebreak \/ TiebreakRaises(g)
  BY <1>2 DEF ResolveTiebreak
<1>3. CASE ~(tb = NoTiebreak \/ TiebreakRaises(g))
  <2>1. Threw(g) # {}
    BY <1>3 DEF TiebreakRaises
  <2>2. low \in SUBSET Player /\ \E p \in Player : p \in low
    <3> DEFINE f == [p \in Threw(g) |-> g.tiebreak.throws[p]]
    <3>1. f \in [Threw(g) -> Nat]
      BY <1>1 DEF Threw, Tiebreak, Rank
    <3>2. \E p \in Threw(g) : \A q \in Threw(g) : f[p] <= f[q]
      <4> HIDE DEF f
      <4> QED BY <2>1, <3>1, LeastExists
    <3> QED BY <3>2 DEF LowestThrows, Threw
  <2>3. loser \in Player /\ loser \in MaybePlayer
    <3>1. loser \in low
      <4> HIDE DEF low
      <4> QED BY <2>2
    <3> HIDE DEF low, loser
    <3> QED BY <2>2, <3>1 DEF MaybePlayer
  <2> HIDE DEF loser, low
  <2>4. tb.penalty \in Nat /\ tb.return_phase \in Phase /\ tb.original_winner_id \in MaybePlayer
    BY <1>1 DEF Tiebreak
  <2>5. Typed(charged) /\ Typed(given)
    <3> HIDE DEF tb
    <3> QED BY <2>3, <2>4, TakeFromBankType, GiveToLoserType DEF Phase
  <2>6. Typed(discharged)
    <3> HIDE DEF given
    <3> QED BY <2>5 DEF Typed, Game, RanksKnown, Phase
  <2>7. Typed(cleared)
    <3>1. NoTiebreak \in Tiebreak
      BY DEF NoTiebreak, Tiebreak, MaybePlayer, Phase
    <3>2. Typed(settled)
      <4> HIDE DEF charged, discharged
      <4> QED BY <2>5, <2>6
    <3> HIDE DEF settled
    <3> QED BY <3>1, <3>2 DEF Typed, Game, RanksKnown
  <2>8. Typed(EnterTiebreak(g, low, tb.penalty, tb.return_phase, tb.original_winner_id))
    <3> HIDE DEF tb
    <3> QED BY <2>2, <2>4, EnterTiebreakType
  <2>9. Typed(FinalizeCycle(cleared, loser))
    <3> HIDE DEF cleared
    <3> QED BY <2>3, <2>7, FinalizeCycleType
  <2>10. ResolveTiebreak(g) \in {FinalizeCycle(cleared, loser),
           EnterTiebreak(g, low, tb.penalty, tb.return_phase, tb.original_winner_id)}
    BY <1>3 DEF ResolveTiebreak, loser, low
  <2> QED BY <2>8, <2>9, <2>10
<1> QED BY <1>2, <1>3

----------------------------------------------------------------------------
(* Opening, throwing, joining.                                             *)

\* The end of a turn: advance, and settle a complete cycle.
LEMMA EndTurnType ==
  ASSUME NEW g, Typed(g)
  PROVE  Typed(EndTurn(g))
<1>1. Typed(Advance(g))
  <2>1. Advance(g) \in Game
    BY AdvanceType DEF Typed
  <2>2. Advance(g).turn = g.turn
    BY DEF Advance, Typed, Game
  <2> QED BY <2>1, <2>2 DEF Typed, RanksKnown
<1>2. EndTurn(g) = IF AllDone(Advance(g)) THEN ResolveRound(Advance(g)) ELSE Advance(g)
  BY DEF EndTurn
<1> QED BY <1>1, <1>2, ResolveRoundType

\* Dealing the first turns, with somebody at the table.
LEMMA DoStartType ==
  ASSUME NEW g, Typed(g), g.players # <<>>
  PROVE  Typed(DoStart(g))
<1> DEFINE first == g.players[1]
           turns == FreshTurns(g, Seated(g))
           asked == [p \in Player |-> Unasked]
           h == [g EXCEPT !.phase = "charge", !.pool = Chips, !.current_index = 0,
                          !.max_throws = Throws, !.out_of_match = {}, !.tokens = NoChips(g)]
<1>1. first \in Player
  BY DEF Typed, Game
<1>2. turns \in [Player -> Turn] /\ asked \in [Player -> Die \cup {Unasked, Unrolled}]
  BY FreshTurnsType
<1>3. NoChips(g) \in [Player -> Nat]
  BY NoChipsType DEF Typed
<1>4. DoStart(g) = [h EXCEPT !.turn = turns, !.round_starter_id = first, !.initial_rolls = asked]
  BY DEF DoStart
<1> HIDE DEF first, turns, asked
<1>5. h \in Game
  BY <1>3, BoundsAssumption DEF Typed, Game, Phase
<1> HIDE DEF h
<1>6. DoStart(g) \in Game /\ DoStart(g).turn = turns
  BY <1>1, <1>2, <1>4, <1>5 DEF Game, MaybePlayer
<1> QED BY <1>6, FreshTurnsType DEF Typed, RanksKnown, turns

\* Settling the order of play, with somebody at the table.
LEMMA FinalizeOrderType ==
  ASSUME NEW g, Typed(g), NEW h \in FinalizeOrder(g)
  PROVE  Typed(h)
<1> DEFINE lowest == {p \in Seated(g) : \A q \in Seated(g) : g.initial_rolls[p] <= g.initial_rolls[q]}
           again == [p \in Player |-> IF p \in lowest THEN Unrolled ELSE g.initial_rolls[p]]
<1>1. CASE \E p \in Seated(g) : lowest = {p}
  <2>1. PICK s \in SortedSeatings(g) : h = DoStart([g EXCEPT !.players = s])
    BY <1>1 DEF FinalizeOrder
  <2>2. g.players \in Seq(Player) /\ g.players # <<>>
    BY <1>1 DEF Typed, Game, Seated, Members
  <2>3. Seated(g) \subseteq Player
    BY <2>2 DEF Seated, Members
  <2>4. s \in [1..Len(g.players) -> Seated(g)]
    BY <2>2 DEF SortedSeatings
  <2>5. s \in Seq(Player) /\ s # <<>>
    BY <2>2, <2>3, <2>4
  <2>6. Typed([g EXCEPT !.players = s]) /\ [g EXCEPT !.players = s].players # <<>>
    BY <2>5 DEF Typed, Game, RanksKnown
  <2> QED BY <2>1, <2>6, DoStartType
<1>2. CASE ~\E p \in Seated(g) : lowest = {p}
  <2>1. h = [g EXCEPT !.initial_rolls = again]
    BY <1>2 DEF FinalizeOrder
  <2>2. again \in [Player -> Die \cup {Unasked, Unrolled}]
    <3> HIDE DEF lowest
    <3> QED BY DEF Typed, Game
  <2> HIDE DEF again
  <2> QED BY <2>1, <2>2 DEF Typed, Game, RanksKnown
<1> QED BY <1>1, <1>2

\* An initial roll, the last of which settles the order.
LEMMA RollInitialType ==
  ASSUME NEW g, Typed(g), NEW p \in Player, NEW d \in Die, NEW h \in RollInitial(g, p, d)
  PROVE  Typed(h)
<1> DEFINE k == [g EXCEPT !.initial_rolls[p] = d]
<1>1. Typed(k)
  BY DEF Typed, Game, RanksKnown
<1>2. h = k \/ h \in FinalizeOrder(k)
  BY DEF RollInitial
<1> HIDE DEF k
<1> QED BY <1>1, <1>2, FinalizeOrderType

\* A throw spends one of the throws left and leaves a rank on the turn.
LEMMA ThrowType ==
  ASSUME NEW g, Typed(g), NEW p \in Player, MayRoll(g, p), NEW rank \in Rank
  PROVE  Typed(Throw(g, p, rank))
<1> DEFINE left == g.turn[p].rolls_left - 1
           at_max == \/ left = 0
                     \/ OneThrow(g)
                     \/ p # g.round_starter_id /\ Throws - left >= g.max_throws
           t == [rolls_left |-> left, rank |-> rank, done |-> at_max]
           cap == IF at_max /\ OneThrow(g) /\ p = g.round_starter_id THEN 1 ELSE g.max_throws
<1>1. left \in 0..Throws
  BY BoundsAssumption DEF MayRoll, Typed, Game, Turn
<1>2. t \in Turn /\ t.rank # 0
  <2>1. at_max \in BOOLEAN
    BY DEF OneThrow
  <2> HIDE DEF left, at_max
  <2> QED BY <1>1, <2>1 DEF Turn, Rank
<1>3. cap \in Nat
  BY DEF Typed, Game
<1>4. Throw(g, p, rank) = [g EXCEPT !.turn[p] = t, !.max_throws = cap]
  BY DEF Throw, Typed, Game
<1> HIDE DEF t, cap
<1>5. Throw(g, p, rank) \in Game
  <2>1. [g.turn EXCEPT ![p] = t] \in [Player -> Turn]
    BY <1>2, <1>3, <1>4 DEF Typed, Game
  <2> QED BY <1>2, <1>3, <1>4, <2>1 DEF Typed, Game
<1>6. \A q \in Player : Throw(g, p, rank).turn[q] = IF q = p THEN t ELSE g.turn[q]
  BY <1>4 DEF Typed, Game
<1> QED BY <1>2, <1>5, <1>6 DEF Typed, RanksKnown

\* Only a turn that was thrown can be validated.
LEMMA ValidateType ==
  ASSUME NEW g, Typed(g), NEW p \in Player, MayValidate(g, p)
  PROVE  Typed(Validate(g, p))
<1> DEFINE t == [g.turn[p] EXCEPT !.done = TRUE]
           cap == IF p # g.round_starter_id THEN g.max_throws
                  ELSE IF OneThrow(g) THEN 1 ELSE RollsUsed(g, p)
<1>1. g.turn[p] \in Turn /\ g.turn[p] # NoTurn /\ g.turn[p] # NewTurn
  BY BoundsAssumption DEF MayValidate, NewTurn, Typed, Game
<1>2. g.turn[p].rank # 0
  BY <1>1 DEF Typed, RanksKnown
<1>3. t \in Turn /\ t.rank # 0
  BY <1>1, <1>2 DEF Turn
<1>4. cap \in Nat
  BY <1>1, BoundsAssumption DEF RollsUsed, Turn, Typed, Game
<1>5. Validate(g, p) = [g EXCEPT !.turn[p] = t, !.max_throws = cap]
  BY DEF Validate, Typed, Game
<1> HIDE DEF t, cap
<1>6. Validate(g, p) \in Game
  <2>1. [g.turn EXCEPT ![p] = t] \in [Player -> Turn]
    BY <1>3, <1>4, <1>5 DEF Typed, Game
  <2> QED BY <1>3, <1>4, <1>5, <2>1 DEF Typed, Game
<1>7. \A q \in Player : Validate(g, p).turn[q] = IF q = p THEN t ELSE g.turn[q]
  BY <1>5 DEF Typed, Game
<1> QED BY <1>3, <1>6, <1>7 DEF Typed, RanksKnown

\* A tiebreak throw records its rank and passes the hand.
LEMMA ThrowTiebreakType ==
  ASSUME NEW g, Typed(g), NEW p \in Player, NEW rank \in Rank
  PROVE  Typed(ThrowTiebreak(g, p, rank))
<1> DEFINE tb == g.tiebreak
           at == Smallest({k \in DOMAIN tb.order : tb.order[k] = p})
           hand == FirstTied(tb.order, tb.tied, at + 1)
           throws == [tb.throws EXCEPT ![p] = rank]
           next == [tb EXCEPT !.throws = throws, !.next_pid = hand]
<1>1. tb \in Tiebreak
  BY DEF Typed, Game
<1>2. hand \in MaybePlayer
  <2> HIDE DEF at, tb
  <2> QED BY <1>1, FirstTiedType DEF Tiebreak, MaybePlayer
<1>3. throws \in [Player -> Rank \cup {0}]
  <2> HIDE DEF tb
  <2> QED BY <1>1 DEF Tiebreak
<1>4. next \in Tiebreak
  <2> HIDE DEF tb, hand, throws
  <2> QED BY <1>1, <1>2, <1>3 DEF Tiebreak
<1>5. ThrowTiebreak(g, p, rank) = [g EXCEPT !.tiebreak = next]
  <2>1. ThrowTiebreak(g, p, rank)
          = [g EXCEPT !.tiebreak.throws[p] = rank, !.tiebreak.next_pid = hand]
    BY DEF ThrowTiebreak
  <2> HIDE DEF hand
  <2> QED BY <2>1 DEF Typed, Game
<1> HIDE DEF next
<1> QED BY <1>4, <1>5 DEF Typed, Game, RanksKnown

\* A newcomer sits down or waits.
LEMMA JoinGameType ==
  ASSUME NEW g, Typed(g), NEW p \in Player
  PROVE  Typed(JoinGame(g, p))
<1> DEFINE rolls == [g.initial_rolls EXCEPT ![p] = IF g.phase = "initial_roll" THEN Unrolled ELSE @]
           host == IF g.host_player_id = NoPlayer THEN p ELSE g.host_player_id
           seats == Append(g.players, p)
           queue == Append(g.waiting_players, p)
           seat == [g EXCEPT !.players = seats, !.initial_rolls = rolls, !.host_player_id = host]
           wait == [g EXCEPT !.waiting_players = queue]
<1>1. JoinGame(g, p) \in {seat, wait}
  BY DEF JoinGame, Typed, Game
<1>2. seats \in Seq(Player) /\ queue \in Seq(Player)
  BY DEF Typed, Game
<1>3. rolls \in [Player -> Die \cup {Unasked, Unrolled}] /\ host \in MaybePlayer
  BY DEF Typed, Game, MaybePlayer
<1> HIDE DEF rolls, host, seats, queue
<1>4. Typed(seat) /\ Typed(wait)
  BY <1>2, <1>3 DEF Typed, Game, RanksKnown
<1> QED BY <1>1, <1>4

\* A new room is well-formed (create_game).
LEMMA NewGameType ==
  ASSUME NEW rule \in {"sec", "free"}
  PROVE  Typed(NewGame(rule))
<1>1. NoTiebreak \in Tiebreak /\ NoTurn \in Turn
  BY TurnTypes DEF NoTiebreak, Tiebreak, MaybePlayer, Phase
<1> DEFINE turns == [p \in Player |-> NoTurn]
           asked == [p \in Player |-> Unasked]
           clean == [p \in Player |-> 0]
<1>2. /\ turns \in [Player -> Turn] /\ asked \in [Player -> Die \cup {Unasked, Unrolled}]
      /\ clean \in [Player -> Nat] /\ <<>> \in Seq(Player)
  BY <1>1
<1>3. NewGame(rule) \in Game /\ NewGame(rule).turn = turns
  <2>1. NewGame(rule) =
          [phase |-> "waiting", players |-> <<>>, waiting_players |-> <<>>,
           current_index |-> 0, pool |-> Chips, tokens |-> clean,
           turn |-> turns, initial_rolls |-> asked,
           max_throws |-> Throws, round_starter_id |-> NoPlayer, host_player_id |-> NoPlayer,
           match_losses |-> clean, round_points |-> clean,
           out_of_match |-> {}, partie_loser_id |-> NoPlayer, tiebreak |-> NoTiebreak,
           bank_rule |-> rule, pending_rule |-> "none", dissolving |-> FALSE]
    BY DEF NewGame
  <2>2. /\ Chips \in Nat /\ Throws \in Nat /\ 0 \in Nat /\ "waiting" \in Phase
        /\ NoPlayer \in MaybePlayer /\ {} \in SUBSET Player
    BY BoundsAssumption DEF Phase, MaybePlayer
  <2> HIDE DEF turns, asked, clean
  <2> QED BY <1>1, <1>2, <2>1, <2>2 DEF Game
<1> QED BY <1>3 DEF Typed, RanksKnown

\* Opening the initial roll and asking for another rule keep the game
\* well-formed.
LEMMA StartInitialRollType ==
  ASSUME NEW g, Typed(g)
  PROVE  Typed(StartInitialRoll(g))
<1>1. StartInitialRoll(g) \in Game /\ StartInitialRoll(g).turn = g.turn
  BY DEF StartInitialRoll, Typed, Game, Phase
<1> QED BY <1>1 DEF Typed, RanksKnown

LEMMA QueueRuleType ==
  ASSUME NEW g, Typed(g), NEW rule \in RuleChoices
  PROVE  Typed(QueueRule(g, rule))
<1>1. rule \in {"sec", "free"}
  BY RuleAssumption
<1>2. QueueRule(g, rule) \in Game /\ QueueRule(g, rule).turn = g.turn
  BY <1>1 DEF QueueRule, Typed, Game
<1> QED BY <1>2 DEF Typed, RanksKnown

----------------------------------------------------------------------------
(* Sums.  Total, the chips of a set of players, is a fold; a fold is a     *)
(* recursive function on the subsets of a finite set, and each fact about  *)
(* it is shown by looking at a smallest subset on which it would fail.     *)

\* The element the fold takes first.
Pick(s) == CHOOSE x \in s : TRUE

\* What the fold says of the sum over s, given the sums over smaller sets.
SumStep(f, iter, s) == IF s = {} THEN 0 ELSE f[Pick(s)] + iter[s \ {Pick(s)}]

\* iter[s] is the sum of f over s, for every s \subseteq S.
IsSum(iter, f, S) == iter = [s \in SUBSET S |-> SumStep(f, iter, s)]

SumOf(f, S) == CHOOSE iter : IsSum(iter, f, S)

\* Total, the fold, is the recursive function the lemmas speak of.
LEMMA TotalIsSum ==
  ASSUME NEW f, NEW S
  PROVE  Total(f, S) = SumOf(f, S)[S]
  BY DEF Total, FoldFunctionOnSet, MapThenFoldSet, SumOf, IsSum, SumStep, Pick

\* Among some subsets of a finite set, one has none of the others below it.
LEMMA SmallestSubset ==
  ASSUME NEW S, IsFiniteSet(S), NEW Bad \in SUBSET SUBSET S, Bad # {}
  PROVE  \E s \in Bad : \A x \in s : s \ {x} \notin Bad
<1> DEFINE sizes == {Cardinality(s) : s \in Bad}
<1>1. \A s \in SUBSET S : IsFiniteSet(s) /\ Cardinality(s) \in Nat
  BY FS_Subset, FS_CardinalityType
<1>2. sizes \in SUBSET Nat /\ sizes # {}
  BY <1>1
<1>3. Smallest(sizes) \in sizes /\ \A m \in sizes : Smallest(sizes) <= m
  <2> HIDE DEF sizes
  <2> QED BY <1>2, SmallestIn
<1>4. PICK s \in Bad : Cardinality(s) = Smallest(sizes)
  BY <1>3
<1>5. \A x \in s : s \ {x} \notin Bad
  <2> SUFFICES ASSUME NEW x \in s, s \ {x} \in Bad PROVE FALSE
    OBVIOUS
  <2>1. Cardinality(s \ {x}) = Cardinality(s) - 1
    BY <1>1, FS_RemoveElement
  <2>2. Cardinality(s) <= Cardinality(s \ {x})
    BY <1>3, <1>4
  <2> QED BY <1>1, <2>1, <2>2
<1> QED BY <1>5

\* The recursion defines a function: SumOf is one.
LEMMA SumExists ==
  ASSUME NEW S, IsFiniteSet(S), NEW f
  PROVE  IsSum(SumOf(f, S), f, S)
<1> DEFINE Upto(h, n) == \A s \in SUBSET S : Cardinality(s) <= n => h[s] = SumStep(f, h, s)
           bad == {n \in Nat : ~ \E h : Upto(h, n)}
<1>1. \A s \in SUBSET S : IsFiniteSet(s) /\ Cardinality(s) \in Nat
  BY FS_Subset, FS_CardinalityType
<1>2. Upto([s \in SUBSET S |-> 0], 0)
  <2> SUFFICES ASSUME NEW s \in SUBSET S, Cardinality(s) <= 0 PROVE s = {}
    BY DEF SumStep
  <2> QED BY <1>1, FS_EmptySet
<1>3. ASSUME NEW n \in Nat, NEW h, Upto(h, n)
      PROVE  \E k : Upto(k, n + 1)
  <2> DEFINE k == [s \in SUBSET S |-> SumStep(f, h, s)]
  <2>1. ASSUME NEW s \in SUBSET S, Cardinality(s) <= n + 1, s # {}
        PROVE  k[s \ {Pick(s)}] = h[s \ {Pick(s)}]
    <3>1. Pick(s) \in s
      BY <2>1 DEF Pick
    <3> DEFINE r == s \ {Pick(s)}
    <3>2. r \in SUBSET S /\ Cardinality(r) <= n
      BY <1>1, <2>1, <3>1, FS_RemoveElement
    <3>3. h[r] = SumStep(f, h, r)
      BY <1>3, <3>2
    <3> QED BY <3>2, <3>3
  <2>2. Upto(k, n + 1)
    BY <2>1 DEF SumStep
  <2> QED BY <2>2
<1>4. bad = {}
  <2>1. 0 \notin bad
    BY <1>2
  <2>2. \A n \in Nat : n \notin bad => n + 1 \notin bad
    BY <1>3
  <2>3. bad \in SUBSET Nat
    OBVIOUS
  <2> HIDE DEF bad
  <2> SUFFICES ASSUME bad # {} PROVE FALSE
    OBVIOUS
  <2> DEFINE n == Smallest(bad)
  <2>4. n \in bad /\ \A m \in bad : n <= m
    BY <2>3, SmallestIn
  <2> HIDE DEF n
  <2>5. n - 1 \in Nat /\ n - 1 \notin bad
    BY <2>1, <2>3, <2>4
  <2>6. (n - 1) + 1 = n
    BY <2>3, <2>4
  <2> DEFINE m == n - 1
  <2>7. m \in Nat /\ m \notin bad /\ m + 1 = n
    BY <2>5, <2>6
  <2> HIDE DEF m
  <2> QED BY <2>2, <2>4, <2>7
<1>5. Cardinality(S) \in Nat
  BY <1>1
<1>6. PICK h : Upto(h, Cardinality(S))
  BY <1>4, <1>5
<1> DEFINE iter == [s \in SUBSET S |-> h[s]]
<1>7. IsSum(iter, f, S)
  <2>1. ASSUME NEW s \in SUBSET S
        PROVE  h[s] = SumStep(f, iter, s)
    <3>1. Cardinality(s) <= Cardinality(S)
      BY FS_Subset
    <3>2. h[s] = SumStep(f, h, s)
      BY <1>6, <3>1
    <3> QED BY <3>2 DEF SumStep
  <2> QED BY <2>1 DEF IsSum
<1> QED BY <1>7 DEF SumOf

\* The equation of the sum, as a fact about each subset.
LEMMA SumUnfolds ==
  ASSUME NEW S, IsFiniteSet(S), NEW f, NEW s \in SUBSET S
  PROVE  /\ s = {} => SumOf(f, S)[s] = 0
         /\ s # {} => /\ Pick(s) \in s
                      /\ SumOf(f, S)[s] = f[Pick(s)] + SumOf(f, S)[s \ {Pick(s)}]
<1>1. SumOf(f, S) = [t \in SUBSET S |-> SumStep(f, SumOf(f, S), t)]
  BY SumExists DEF IsSum
<1>2. SumOf(f, S)[s] = SumStep(f, SumOf(f, S), s)
  <2> DEFINE iter == SumOf(f, S)
  <2>1. iter = [t \in SUBSET S |-> SumStep(f, iter, t)]
    BY <1>1
  <2> HIDE DEF iter
  <2>2. iter[s] = SumStep(f, iter, s)
    BY <2>1
  <2> QED BY <2>2 DEF iter
<1> QED BY <1>2 DEF SumStep, Pick

\* A sum of naturals is a natural.
LEMMA SumIsNat ==
  ASSUME NEW S, IsFiniteSet(S), NEW f, \A x \in S : f[x] \in Nat
  PROVE  \A s \in SUBSET S : SumOf(f, S)[s] \in Nat
<1> DEFINE bad == {s \in SUBSET S : SumOf(f, S)[s] \notin Nat}
<1> SUFFICES ASSUME bad # {} PROVE FALSE
  OBVIOUS
<1>1. PICK s \in bad : \A x \in s : s \ {x} \notin bad
  BY SmallestSubset
<1>2. s # {} /\ Pick(s) \in s /\ SumOf(f, S)[s] = f[Pick(s)] + SumOf(f, S)[s \ {Pick(s)}]
  <2>1. s \in SUBSET S /\ SumOf(f, S)[s] \notin Nat
    OBVIOUS
  <2>2. s = {} => SumOf(f, S)[s] = 0
    BY SumUnfolds
  <2>3. s # {}
    BY <2>1, <2>2
  <2> QED BY <2>1, <2>3, SumUnfolds, ZenonT(60)
<1>3. SumOf(f, S)[s \ {Pick(s)}] \in Nat
  BY <1>1, <1>2
<1> QED BY <1>1, <1>2, <1>3

\* The sum of nothing but zeros is zero.
LEMMA SumOfZeros ==
  ASSUME NEW S, IsFiniteSet(S), NEW f, \A x \in S : f[x] = 0
  PROVE  SumOf(f, S)[S] = 0
<1> DEFINE bad == {s \in SUBSET S : SumOf(f, S)[s] # 0}
<1> SUFFICES ASSUME bad # {} PROVE FALSE
  OBVIOUS
<1>1. PICK s \in bad : \A x \in s : s \ {x} \notin bad
  BY SmallestSubset
<1>2. s # {} /\ Pick(s) \in s /\ SumOf(f, S)[s] = f[Pick(s)] + SumOf(f, S)[s \ {Pick(s)}]
  BY <1>1, SumUnfolds, ZenonT(60)
<1>3. SumOf(f, S)[s \ {Pick(s)}] = 0 /\ f[Pick(s)] = 0
  BY <1>1, <1>2
<1> QED BY <1>1, <1>2, <1>3

\* One summand that changes moves the sum by as much.
LEMMA SumMoves ==
  ASSUME NEW S, IsFiniteSet(S), NEW f, NEW g, NEW a \in S,
         \A x \in S : f[x] \in Nat /\ g[x] \in Nat,
         \A x \in S \ {a} : g[x] = f[x]
  PROVE  SumOf(g, S)[S] = SumOf(f, S)[S] + g[a] - f[a]
<1> DEFINE moved(s) == IF a \in s THEN g[a] - f[a] ELSE 0
           bad == {s \in SUBSET S : SumOf(g, S)[s] # SumOf(f, S)[s] + moved(s)}
<1>1. bad = {}
  <2> SUFFICES ASSUME bad # {} PROVE FALSE
    OBVIOUS
  <2>1. PICK s \in bad : \A x \in s : s \ {x} \notin bad
    BY SmallestSubset
  <2>2. s # {}
    <3>1. s = {} => SumOf(f, S)[s] = 0 /\ SumOf(g, S)[s] = 0 /\ moved(s) = 0
      BY SumUnfolds
    <3> QED BY <3>1
  <2> DEFINE p == Pick(s)
             r == s \ {p}
  <2>3. /\ p \in s /\ SumOf(f, S)[s] = f[p] + SumOf(f, S)[r]
        /\ SumOf(g, S)[s] = g[p] + SumOf(g, S)[r]
    BY <2>1, <2>2, SumUnfolds
  <2> HIDE DEF p
  <2>4. r \in SUBSET S /\ SumOf(g, S)[r] = SumOf(f, S)[r] + moved(r)
    BY <2>1, <2>3
  <2>5. SumOf(f, S)[r] \in Nat
    BY <2>4, SumIsNat
  <2>6. f[p] \in Nat /\ g[p] \in Nat /\ f[a] \in Nat /\ g[a] \in Nat /\ (p # a => g[p] = f[p])
    BY <2>1, <2>3
  <2>7. moved(s) = moved(r) + (IF p = a THEN g[a] - f[a] ELSE 0)
    BY <2>3, <2>6
  <2>8. g[p] = f[p] + (IF p = a THEN g[a] - f[a] ELSE 0)
    BY <2>6
  <2>9. moved(r) \in Int
    BY <2>6
  <2> DEFINE u == SumOf(f, S)[r]
             v == moved(r)
             w == IF p = a THEN g[a] - f[a] ELSE 0
  <2>10. f[p] + w + (u + v) = f[p] + u + (v + w)
    <3>1. u \in Nat /\ v \in Int /\ w \in Int /\ f[p] \in Nat
      BY <2>5, <2>6, <2>9
    <3> HIDE DEF u, v, w
    <3> QED BY <3>1
  <2> HIDE DEF moved
  <2> QED BY <2>1, <2>3, <2>4, <2>7, <2>8, <2>10
<1>2. SumOf(f, S)[S] \in Nat
  BY SumIsNat
<1>3. SumOf(g, S)[S] = SumOf(f, S)[S] + (g[a] - f[a])
  BY <1>1
<1> QED BY <1>2, <1>3

----------------------------------------------------------------------------
(* The same facts about Total.                                             *)

\* Any element may be the first that is added.
LEMMA SumRemoves ==
  ASSUME NEW S, IsFiniteSet(S), NEW f, \A x \in S : f[x] \in Nat
  PROVE  \A s \in SUBSET S : \A x \in s : SumOf(f, S)[s] = f[x] + SumOf(f, S)[s \ {x}]
<1> DEFINE Removes(s) == \A x \in s : SumOf(f, S)[s] = f[x] + SumOf(f, S)[s \ {x}]
           bad == {s \in SUBSET S : ~Removes(s)}
<1> SUFFICES ASSUME bad # {} PROVE FALSE
  OBVIOUS
<1>1. PICK s \in bad : \A x \in s : s \ {x} \notin bad
  BY SmallestSubset
<1>2. s \in SUBSET S
  OBVIOUS
<1>3. PICK x \in s : SumOf(f, S)[s] # f[x] + SumOf(f, S)[s \ {x}]
  BY <1>1
<1>4. Pick(s) \in s /\ SumOf(f, S)[s] = f[Pick(s)] + SumOf(f, S)[s \ {Pick(s)}]
  BY <1>2, <1>3, SumUnfolds
<1> DEFINE y == Pick(s)
           rest == s \ {x, y}
<1> HIDE DEF y
<1>5. y \in s /\ y # x /\ SumOf(f, S)[s] = f[y] + SumOf(f, S)[s \ {y}]
  BY <1>3, <1>4 DEF y
<1>6. Removes(s \ {x}) /\ Removes(s \ {y})
  BY <1>1, <1>2, <1>3, <1>5
<1>7. /\ (s \ {y}) \ {x} = rest /\ (s \ {x}) \ {y} = rest
      /\ x \in s \ {y} /\ y \in s \ {x}
  BY <1>3, <1>5
<1>8. /\ SumOf(f, S)[s \ {y}] = f[x] + SumOf(f, S)[rest]
      /\ SumOf(f, S)[s \ {x}] = f[y] + SumOf(f, S)[rest]
  BY <1>6, <1>7
<1>9. f[x] \in Nat /\ f[y] \in Nat /\ SumOf(f, S)[rest] \in Nat
  BY <1>2, <1>3, <1>5, SumIsNat
<1> QED BY <1>3, <1>5, <1>8, <1>9

\* Elements without a value add nothing.
LEMMA SumOfMore ==
  ASSUME NEW T, IsFiniteSet(T), NEW S \in SUBSET T, NEW f, \A x \in T : f[x] \in Nat,
         \A x \in T \ S : f[x] = 0
  PROVE  SumOf(f, T)[T] = SumOf(f, S)[S]
<1> DEFINE bad == {s \in SUBSET T : SumOf(f, T)[s] # SumOf(f, S)[s \cap S]}
<1>1. IsFiniteSet(S)
  BY FS_Subset
<1>2. bad = {}
  <2> SUFFICES ASSUME bad # {} PROVE FALSE
    OBVIOUS
  <2>1. PICK s \in bad : \A x \in s : s \ {x} \notin bad
    BY SmallestSubset
  <2>2. s \in SUBSET T /\ s \cap S \in SUBSET S
    OBVIOUS
  <2>3. s # {}
    <3>1. s = {} => SumOf(f, T)[s] = 0 /\ SumOf(f, S)[s \cap S] = 0
      <4>1. s = {} => SumOf(f, T)[s] = 0
        BY <2>2, SumUnfolds
      <4>2. s \cap S = {} => SumOf(f, S)[s \cap S] = 0
        BY <1>1, <2>2, SumUnfolds
      <4> QED BY <4>1, <4>2
    <3> QED BY <2>1, <3>1
  <2>4. PICK x : x \in s
    BY <2>3
  <2>5. SumOf(f, T)[s] = f[x] + SumOf(f, T)[s \ {x}]
    BY <2>2, <2>4, SumRemoves
  <2>6. s \ {x} \in SUBSET T
    BY <2>2
  <2>7. SumOf(f, T)[s \ {x}] = SumOf(f, S)[(s \ {x}) \cap S]
    BY <2>1, <2>4, <2>6
  <2>8. CASE x \in S
    <3>1. x \in s \cap S /\ (s \ {x}) \cap S = (s \cap S) \ {x}
      BY <2>4, <2>8
    <3>2. \A y \in S : f[y] \in Nat
      OBVIOUS
    <3>3. SumOf(f, S)[s \cap S] = f[x] + SumOf(f, S)[(s \cap S) \ {x}]
      BY <1>1, <2>2, <3>1, <3>2, SumRemoves
    <3>4. SumOf(f, T)[s \ {x}] = SumOf(f, S)[(s \cap S) \ {x}]
      BY <2>7, <3>1, Zenon
    <3>5. SumOf(f, T)[s] = SumOf(f, S)[s \cap S]
      BY <2>5, <3>3, <3>4, Zenon
    <3> QED BY <2>1, <3>5
  <2>9. CASE x \notin S
    <3>1. (s \ {x}) \cap S = s \cap S /\ f[x] = 0
      BY <2>2, <2>4, <2>9
    <3>2. SumOf(f, S)[s \cap S] \in Nat
      <4>1. \A y \in S : f[y] \in Nat
        OBVIOUS
      <4> QED BY <1>1, <2>2, <4>1, SumIsNat
    <3>3. SumOf(f, T)[s \ {x}] = SumOf(f, S)[s \cap S]
      BY <2>7, <3>1, Zenon
    <3>4. SumOf(f, T)[s] = SumOf(f, S)[s \cap S]
      <4> DEFINE less == SumOf(f, S)[s \cap S]
      <4>1. SumOf(f, T)[s] = 0 + less
        BY <2>5, <3>1, <3>3, Zenon
      <4> HIDE DEF less
      <4>2. 0 + less = less
        BY <3>2 DEF less
      <4> QED BY <4>1, <4>2 DEF less
    <3> QED BY <2>1, <3>4
  <2> QED BY <2>8, <2>9
<1>3. T \cap S = S /\ T \in SUBSET T
  OBVIOUS
<1> HIDE DEF bad
<1>4. T \notin bad
  BY <1>2
<1> QED BY <1>3, <1>4 DEF bad

\* The same facts, of Total: a total is a number,
LEMMA TotalIsNat ==
  ASSUME NEW S, IsFiniteSet(S), NEW f, \A x \in S : f[x] \in Nat
  PROVE  Total(f, S) \in Nat
  BY SumIsNat, TotalIsSum

\* zero when nobody holds anything.
LEMMA TotalOfZeros ==
  ASSUME NEW S, IsFiniteSet(S), NEW f, \A x \in S : f[x] = 0
  PROVE  Total(f, S) = 0
  BY SumOfZeros, TotalIsSum

\* A change of one holding changes the total by as much.
LEMMA TotalMoves ==
  ASSUME NEW S, IsFiniteSet(S), NEW f, NEW g, NEW a \in S,
         \A x \in S : f[x] \in Nat /\ g[x] \in Nat,
         \A x \in S \ {a} : g[x] = f[x]
  PROVE  Total(g, S) = Total(f, S) + g[a] - f[a]
  BY SumMoves, TotalIsSum

\* Who has no chips adds none to those at the table.
LEMMA TotalOfMore ==
  ASSUME NEW T, IsFiniteSet(T), NEW S \in SUBSET T, NEW f, \A x \in T : f[x] \in Nat,
         \A x \in T \ S : f[x] = 0
  PROVE  Total(f, T) = Total(f, S)
  BY SumOfMore, TotalIsSum

\* Two holdings are not more than the total.
LEMMA TotalBoundsTwo ==
  ASSUME NEW S, IsFiniteSet(S), NEW f, \A x \in S : f[x] \in Nat, NEW a \in S
  PROVE  /\ f[a] <= Total(f, S)
         /\ \A b \in S \ {a} : f[a] + f[b] <= Total(f, S)
<1> DEFINE g == [x \in S |-> IF x = a THEN 0 ELSE f[x]]
<1>1. \A x \in S : g[x] \in Nat
  OBVIOUS
<1>2. \A x \in S \ {a} : g[x] = f[x]
  OBVIOUS
<1>3. g[a] = 0
  OBVIOUS
<1>4. Total(g, S) = Total(f, S) + g[a] - f[a]
  <2> HIDE DEF g
  <2> QED BY <1>1, <1>2, TotalMoves
<1>5. Total(f, S) \in Nat /\ Total(g, S) \in Nat
  <2> HIDE DEF g
  <2> QED BY <1>1, TotalIsNat
<1>6. f[a] <= Total(f, S)
  <2> HIDE DEF g
  <2> QED BY <1>3, <1>4, <1>5
<1>7. ASSUME NEW b \in S \ {a}
      PROVE  f[a] + f[b] <= Total(f, S)
  <2> DEFINE h == [x \in S |-> IF x = b THEN 0 ELSE g[x]]
  <2>1. \A x \in S : h[x] \in Nat
    BY <1>1
  <2>2. \A x \in S \ {b} : h[x] = g[x]
    OBVIOUS
  <2>3. h[b] = 0 /\ g[b] = f[b] /\ b \in S
    OBVIOUS
  <2> HIDE DEF g, h
  <2>4. Total(h, S) = Total(g, S) + h[b] - g[b]
    BY <1>1, <2>1, <2>2, <2>3, TotalMoves
  <2>5. Total(h, S) \in Nat
    BY <2>1, TotalIsNat
  <2> QED BY <1>3, <1>4, <1>5, <2>3, <2>4, <2>5
<1> QED BY <1>6, <1>7

\* What nobody holds alone, two share.
LEMMA TotalIsShared ==
  ASSUME NEW S, IsFiniteSet(S), NEW f, \A x \in S : f[x] \in Nat,
         Total(f, S) > 0, \A x \in S : f[x] < Total(f, S)
  PROVE  \E a, b \in S : a # b /\ f[a] > 0 /\ f[b] > 0
<1>1. PICK a \in S : f[a] > 0
  BY TotalOfZeros
<1> DEFINE g == [x \in S |-> IF x = a THEN 0 ELSE f[x]]
<1>2. \A x \in S : g[x] \in Nat
  OBVIOUS
<1>3. \A x \in S \ {a} : g[x] = f[x]
  OBVIOUS
<1>4. g[a] = 0
  OBVIOUS
<1> HIDE DEF g
<1>5. Total(g, S) = Total(f, S) + g[a] - f[a]
  BY <1>2, <1>3, TotalMoves
<1>6. Total(f, S) \in Nat
  BY TotalIsNat
<1>7. Total(g, S) # 0
  BY <1>4, <1>5, <1>6
<1>8. PICK b \in S : g[b] # 0
  BY <1>7, TotalOfZeros
<1> QED BY <1>1, <1>2, <1>3, <1>4, <1>8

\* The seated players are finitely many.
LEMMA SeatedIsFinite ==
  ASSUME NEW g \in Game
  PROVE  IsFiniteSet(Seated(g))
<1> DEFINE n == Len(g.players)
           at == [i \in 1..n |-> g.players[i]]
<1>1. g.players \in Seq(Player) /\ n \in Nat /\ DOMAIN g.players = 1..n
  BY DEF Game
<1>2. Seated(g) = {at[i] : i \in 1..n}
  BY <1>1 DEF Seated, Members
<1>3. IsFiniteSet(1..n)
  BY <1>1, FS_Interval
<1> HIDE DEF n
<1>4. at \in Surjection(1..n, Seated(g))
  BY <1>2 DEF Surjection
<1> HIDE DEF at
<1> QED BY <1>3, <1>4, FS_Surjection

----------------------------------------------------------------------------
(***************************************************************************)
(* What the engine does to the bank and the scores: the phase tells        *)
(* whether the bank has chips, scores stay below their limits, and rules   *)
(* change between matches only.                                            *)
(*                                                                         *)
(* Sound says the first two, and that a partie that has a loser is         *)
(* finished. It is kept when a cycle is settled in charge or décharge and  *)
(* a tiebreak in a tiebreak; whether they are is for the modules that use  *)
(* these lemmas to show.                                                   *)
(***************************************************************************)

Sound(g) ==
  /\ g.partie_loser_id # NoPlayer => g.phase = "finished"
  /\ PoolFitsPhase(g)
  /\ ScoresFit(g)

\* A game between two throws of a cycle, whose scores are in order.
InCycle(g) == Typed(g) /\ Sound(g) /\ g.phase \in {"charge", "decharge"}

\* What a step from g to h may do to the rules of the match.
RuleWaits(g, h) ==
  h.bank_rule # g.bank_rule =>
    /\ h.pool = Chips /\ h.phase = "charge"
    /\ \A p \in Seated(h) : p \in Player => h.turn[p] = NewTurn

\* A step of the engine from g to h keeps bank, scores and rules in order.
Keeps(g, h) == Sound(h) /\ RuleWaits(g, h)

\* h has the scores and the rules of g.
SameScores(g, h) ==
  /\ h.partie_loser_id = g.partie_loser_id
  /\ h.match_losses = g.match_losses /\ h.round_points = g.round_points
  /\ h.bank_rule = g.bank_rule

----------------------------------------------------------------------------
(* The end of a cycle.                                                     *)

\* What StartNewSet writes that Sound and the rules read.
LEMMA StartNewSetFields ==
  ASSUME NEW g \in Game, NEW p
  PROVE  LET h == StartNewSet(g, p)
         IN  /\ h.phase = "charge" /\ h.pool = Chips
             /\ h.partie_loser_id = g.partie_loser_id
             /\ h.match_losses = g.match_losses /\ h.round_points = g.round_points
             /\ h.bank_rule = g.bank_rule
             /\ \A q \in Seated(h) : q \in Player => h.turn[q] = NewTurn
<1> DEFINE turns == FreshTurns(g, Seated(g))
           chips == NoChips(g)
           index == IndexOrZero(g, p)
           h == [g EXCEPT !.out_of_match = {}, !.tokens = chips, !.turn = turns,
                          !.pool = Chips, !.phase = "charge", !.max_throws = Throws,
                          !.current_index = index, !.round_starter_id = p]
<1>1. StartNewSet(g, p) = h
  BY DEF StartNewSet
<1>2. \A q \in Player : q \in Seated(g) => turns[q] = NewTurn
  BY DEF FreshTurns
<1> HIDE DEF turns, chips, index
<1>3. /\ h.phase = "charge" /\ h.pool = Chips
      /\ h.partie_loser_id = g.partie_loser_id
      /\ h.match_losses = g.match_losses /\ h.round_points = g.round_points
      /\ h.bank_rule = g.bank_rule /\ h.turn = turns /\ h.players = g.players
  BY DEF Game
<1>4. Seated(h) = Seated(g)
  BY <1>3 DEF Seated
<1> HIDE DEF h
<1> QED BY <1>1, <1>2, <1>3, <1>4

\* What AdmitWaiting leaves alone; newcomers start with no lost match.
LEMMA AdmitWaitingFields ==
  ASSUME NEW g \in Game
  PROVE  LET h == AdmitWaiting(g)
         IN  /\ h.phase = g.phase /\ h.pool = g.pool
             /\ h.partie_loser_id = g.partie_loser_id
             /\ h.round_points = g.round_points /\ h.bank_rule = g.bank_rule
             /\ \A q \in Player : h.match_losses[q] \in {0, g.match_losses[q]}
<1> DEFINE new == Members(g.waiting_players)
           seats == g.players \o g.waiting_players
           losses == [p \in Player |-> IF p \in new THEN 0 ELSE g.match_losses[p]]
           turns == FreshTurns(g, new)
           h == [g EXCEPT !.players = seats, !.waiting_players = <<>>,
                          !.match_losses = losses, !.turn = turns]
<1>1. AdmitWaiting(g) = h
  BY DEF AdmitWaiting, Game
<1>2. \A q \in Player : losses[q] \in {0, g.match_losses[q]}
  OBVIOUS
<1> HIDE DEF seats, losses, turns
<1>3. /\ h.phase = g.phase /\ h.pool = g.pool
      /\ h.partie_loser_id = g.partie_loser_id
      /\ h.round_points = g.round_points /\ h.bank_rule = g.bank_rule
      /\ h.match_losses = losses
  BY DEF Game
<1> HIDE DEF h
<1> QED BY <1>1, <1>2, <1>3

\* The end of a match: a second loss is always turned into a point, and the
\* last point always ends the partie; the bank is full before the next match.
LEMMA EndMatchSound ==
  ASSUME NEW g, InCycle(g), NEW p \in Player
  PROVE  Keeps(g, EndMatch(g, p))
<1> DEFINE count  == g.match_losses[p] + 1
           kept   == [g EXCEPT !.match_losses[p] = count]
           h      == AdmitWaiting(kept)
           scored == LosePoint(h, p)
           lost   == [scored EXCEPT !.partie_loser_id = p, !.phase = "finished"]
           next   == ApplyPendingRules(scored)
           end    == EndMatch(g, p)
<1>1. /\ g \in Game /\ g.partie_loser_id = NoPlayer
      /\ \A q \in Player : /\ g.match_losses[q] \in {0, 1}
                           /\ g.round_points[q] \in Nat /\ g.round_points[q] < PointsToLose
  <2>1. g \in Game /\ g.partie_loser_id = NoPlayer
    BY DEF InCycle, Typed, Sound
  <2>2. \A q \in Player : g.match_losses[q] \in Nat /\ g.round_points[q] \in Nat
    BY <2>1 DEF Game
  <2> QED BY <2>1, <2>2, PlayerAssumption, BoundsAssumption DEF InCycle, Sound, ScoresFit
<1>2. /\ kept \in Game /\ kept.round_points = g.round_points
      /\ kept.partie_loser_id = NoPlayer /\ kept.bank_rule = g.bank_rule
      /\ \A q \in Player : kept.match_losses[q] = IF q = p THEN count ELSE g.match_losses[q]
  <2> DEFINE losses == [g.match_losses EXCEPT ![p] = count]
  <2>1. losses \in [Player -> Nat] /\ g.match_losses \in [Player -> Nat]
    BY <1>1 DEF Game
  <2>2. kept = [g EXCEPT !.match_losses = losses]
    BY <1>1 DEF Game
  <2>3. \A q \in Player : losses[q] = IF q = p THEN count ELSE g.match_losses[q]
    BY <2>1
  <2> HIDE DEF losses, kept
  <2>4. kept \in Game /\ kept.match_losses = losses
    BY <1>1, <2>1, <2>2 DEF Game
  <2>5. /\ kept.round_points = g.round_points
        /\ kept.partie_loser_id = NoPlayer /\ kept.bank_rule = g.bank_rule
    BY <1>1, <2>2 DEF Game
  <2> QED BY <2>3, <2>4, <2>5
<1>3. Typed(kept)
  BY <1>2 DEF InCycle, Typed, RanksKnown
<1>4. h \in Game
  <2> HIDE DEF kept
  <2> QED BY <1>3, AdmitWaitingType DEF Typed
<1>5. /\ h.partie_loser_id = NoPlayer /\ h.round_points = g.round_points
      /\ h.bank_rule = g.bank_rule
      /\ \A q \in Player : h.match_losses[q] \in {0, kept.match_losses[q]}
  <2> HIDE DEF kept
  <2> QED BY <1>2, AdmitWaitingFields
<1> DEFINE points == [h.round_points EXCEPT ![p] = @ + 1]
           clean  == [q \in Player |-> 0]
<1>6. points \in [Player -> Nat] /\ clean \in [Player -> Nat]
  <2> HIDE DEF h
  <2> QED BY <1>4 DEF Game
<1>7. \A q \in Player : points[q] = IF q = p THEN g.round_points[q] + 1 ELSE g.round_points[q]
  <2> HIDE DEF h
  <2> QED BY <1>4, <1>5 DEF Game
<1>8. scored = [h EXCEPT !.round_points = points, !.match_losses = clean]
  <2> HIDE DEF h
  <2> QED BY <1>4 DEF LosePoint, Game
<1>9. /\ scored \in Game /\ scored.partie_loser_id = NoPlayer /\ scored.bank_rule = g.bank_rule
      /\ scored.round_points = points /\ scored.match_losses = clean
  <2> HIDE DEF h, points, clean, scored
  <2> QED BY <1>4, <1>5, <1>6, <1>8 DEF Game
<1>10. /\ next \in Game /\ next.partie_loser_id = NoPlayer
       /\ next.round_points = points /\ next.match_losses = clean
  <2> HIDE DEF scored, points, clean
  <2> QED BY <1>9 DEF ApplyPendingRules, Game
<1>11. end = IF count < 2 THEN StartNewSet(h, p)
             ELSE IF points[p] >= PointsToLose THEN lost ELSE StartNewSet(next, p)
  BY <1>9 DEF EndMatch
<1>12. CASE count < 2
  <2> HIDE DEF h, next, lost, points, kept, end
  <2>1. end = StartNewSet(h, p)
    BY <1>11, <1>12
  <2>2. /\ end.phase = "charge" /\ end.pool = Chips /\ end.partie_loser_id = NoPlayer
        /\ end.match_losses = h.match_losses /\ end.round_points = g.round_points
        /\ end.bank_rule = g.bank_rule
    BY <1>4, <1>5, <2>1, StartNewSetFields
  <2>3. \A q \in Player : h.match_losses[q] <= 1
    BY <1>1, <1>2, <1>5, <1>12
  <2>4. ScoresFit(end)
    BY <1>1, <2>2, <2>3, PlayerAssumption, BoundsAssumption DEF ScoresFit
  <2> QED BY <2>2, <2>4, BoundsAssumption DEF end, Keeps, Sound, PoolFitsPhase, PlayPhase, RuleWaits
<1>13. CASE count >= 2 /\ points[p] >= PointsToLose
  <2>1. end = lost
    BY <1>1, <1>11, <1>13
  <2> HIDE DEF scored, points, clean, end
  <2>2. /\ lost.phase = "finished" /\ lost.partie_loser_id = p
        /\ lost.round_points = points /\ lost.match_losses = clean
        /\ lost.bank_rule = g.bank_rule
    BY <1>9 DEF Game
  <2> HIDE DEF lost
  <2>3. \A q \in Player : points[q] <= PointsToLose /\ (points[q] = PointsToLose <=> p = q)
    BY <1>1, <1>6, <1>7, <1>13, BoundsAssumption
  <2>4. \A q \in Player : clean[q] = 0
    BY DEF clean
  <2>5. ScoresFit(lost)
    BY <2>2, <2>3, <2>4 DEF ScoresFit
  <2> QED BY <2>1, <2>2, <2>5 DEF end, Keeps, Sound, PoolFitsPhase, InPlay, RuleWaits
<1>14. CASE count >= 2 /\ ~(points[p] >= PointsToLose)
  <2>1. end = StartNewSet(next, p)
    BY <1>1, <1>11, <1>14
  <2> HIDE DEF next, points, clean, end
  <2>2. /\ end.phase = "charge" /\ end.pool = Chips /\ end.partie_loser_id = NoPlayer
        /\ end.match_losses = clean /\ end.round_points = points
        /\ \A q \in Seated(end) : q \in Player => end.turn[q] = NewTurn
    BY <1>10, <2>1, StartNewSetFields
  <2>3. \A q \in Player : points[q] < PointsToLose
    BY <1>1, <1>6, <1>7, <1>14, BoundsAssumption
  <2>4. \A q \in Player : clean[q] = 0
    BY DEF clean
  <2>5. ScoresFit(end)
    BY <1>6, <2>2, <2>3, <2>4, PlayerAssumption, BoundsAssumption DEF ScoresFit
  <2> QED BY <2>2, <2>5, BoundsAssumption DEF end, Keeps, Sound, PoolFitsPhase, PlayPhase, RuleWaits
<1> QED BY <1>1, <1>12, <1>13, <1>14

\* Players sit out and the next cycle is dealt: neither bank nor scores move.
LEMMA NextCycleFields ==
  ASSUME NEW g \in Game, NEW p
  PROVE  LET h == NextCycle(SitOut(g), p)
         IN  SameScores(g, h) /\ h.phase = g.phase /\ h.pool = g.pool
<1> DEFINE k == SitOut(g)
           out == g.out_of_match \cup {q \in Seated(g) : g.tokens[q] = 0}
           opened == OpenedBy(k, p)
           turns == [q \in Player |-> IF q \notin Seated(k) THEN opened.turn[q]
                                      ELSE IF q \in k.out_of_match THEN NoTurn ELSE NewTurn]
           index == IndexOrZero(k, p)
<1>1. k = g \/ k = [g EXCEPT !.out_of_match = out]
  BY DEF SitOut, Game
<1>2. DOMAIN g = DOMAIN k /\ SameScores(g, k) /\ k.phase = g.phase /\ k.pool = g.pool
  <2> HIDE DEF k, out
  <2> QED BY <1>1 DEF SameScores, Game
<1>3. opened = k \/ opened = [k EXCEPT !.round_starter_id = p, !.current_index = index]
  BY DEF OpenedBy
<1>4. /\ SameScores(g, opened) /\ opened.phase = g.phase /\ opened.pool = g.pool
      /\ DOMAIN opened = DOMAIN g
  <2> HIDE DEF k, opened, index
  <2> QED BY <1>2, <1>3 DEF SameScores, Game
<1>5. NextCycle(k, p) = [opened EXCEPT !.max_throws = Throws, !.turn = turns]
  BY DEF NextCycle
<1> HIDE DEF k, opened, turns
<1>6. LET h == [opened EXCEPT !.max_throws = Throws, !.turn = turns]
      IN  SameScores(g, h) /\ h.phase = g.phase /\ h.pool = g.pool
  BY <1>4 DEF SameScores
<1> QED BY <1>5, <1>6 DEF k

\* A game that keeps bank, phase and scores of one that is sound is sound.
LEMMA SameIsSound ==
  ASSUME NEW g, InCycle(g), NEW h, SameScores(g, h), h.phase = g.phase, h.pool = g.pool
  PROVE  Keeps(g, h)
  BY DEF Keeps, InCycle, Sound, SameScores, RuleWaits, PoolFitsPhase, PlayPhase, InPlay, ScoresFit

\* _finalize_cycle: the end of a match or the next cycle.
LEMMA FinalizeCycleSound ==
  ASSUME NEW g, InCycle(g), NEW p
  PROVE  Keeps(g, FinalizeCycle(g, p))
<1> DEFINE full == {q \in Seated(g) : g.tokens[q] >= Chips}
<1>1. CASE full = {}
  <2>1. FinalizeCycle(g, p) = NextCycle(SitOut(g), p)
    BY <1>1 DEF FinalizeCycle
  <2> QED BY <2>1, NextCycleFields, SameIsSound DEF InCycle, Typed
<1>2. CASE full # {}
  <2>1. PICK q \in full : TRUE
    BY <1>2
  <2>2. FirstSeated(g, full) \in Player
    <3> HIDE DEF full
    <3>1. q \in full \cap Seated(g)
      BY DEF full
    <3> QED BY <3>1, FirstSeatedType DEF InCycle, Typed
  <2>3. FinalizeCycle(g, p) = EndMatch(g, FirstSeated(g, full))
    BY <1>2 DEF FinalizeCycle
  <2> QED BY <2>2, <2>3, EndMatchSound
<1> QED BY <1>1, <1>2

----------------------------------------------------------------------------
(* Settling a cycle.                                                       *)

\* The bank pays what it has, and an empty bank is what ends the charge.
LEMMA TakeFromBankSound ==
  ASSUME NEW g, Typed(g), Sound(g), g.partie_loser_id = NoPlayer, g.pool > 0,
         NEW loser \in Player, NEW penalty \in Nat
  PROVE  LET h == TakeFromBank(g, loser, penalty, "charge")
         IN  InCycle(h) /\ h.bank_rule = g.bank_rule
<1> DEFINE taken == Lesser(penalty, g.pool)
           chips == [g.tokens EXCEPT ![loser] = @ + taken]
           left  == g.pool - taken
           phase == IF left = 0 THEN "decharge" ELSE "charge"
           h     == TakeFromBank(g, loser, penalty, "charge")
<1>1. left \in Nat
  BY DEF Lesser, Typed, Game
<1>2. h = [g EXCEPT !.tokens = chips, !.pool = left, !.phase = phase]
  <2>1. TakeFromBank(g, loser, penalty, "charge")
          = [g EXCEPT !.tokens[loser] = @ + taken, !.pool = @ - taken, !.phase = phase]
    BY DEF TakeFromBank
  <2> HIDE DEF taken
  <2> QED BY <2>1 DEF Typed, Game
<1> HIDE DEF taken, chips, left, phase, h
<1>3. SameScores(g, h) /\ h.phase = phase /\ h.pool = left
  BY <1>2 DEF SameScores, Typed, Game
<1>4. h.phase \in {"charge", "decharge"} /\ (h.phase = "charge" <=> h.pool > 0)
  BY <1>1, <1>3 DEF phase
<1>5. Sound(h)
  BY <1>3, <1>4 DEF Sound, SameScores, PoolFitsPhase, PlayPhase, ScoresFit
<1>6. Typed(h)
  BY TakeFromBankType DEF h, Phase
<1> QED BY <1>3, <1>4, <1>5, <1>6 DEF InCycle, SameScores, h

\* A transfer between players touches neither bank nor scores.
LEMMA GiveToLoserFields ==
  ASSUME NEW g \in Game, NEW winner, NEW loser, NEW penalty
  PROVE  LET h == GiveToLoser(g, winner, loser, penalty)
         IN  SameScores(g, h) /\ h.phase = g.phase /\ h.pool = g.pool
<1> DEFINE chips == [g.tokens EXCEPT ![winner] = @ - Lesser(penalty, g.tokens[winner]),
                                     ![loser] = @ + Lesser(penalty, g.tokens[winner])]
           h == GiveToLoser(g, winner, loser, penalty)
<1>1. h = g \/ h = [g EXCEPT !.tokens = chips]
  BY DEF GiveToLoser
<1> HIDE DEF chips, h
<1>2. SameScores(g, h) /\ h.phase = g.phase /\ h.pool = g.pool
  BY <1>1 DEF SameScores, Game
<1> QED BY <1>2 DEF h

\* A tiebreak remembers the phase it returns to.
LEMMA EnterTiebreakFields ==
  ASSUME NEW g \in Game, NEW tied, NEW penalty, NEW phase, NEW winner
  PROVE  LET h == EnterTiebreak(g, tied, penalty, phase, winner)
         IN  /\ SameScores(g, h) /\ h.phase = "tiebreak" /\ h.pool = g.pool
             /\ h.tiebreak.return_phase = phase
<1> DEFINE h == EnterTiebreak(g, tied, penalty, phase, winner)
           turns == FreshTurns(g, tied)
           clean == [p \in Player |-> 0]
           order == ReversePlayOrder(g)
           hand == FirstTied(order, tied, 1)
           tb == [order |-> order, tied |-> tied, throws |-> clean, next_pid |-> hand,
                  penalty |-> penalty, return_phase |-> phase, original_winner_id |-> winner]
<1>1. h = [g EXCEPT !.phase = "tiebreak", !.turn = turns, !.tiebreak = tb]
  BY DEF EnterTiebreak
<1>2. tb.return_phase = phase
  OBVIOUS
<1> HIDE DEF h, turns, tb
<1>3. SameScores(g, h) /\ h.phase = "tiebreak" /\ h.pool = g.pool /\ h.tiebreak = tb
  BY <1>1 DEF SameScores, Game
<1> QED BY <1>2, <1>3 DEF h

\* _resolve_round, called in charge or décharge.
LEMMA ResolveRoundSound ==
  ASSUME NEW g, InCycle(g), AllDone(g)
  PROVE  Keeps(g, ResolveRound(g))
<1>1. /\ g \in Game /\ Typed(g) /\ Sound(g) /\ g.partie_loser_id = NoPlayer
      /\ g.phase \in {"charge", "decharge"} /\ (g.phase = "charge" <=> g.pool > 0)
  BY DEF InCycle, Typed, Sound, PoolFitsPhase, PlayPhase, InPlay
<1>2. CASE ResolveRound(g) = Disband(g)
  <2>1. Keeps(g, Disband(g))
    BY <1>1 DEF Disband, Keeps, Sound, RuleWaits, PoolFitsPhase, InPlay, ScoresFit, Game
  <2> QED BY <1>2, <2>1
<1>3. CASE ResolveRound(g) = FinalizeCycle(g, NoPlayer)
  <2>1. Keeps(g, FinalizeCycle(g, NoPlayer))
    BY FinalizeCycleSound
  <2> QED BY <1>3, <2>1
<1>4. ASSUME NEW low \in SUBSET Player, NEW loser \in Player,
             NEW winner \in MaybePlayer, NEW penalty \in Nat
      PROVE  /\ Keeps(g, EnterTiebreak(g, low, penalty, g.phase, winner))
             /\ g.phase = "charge" =>
                  Keeps(g, FinalizeCycle(TakeFromBank(g, loser, penalty, "charge"), loser))
             /\ g.phase # "charge" =>
                  Keeps(g, FinalizeCycle(GiveToLoser(g, winner, loser, penalty), loser))
  <2>1. Keeps(g, EnterTiebreak(g, low, penalty, g.phase, winner))
    BY <1>1, EnterTiebreakFields
       DEF Keeps, Sound, SameScores, RuleWaits, PoolFitsPhase, PlayPhase, InPlay, ScoresFit
  <2>2. ASSUME g.phase = "charge"
        PROVE  Keeps(g, FinalizeCycle(TakeFromBank(g, loser, penalty, "charge"), loser))
    <3> DEFINE k == TakeFromBank(g, loser, penalty, "charge")
    <3>1. InCycle(k) /\ k.bank_rule = g.bank_rule
      BY <1>1, <2>2, TakeFromBankSound
    <3> HIDE DEF k
    <3>2. Keeps(g, FinalizeCycle(k, loser))
      BY <3>1, FinalizeCycleSound DEF Keeps, RuleWaits
    <3> QED BY <3>2 DEF k
  <2>3. Keeps(g, FinalizeCycle(GiveToLoser(g, winner, loser, penalty), loser))
    <3> DEFINE k == GiveToLoser(g, winner, loser, penalty)
    <3>1. Typed(k)
      BY <1>1, GiveToLoserType
    <3>2. SameScores(g, k) /\ k.phase = g.phase /\ k.pool = g.pool
      BY <1>1, GiveToLoserFields
    <3> HIDE DEF k
    <3>3. Sound(k)
      BY <3>2, SameIsSound DEF Keeps
    <3>4. InCycle(k) /\ k.bank_rule = g.bank_rule
      BY <1>1, <3>1, <3>2, <3>3 DEF InCycle, SameScores
    <3>5. Keeps(g, FinalizeCycle(k, loser))
      BY <3>4, FinalizeCycleSound DEF Keeps, RuleWaits
    <3> QED BY <3>5 DEF k
  <2> QED BY <2>1, <2>2, <2>3
<1>5. CASE \E low \in SUBSET Player, loser \in Player, winner \in MaybePlayer, penalty \in Nat :
              \/ ResolveRound(g) = EnterTiebreak(g, low, penalty, g.phase, winner)
              \/ /\ g.phase = "charge"
                 /\ ResolveRound(g) = FinalizeCycle(TakeFromBank(g, loser, penalty, "charge"), loser)
              \/ /\ g.phase # "charge"
                 /\ ResolveRound(g) = FinalizeCycle(GiveToLoser(g, winner, loser, penalty), loser)
  BY <1>4, <1>5, Zenon
<1> QED BY <1>1, <1>2, <1>3, <1>5, ResolveRoundCases, Zenon

\* The game in which the loser of a tiebreak has taken its chips.
Paid(g, loser) ==
  LET tb == g.tiebreak
  IN  IF tb.return_phase = "charge" THEN TakeFromBank(g, loser, tb.penalty, "charge")
      ELSE [GiveToLoser(g, tb.original_winner_id, loser, tb.penalty) EXCEPT !.phase = "decharge"]
Cleared(g, loser) == [Paid(g, loser) EXCEPT !.tiebreak = NoTiebreak]

\* _resolve_tiebreak leaves the game, makes the lowest throw again, or closes
\* the cycle with the one lowest player as its loser.
LEMMA ResolveTiebreakCases ==
  ASSUME NEW g
  PROVE  LET tb == g.tiebreak
             low == LowestThrows(g)
             h == ResolveTiebreak(g)
         IN  \/ h = g /\ (tb = NoTiebreak \/ TiebreakRaises(g))
             \/ /\ h = EnterTiebreak(g, low, tb.penalty, tb.return_phase, tb.original_winner_id)
                /\ ~TiebreakRaises(g)
             \/ \E loser \in low : h = FinalizeCycle(Cleared(g, loser), loser)
<1> DEFINE tb == g.tiebreak
           low == LowestThrows(g)
           loser == CHOOSE p \in low : TRUE
           again == EnterTiebreak(g, low, tb.penalty, tb.return_phase, tb.original_winner_id)
           h == ResolveTiebreak(g)
<1>1. \/ h = g /\ (tb = NoTiebreak \/ TiebreakRaises(g))
      \/ h = again /\ ~TiebreakRaises(g)
      \/ low = {loser} /\ h = FinalizeCycle(Cleared(g, loser), loser)
  BY Zenon DEF ResolveTiebreak, Cleared, Paid
<1> HIDE DEF low, again, h
<1> QED BY <1>1 DEF low, again, h

\* The phase a tiebreak returns to is the one the tied cycle was settled in,
\* and still fits the bank when the loser has paid.
LEMMA ClearedSound ==
  ASSUME NEW g, Typed(g), Sound(g), g.phase = "tiebreak", NEW loser \in Player
  PROVE  InCycle(Cleared(g, loser)) /\ Cleared(g, loser).bank_rule = g.bank_rule
<1> DEFINE tb == g.tiebreak
           charged == TakeFromBank(g, loser, tb.penalty, "charge")
           given == GiveToLoser(g, tb.original_winner_id, loser, tb.penalty)
           returned == [given EXCEPT !.phase = "decharge"]
           paid == Paid(g, loser)
           over == Cleared(g, loser)
<1>1. /\ g \in Game /\ g.partie_loser_id = NoPlayer
      /\ tb.return_phase \in {"charge", "decharge"}
      /\ tb.return_phase = "charge" <=> g.pool > 0
  BY DEF Typed, Sound, PoolFitsPhase, PlayPhase, InPlay
<1>2. tb.penalty \in Nat /\ tb.original_winner_id \in MaybePlayer
  BY <1>1 DEF Game, Tiebreak
<1>3. ASSUME tb.return_phase = "charge"
      PROVE  InCycle(paid) /\ paid.bank_rule = g.bank_rule
  <2>1. paid = charged
    BY <1>3 DEF Paid
  <2> HIDE DEF paid
  <2> QED BY <1>1, <1>2, <1>3, <2>1, TakeFromBankSound
<1>4. ASSUME tb.return_phase # "charge"
      PROVE  InCycle(paid) /\ paid.bank_rule = g.bank_rule
  <2>1. paid = returned
    BY <1>4 DEF Paid
  <2>2. Typed(given) /\ SameScores(g, given) /\ given.pool = g.pool
    <3> HIDE DEF tb
    <3> QED BY <1>1, <1>2, GiveToLoserType, GiveToLoserFields
  <2> HIDE DEF given, paid
  <2>3. /\ returned \in Game /\ returned.turn = given.turn /\ returned.phase = "decharge"
        /\ returned.pool = g.pool /\ SameScores(g, returned)
    BY <2>2 DEF Typed, Game, Phase, SameScores
  <2> HIDE DEF returned
  <2>4. Typed(returned)
    BY <2>2, <2>3 DEF Typed, RanksKnown
  <2>5. Sound(returned)
    BY <1>1, <1>4, <2>3 DEF Sound, SameScores, PoolFitsPhase, PlayPhase, ScoresFit
  <2> QED BY <2>1, <2>3, <2>4, <2>5 DEF InCycle, SameScores
<1>5. InCycle(paid) /\ paid.bank_rule = g.bank_rule
  BY <1>3, <1>4
<1>6. over = [paid EXCEPT !.tiebreak = NoTiebreak] /\ NoTiebreak \in Tiebreak
  BY DEF Cleared, NoTiebreak, Tiebreak, MaybePlayer, Phase
<1> HIDE DEF paid, over
<1>7. /\ over \in Game /\ SameScores(paid, over) /\ over.phase = paid.phase
      /\ over.pool = paid.pool /\ over.turn = paid.turn
  BY <1>5, <1>6 DEF InCycle, Typed, Game, SameScores
<1>8. InCycle(over) /\ over.bank_rule = g.bank_rule
  BY <1>5, <1>7, SameIsSound DEF Keeps, InCycle, Typed, RanksKnown, SameScores
<1> QED BY <1>8 DEF over

\* _resolve_tiebreak, in a tiebreak.
LEMMA ResolveTiebreakSound ==
  ASSUME NEW g, Typed(g), Sound(g), g.phase = "tiebreak"
  PROVE  Keeps(g, ResolveTiebreak(g))
<1> DEFINE tb == g.tiebreak
           low == LowestThrows(g)
           again == EnterTiebreak(g, low, tb.penalty, tb.return_phase, tb.original_winner_id)
<1>1. /\ g \in Game
      /\ tb.return_phase \in {"charge", "decharge"}
      /\ tb.return_phase = "charge" <=> g.pool > 0
  BY DEF Typed, Sound, PoolFitsPhase, PlayPhase, InPlay
<1>2. Keeps(g, g)
  BY DEF Keeps, RuleWaits
<1>3. Keeps(g, again)
  <2> HIDE DEF low
  <2> QED BY <1>1, EnterTiebreakFields
          DEF Keeps, Sound, SameScores, RuleWaits, PoolFitsPhase, PlayPhase, InPlay, ScoresFit
<1>4. ASSUME NEW loser \in low
      PROVE  Keeps(g, FinalizeCycle(Cleared(g, loser), loser))
  <2>1. loser \in Player
    BY <1>4 DEF LowestThrows, Threw
  <2>2. InCycle(Cleared(g, loser)) /\ Cleared(g, loser).bank_rule = g.bank_rule
    BY <2>1, ClearedSound
  <2> QED BY <2>2, FinalizeCycleSound DEF Keeps, RuleWaits
<1> HIDE DEF low, again
<1> QED BY <1>2, <1>3, <1>4, ResolveTiebreakCases, Zenon DEF low, again

\* The end of a turn, in charge or décharge.
LEMMA EndTurnSound ==
  ASSUME NEW g, InCycle(g)
  PROVE  Keeps(g, EndTurn(g))
<1> DEFINE k == Advance(g)
           index == (g.current_index + StepsToActive(g, 1)) % Len(g.players)
<1>1. k = g \/ k = [g EXCEPT !.current_index = index]
  BY DEF Advance
<1>2. k \in Game
  BY AdvanceType DEF InCycle, Typed
<1>3. SameScores(g, k) /\ k.phase = g.phase /\ k.pool = g.pool /\ k.turn = g.turn
  <2> HIDE DEF k, index
  <2> QED BY <1>1 DEF InCycle, Typed, Game, SameScores
<1>4. EndTurn(g) = IF AllDone(k) THEN ResolveRound(k) ELSE k
  BY DEF EndTurn
<1> HIDE DEF k
<1>5. Keeps(g, k)
  BY <1>3, SameIsSound
<1>6. InCycle(k) /\ k.bank_rule = g.bank_rule
  BY <1>2, <1>3, <1>5 DEF Keeps, InCycle, Typed, RanksKnown, SameScores
<1>7. AllDone(k) => Keeps(g, ResolveRound(k))
  BY <1>6, ResolveRoundSound DEF Keeps, RuleWaits
<1> QED BY <1>4, <1>5, <1>7

----------------------------------------------------------------------------
(* Throws, joins and the opening.                                          *)

\* h has the scores, the phase and the bank of g.
SameTable(g, h) ==
  /\ SameScores(g, h) /\ h.phase = g.phase /\ h.pool = g.pool
  /\ h.tiebreak.return_phase = g.tiebreak.return_phase

\* Such a step keeps bank, scores and rules in order.
LEMMA SameTableIsSound ==
  ASSUME NEW g, Sound(g), NEW h, SameTable(g, h)
  PROVE  Keeps(g, h)
  BY DEF Keeps, Sound, SameTable, SameScores, RuleWaits, PoolFitsPhase, PlayPhase, InPlay,
         ScoresFit

\* A throw and a validation write the turn and the cap.
LEMMA ThrowFields ==
  ASSUME NEW g \in Game, NEW p, NEW rank
  PROVE  SameTable(g, Throw(g, p, rank)) /\ SameTable(g, Validate(g, p))
<1> DEFINE left   == g.turn[p].rolls_left - 1
           at_max == \/ left = 0
                     \/ OneThrow(g)
                     \/ p # g.round_starter_id /\ Throws - left >= g.max_throws
           turn  == [rolls_left |-> left, rank |-> rank, done |-> at_max]
           turns == [g.turn EXCEPT ![p] = turn]
           cap == IF at_max /\ OneThrow(g) /\ p = g.round_starter_id THEN 1 ELSE g.max_throws
           valid == [g.turn EXCEPT ![p].done = TRUE]
           lock == IF p # g.round_starter_id THEN g.max_throws
                   ELSE IF OneThrow(g) THEN 1 ELSE RollsUsed(g, p)
<1>1. Throw(g, p, rank) = [g EXCEPT !.turn = turns, !.max_throws = cap]
  <2>1. Throw(g, p, rank) = [g EXCEPT !.turn[p] = turn, !.max_throws = cap]
    BY DEF Throw, Game
  <2> HIDE DEF turn, cap
  <2> QED BY <2>1 DEF Game
<1>2. Validate(g, p) = [g EXCEPT !.turn = valid, !.max_throws = lock]
  <2>1. Validate(g, p) = [g EXCEPT !.turn[p].done = TRUE, !.max_throws = lock]
    BY DEF Validate, Game
  <2> HIDE DEF lock
  <2> QED BY <2>1 DEF Game
<1> HIDE DEF turns, cap, valid, lock
<1> QED BY <1>1, <1>2 DEF SameTable, SameScores, Game

\* A tiebreak throw does not change what the tiebreak returns to.
LEMMA ThrowTiebreakFields ==
  ASSUME NEW g \in Game, NEW p, NEW rank
  PROVE  SameTable(g, ThrowTiebreak(g, p, rank))
<1> DEFINE tb == g.tiebreak
           at == Smallest({k \in DOMAIN tb.order : tb.order[k] = p})
           hand == FirstTied(tb.order, tb.tied, at + 1)
           throws == [tb.throws EXCEPT ![p] = rank]
           next == [tb EXCEPT !.throws = throws, !.next_pid = hand]
<1>1. tb \in Tiebreak
  BY DEF Game
<1>2. ThrowTiebreak(g, p, rank) = [g EXCEPT !.tiebreak = next]
  <2>1. ThrowTiebreak(g, p, rank)
          = [g EXCEPT !.tiebreak.throws[p] = rank, !.tiebreak.next_pid = hand]
    BY DEF ThrowTiebreak
  <2> HIDE DEF hand
  <2> QED BY <2>1 DEF Game
<1>3. next.return_phase = tb.return_phase
  <2> HIDE DEF tb, throws, hand
  <2> QED BY <1>1 DEF Tiebreak
<1> HIDE DEF next
<1> QED BY <1>2, <1>3 DEF SameTable, SameScores, Game

\* A newcomer and a queued rule leave the table as it is.
LEMMA JoinGameFields ==
  ASSUME NEW g \in Game, NEW p, NEW rule
  PROVE  SameTable(g, JoinGame(g, p)) /\ SameTable(g, QueueRule(g, rule))
  BY DEF JoinGame, QueueRule, SameTable, SameScores, Game

\* A new partie: a full bank, no points, no lost match.
LEMMA StartNewPartieSound ==
  ASSUME NEW g \in Game
  PROVE  /\ Keeps(g, StartNewPartie(g))
         /\ StartNewPartie(g).phase = "charge"
<1> DEFINE starter == IF g.partie_loser_id \in Seated(g) THEN g.partie_loser_id
                      ELSE IF g.players # <<>> THEN g.players[1] ELSE NoPlayer
           clean == [q \in Player |-> 0]
           chips == NoChips(g)
           turns == FreshTurns(g, Seated(g))
           index == IndexOrZero(g, starter)
           h == [g EXCEPT !.partie_loser_id = NoPlayer, !.pool = Chips,
                   !.round_points = clean, !.match_losses = clean,
                   !.out_of_match = {}, !.tiebreak = NoTiebreak, !.max_throws = Throws,
                   !.tokens = chips, !.turn = turns,
                   !.round_starter_id = starter, !.current_index = index, !.phase = "charge"]
<1>1. StartNewPartie(g) = h
  BY DEF StartNewPartie
<1>2. \A q \in Player : clean[q] = 0
  OBVIOUS
<1> HIDE DEF starter, clean, chips, turns, index
<1>3. /\ h.partie_loser_id = NoPlayer /\ h.pool = Chips /\ h.phase = "charge"
      /\ h.round_points = clean /\ h.match_losses = clean /\ h.bank_rule = g.bank_rule
  BY DEF Game
<1> HIDE DEF h
<1>4. ScoresFit(h)
  BY <1>2, <1>3, PlayerAssumption, BoundsAssumption DEF ScoresFit
<1>5. Keeps(g, h)
  BY <1>3, <1>4, BoundsAssumption DEF Keeps, Sound, RuleWaits, PoolFitsPhase, PlayPhase
<1> QED BY <1>1, <1>3, <1>5

\* The first cycle of a room starts with a full bank, whatever the rolls and
\* the seating.
LEMMA DoStartSound ==
  ASSUME NEW g \in Game, Sound(g), g.partie_loser_id = NoPlayer, NEW rolls, NEW seats
  PROVE  Keeps(g, DoStart([g EXCEPT !.initial_rolls = rolls, !.players = seats]))
<1> DEFINE k == [g EXCEPT !.initial_rolls = rolls, !.players = seats]
           chips == NoChips(k)
           turns == FreshTurns(k, Seated(k))
           asked == [p \in Player |-> Unasked]
           first == k.players[1]
           h == [k EXCEPT !.phase = "charge", !.pool = Chips, !.current_index = 0,
                   !.max_throws = Throws, !.out_of_match = {}, !.tokens = chips,
                   !.turn = turns, !.round_starter_id = first, !.initial_rolls = asked]
<1>1. DoStart(k) = h
  BY DEF DoStart
<1>2. SameScores(g, k) /\ DOMAIN k = DOMAIN g
  BY DEF SameScores, Game
<1> HIDE DEF chips, turns, asked, first, k
<1>3. SameScores(g, h) /\ h.pool = Chips /\ h.phase = "charge"
  BY <1>2 DEF SameScores, Game
<1> HIDE DEF h
<1>4. Keeps(g, h)
  BY <1>3, BoundsAssumption
     DEF Keeps, Sound, SameScores, RuleWaits, PoolFitsPhase, PlayPhase, ScoresFit
<1> QED BY <1>1, <1>4 DEF k

\* An initial roll settles the order and starts the game, or others are waited
\* for or throw again.
LEMMA RollInitialSound ==
  ASSUME NEW g \in Game, Sound(g), g.phase = "initial_roll", NEW p, NEW d,
         NEW h \in RollInitial(g, p, d)
  PROVE  Keeps(g, h)
<1> DEFINE shown == [g.initial_rolls EXCEPT ![p] = d]
           k == [g EXCEPT !.initial_rolls = shown]
           lowest == {q \in Seated(k) : \A r \in Seated(k) : k.initial_rolls[q] <= k.initial_rolls[r]}
           again == [q \in Player |-> IF q \in lowest THEN Unrolled ELSE k.initial_rolls[q]]
<1>1. [g EXCEPT !.initial_rolls[p] = d] = k
  BY DEF Game
<1>2. h = k \/ h \in FinalizeOrder(k)
  BY <1>1 DEF RollInitial
<1>3. \/ h = k \/ h = [k EXCEPT !.initial_rolls = again]
      \/ \E s \in SortedSeatings(k) : h = DoStart([k EXCEPT !.players = s])
  BY <1>2 DEF FinalizeOrder
<1>4. CASE h = k \/ h = [k EXCEPT !.initial_rolls = again]
  <2> HIDE DEF shown, again, lowest
  <2>1. SameTable(g, h)
    BY <1>4 DEF SameTable, SameScores, Game
  <2> QED BY <2>1, SameTableIsSound
<1>5. ASSUME NEW s, h = DoStart([k EXCEPT !.players = s])
      PROVE  Keeps(g, h)
  <2> HIDE DEF shown
  <2>1. [k EXCEPT !.players = s] = [g EXCEPT !.initial_rolls = shown, !.players = s]
    BY DEF Game
  <2>2. g.partie_loser_id = NoPlayer
    BY DEF Sound
  <2> HIDE DEF k
  <2> QED BY <1>5, <2>1, <2>2, DoStartSound
<1> QED BY <1>3, <1>4, <1>5
=============================================================================
