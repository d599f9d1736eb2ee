---------------------------- MODULE CycleProofs ----------------------------
(***************************************************************************)
(* What the engine does in a cycle and between two: first what it does to  *)
(* the chips, then what it does about whose turn it is.                    *)
(***************************************************************************)
EXTENDS RulesProofs

----------------------------------------------------------------------------
(***************************************************************************)
(* What the engine does to the chips, for any players, chips, combinations *)
(* and points: none is made or lost, and a match is between at least two   *)
(* players who can still win it.                                           *)
(*                                                                         *)
(* The invariant is Even.  That the chips of the seated players and of the *)
(* bank add up is not inductive by itself: nobody is seated twice or both  *)
(* seated and waiting, who is not seated has neither chips nor lost        *)
(* matches, who sits out has no chips, and the players of a tiebreak are   *)
(* active ones that the winner of the cycle is not among.                  *)
(***************************************************************************)

\* A list that names nobody twice.
Once(s) == \A i, j \in DOMAIN s : s[i] = s[j] => i = j

\* Who is neither seated nor waiting twice; strangers have no scores.
Apart(g) ==
  /\ Once(g.players) /\ Once(g.waiting_players)
  /\ Members(g.waiting_players) \cap Seated(g) = {}
  /\ \A p \in Player : p \notin Seated(g) => g.tokens[p] = 0 /\ g.match_losses[p] = 0

\* Chips are dealt when the first match starts, between two players or more.
Opening(g) ==
  /\ g.phase \in {"waiting", "initial_roll"} =>
       g.pool = Chips /\ \A p \in Player : g.tokens[p] = 0 /\ g.match_losses[p] = 0
  /\ g.phase # "waiting" => Len(g.players) >= 2

\* Nobody holds every chip of a match under way, and who sits out holds none.
SitOutEmpty(g) == \A p \in g.out_of_match : g.tokens[p] = 0
Shared(g) ==
  g.phase \in InPlay => SitOutEmpty(g) /\ \A p \in Seated(g) : g.tokens[p] < Chips

\* A tiebreak is between active players, for a chip at least; the winner of the
\* cycle is no loser.
TiedPlay(g) ==
  g.phase = "tiebreak" =>
    /\ g.tiebreak.penalty > 0
    /\ g.tiebreak.tied \subseteq Active(g)
    /\ g.tiebreak.original_winner_id \notin g.tiebreak.tied
    /\ g.tiebreak.next_pid \in g.tiebreak.tied \cup {NoPlayer}
    /\ \A p \in Player : p \notin g.tiebreak.tied => g.tiebreak.throws[p] = 0

Even(g) ==
  /\ Apart(g) /\ Opening(g) /\ Shared(g) /\ TiedPlay(g)
  /\ ConservesChips(g) /\ DuelGoesOn(g)

\* The chips of a game at the end of a cycle, when the loser has taken its
\* chips and the cycle is not closed yet.
Duel(g) == \E p, q \in Active(g) : p # q
Conserved(g) == g.pool + Total(g.tokens, Seated(g)) = Chips
Settled(g) ==
  /\ InCycle(g) /\ Apart(g) /\ Len(g.players) >= 2
  /\ Conserved(g) /\ SitOutEmpty(g) /\ Duel(g)

Nobody == [p \in Player |-> 0]

\* Match!Score between two games: h is g with its cycle closed.
Scores(g, h) ==
  \/ /\ \A p \in Player : g.tokens[p] < Chips
     /\ h.pool = g.pool /\ h.tokens = g.tokens
     /\ h.match_losses = g.match_losses /\ h.round_points = g.round_points
  \/ \E p \in Player :
       /\ g.tokens[p] = Chips
       /\ IF g.match_losses[p] = 0
          THEN /\ h.match_losses = [g.match_losses EXCEPT ![p] = 1]
               /\ h.round_points = g.round_points
               /\ h.pool = Chips /\ h.tokens = Nobody
          ELSE /\ h.match_losses = Nobody
               /\ h.round_points = [g.round_points EXCEPT ![p] = @ + 1]
               /\ IF g.round_points[p] + 1 < PointsToLose
                  THEN h.pool = Chips /\ h.tokens = Nobody
                  ELSE h.pool = g.pool /\ h.tokens = g.tokens

----------------------------------------------------------------------------
(* Lists of players.                                                       *)

\* Two lists without a common name, one after the other.
LEMMA OnceAppended ==
  ASSUME NEW s \in Seq(Player), NEW t \in Seq(Player), Once(s), Once(t),
         Members(t) \cap Members(s) = {}
  PROVE  Once(s \o t) /\ Members(s \o t) = Members(s) \cup Members(t)
<1> DEFINE u == s \o t
           m == Len(s)
           n == Len(t)
<1>1. /\ m \in Nat /\ n \in Nat /\ DOMAIN s = 1..m /\ DOMAIN t = 1..n
      /\ u \in Seq(Player) /\ DOMAIN u = 1..(m + n)
  OBVIOUS
<1>2. \A i \in 1..(m + n) : u[i] = IF i <= m THEN s[i] ELSE t[i - m]
  OBVIOUS
<1> HIDE DEF u, m, n
<1>3. \A i \in 1..(m + n) : (i <= m => i \in 1..m) /\ (~(i <= m) => i - m \in 1..n)
  BY <1>1
<1>4. \A i \in 1..n : i + m \in 1..(m + n) /\ ~(i + m <= m) /\ (i + m) - m = i
  BY <1>1
<1>5. Members(u) = Members(s) \cup Members(t)
  <2>1. \A i \in 1..m : i \in 1..(m + n) /\ u[i] = s[i]
    BY <1>1, <1>2
  <2>2. \A i \in 1..n : u[i + m] = t[i]
    BY <1>2, <1>4
  <2>3. Members(s) \cup Members(t) \subseteq Members(u)
    BY <1>1, <1>4, <2>1, <2>2, SMTT(30) DEF Members
  <2>4. Members(u) \subseteq Members(s) \cup Members(t)
    BY <1>1, <1>2, <1>3 DEF Members
  <2> QED BY <2>3, <2>4
<1>6. ASSUME NEW i \in 1..(m + n), NEW j \in 1..(m + n), u[i] = u[j]
      PROVE  i = j
  <2>1. CASE i <= m /\ j <= m
    BY <1>1, <1>2, <1>3, <1>6, <2>1 DEF Once
  <2>2. CASE ~(i <= m) /\ ~(j <= m)
    <3>1. t[i - m] = t[j - m] /\ i - m \in 1..n /\ j - m \in 1..n
      BY <1>2, <1>3, <1>6, <2>2
    <3>2. i - m = j - m
      BY <1>1, <3>1 DEF Once
    <3> QED BY <1>1, <3>2
  <2>3. CASE i <= m /\ ~(j <= m)
    BY <1>1, <1>2, <1>3, <1>6, <2>3 DEF Members
  <2>4. CASE ~(i <= m) /\ j <= m
    BY <1>1, <1>2, <1>3, <1>6, <2>4 DEF Members
  <2> QED BY <2>1, <2>2, <2>3, <2>4
<1>7. Once(u)
  BY <1>1, <1>6 DEF Once
<1> QED BY <1>5, <1>7 DEF u

\* A newcomer at the end of a list it is not on.
LEMMA OnceAppend ==
  ASSUME NEW s \in Seq(Player), Once(s), NEW p \in Player, p \notin Members(s)
  PROVE  Once(Append(s, p)) /\ Members(Append(s, p)) = Members(s) \cup {p}
<1> DEFINE t == <<p>>
<1>1. t \in Seq(Player) /\ Once(t) /\ Members(t) = {p}
  BY DEF Once, Members
<1>2. Append(s, p) = s \o t
  OBVIOUS
<1> HIDE DEF t
<1> QED BY <1>1, <1>2, OnceAppended

\* A list of two or more names two players.
LEMMA TwoSeated ==
  ASSUME NEW g \in Game, Once(g.players), Len(g.players) >= 2
  PROVE  /\ g.players[1] \in Seated(g) /\ g.players[2] \in Seated(g)
         /\ g.players[1] # g.players[2]
<1>1. g.players \in Seq(Player) /\ 1 \in DOMAIN g.players /\ 2 \in DOMAIN g.players
  BY DEF Game
<1> QED BY <1>1 DEF Once, Seated, Members

----------------------------------------------------------------------------
(* What the engine's functions write.                                      *)

\* _admit_waiting: the waiting players sit down behind the others.
LEMMA AdmitWaitingWrites ==
  ASSUME NEW g \in Game
  PROVE  LET h == AdmitWaiting(g)
             new == Members(g.waiting_players)
         IN  /\ h.players = g.players \o g.waiting_players /\ h.waiting_players = <<>>
             /\ h.match_losses = [p \in Player |-> IF p \in new THEN 0 ELSE g.match_losses[p]]
             /\ h.turn = FreshTurns(g, new)
             /\ h.tokens = g.tokens /\ h.pool = g.pool /\ h.round_points = g.round_points
             /\ h.out_of_match = g.out_of_match /\ h.tiebreak = g.tiebreak
             /\ h.max_throws = g.max_throws /\ h.current_index = g.current_index
             /\ h.round_starter_id = g.round_starter_id
<1> DEFINE new == Members(g.waiting_players)
           seats == g.players \o g.waiting_players
           losses == [p \in Player |-> IF p \in new THEN 0 ELSE g.match_losses[p]]
           turns == FreshTurns(g, new)
           h == [g EXCEPT !.players = seats, !.waiting_players = <<>>,
                          !.match_losses = losses, !.turn = turns]
<1>1. AdmitWaiting(g) = h
  BY DEF AdmitWaiting, Game
<1> HIDE DEF seats, losses, turns
<1>2. /\ h.players = seats /\ h.waiting_players = <<>> /\ h.match_losses = losses
      /\ h.turn = turns /\ h.tokens = g.tokens /\ h.pool = g.pool
      /\ h.round_points = g.round_points
      /\ h.out_of_match = g.out_of_match /\ h.tiebreak = g.tiebreak
      /\ h.max_throws = g.max_throws /\ h.current_index = g.current_index
      /\ h.round_starter_id = g.round_starter_id
  BY DEF Game
<1> HIDE DEF h
<1> QED BY <1>1, <1>2 DEF seats, losses, turns

\* _start_new_set: every chip back in the bank, every turn new.
LEMMA StartNewSetWrites ==
  ASSUME NEW g \in Game, NEW p
  PROVE  LET h == StartNewSet(g, p)
         IN  /\ h.players = g.players /\ h.waiting_players = g.waiting_players
             /\ h.tokens = NoChips(g) /\ h.pool = Chips /\ h.phase = "charge"
             /\ h.match_losses = g.match_losses /\ h.round_points = g.round_points
             /\ h.out_of_match = {} /\ h.tiebreak = g.tiebreak /\ h.max_throws = Throws
             /\ h.turn = FreshTurns(g, Seated(g)) /\ h.round_starter_id = p
             /\ h.current_index = IndexOrZero(g, p)
<1> DEFINE turns == FreshTurns(g, Seated(g))
           chips == NoChips(g)
           index == IndexOrZero(g, p)
           h == [g EXCEPT !.out_of_match = {}, !.tokens = chips, !.turn = turns,
                          !.pool = Chips, !.phase = "charge", !.max_throws = Throws,
                          !.current_index = index, !.round_starter_id = p]
<1>1. StartNewSet(g, p) = h
  BY DEF StartNewSet
<1> HIDE DEF turns, chips, index
<1>2. /\ h.players = g.players /\ h.waiting_players = g.waiting_players
      /\ h.tokens = chips /\ h.pool = Chips /\ h.phase = "charge"
      /\ h.match_losses = g.match_losses /\ h.round_points = g.round_points
      /\ h.out_of_match = {} /\ h.tiebreak = g.tiebreak /\ h.max_throws = Throws
      /\ h.turn = turns /\ h.round_starter_id = p /\ h.current_index = index
  BY DEF Game
<1> HIDE DEF h
<1> QED BY <1>1, <1>2 DEF turns, chips, index

\* _start_new_partie: so are the points and the lost matches.
LEMMA StartNewPartieWrites ==
  ASSUME NEW g \in Game
  PROVE  LET h == StartNewPartie(g)
             starter == IF g.partie_loser_id \in Seated(g) THEN g.partie_loser_id
                        ELSE IF g.players # <<>> THEN g.players[1] ELSE NoPlayer
         IN  /\ h.players = g.players /\ h.waiting_players = g.waiting_players
             /\ h.tokens = NoChips(g) /\ h.pool = Chips /\ h.phase = "charge"
             /\ h.match_losses = Nobody /\ h.round_points = Nobody
             /\ h.out_of_match = {} /\ h.tiebreak = NoTiebreak /\ h.max_throws = Throws
             /\ h.turn = FreshTurns(g, Seated(g)) /\ h.round_starter_id = starter
             /\ h.current_index = IndexOrZero(g, starter)
<1> DEFINE starter == IF g.partie_loser_id \in Seated(g) THEN g.partie_loser_id
                      ELSE IF g.players # <<>> THEN g.players[1] ELSE NoPlayer
           clean == [q \in Player |-> 0]
           chips == NoChips(g)
           turns == FreshTurns(g, Seated(g))
           index == IndexOrZero(g, starter)
           h == [g EXCEPT !.partie_loser_id = NoPlayer, !.pool = Chips,
                   !.round_points = clean, !.match_losses = clean,
                   !.out_of_match = {}, !.tiebreak = NoTiebreak, !.max_throws = Throws,
                   !.tokens = chips, !.turn = turns,
                   !.round_starter_id = starter, !.current_index = index, !.phase = "charge"]
<1>1. StartNewPartie(g) = h
  BY DEF StartNewPartie
<1> HIDE DEF starter, clean, chips, turns, index
<1>2. /\ h.players = g.players /\ h.waiting_players = g.waiting_players
      /\ h.tokens = chips /\ h.pool = Chips /\ h.phase = "charge"
      /\ h.match_losses = clean /\ h.round_points = clean
      /\ h.out_of_match = {} /\ h.tiebreak = NoTiebreak /\ h.max_throws = Throws
      /\ h.turn = turns /\ h.round_starter_id = starter /\ h.current_index = index
  BY DEF Game
<1> HIDE DEF h
<1> QED BY <1>1, <1>2 DEF starter, clean, chips, turns, index, Nobody

\* _do_start, after the seating has been settled.
LEMMA DoStartWrites ==
  ASSUME NEW g \in Game
  PROVE  LET h == DoStart(g)
         IN  /\ h.players = g.players /\ h.waiting_players = g.waiting_players
             /\ h.tokens = NoChips(g) /\ h.pool = Chips /\ h.phase = "charge"
             /\ h.match_losses = g.match_losses /\ h.round_points = g.round_points
             /\ h.out_of_match = {} /\ h.tiebreak = g.tiebreak /\ h.max_throws = Throws
             /\ h.turn = FreshTurns(g, Seated(g)) /\ h.round_starter_id = g.players[1]
             /\ h.current_index = 0
<1> DEFINE chips == NoChips(g)
           turns == FreshTurns(g, Seated(g))
           asked == [p \in Player |-> Unasked]
           first == g.players[1]
           h == [g EXCEPT !.phase = "charge", !.pool = Chips, !.current_index = 0,
                   !.max_throws = Throws, !.out_of_match = {}, !.tokens = chips,
                   !.turn = turns, !.round_starter_id = first, !.initial_rolls = asked]
<1>1. DoStart(g) = h
  BY DEF DoStart
<1> HIDE DEF chips, turns, asked, first
<1>2. /\ h.players = g.players /\ h.waiting_players = g.waiting_players
      /\ h.tokens = chips /\ h.pool = Chips /\ h.phase = "charge"
      /\ h.match_losses = g.match_losses /\ h.round_points = g.round_points
      /\ h.out_of_match = {} /\ h.tiebreak = g.tiebreak /\ h.max_throws = Throws
      /\ h.turn = turns /\ h.round_starter_id = first /\ h.current_index = 0
  BY DEF Game
<1> HIDE DEF h
<1> QED BY <1>1, <1>2 DEF chips, turns, first

\* The next cycle: in a décharge, players without chips sit out from now on.
LEMMA NextCycleWrites ==
  ASSUME NEW g \in Game, NEW p
  PROVE  LET h == NextCycle(SitOut(g), p)
             out == IF g.phase = "decharge"
                    THEN g.out_of_match \cup {q \in Seated(g) : g.tokens[q] = 0}
                    ELSE g.out_of_match
         IN  /\ h.players = g.players /\ h.waiting_players = g.waiting_players
             /\ h.tokens = g.tokens /\ h.pool = g.pool /\ h.phase = g.phase
             /\ h.match_losses = g.match_losses /\ h.round_points = g.round_points
             /\ h.out_of_match = out /\ h.tiebreak = g.tiebreak /\ h.max_throws = Throws
             /\ h.turn = [q \in Player |-> IF q \notin Seated(g) THEN g.turn[q]
                                           ELSE IF q \in out THEN NoTurn ELSE NewTurn]
             /\ h.round_starter_id = IF p = NoPlayer THEN g.round_starter_id ELSE p
             /\ h.current_index = IF p = NoPlayer THEN g.current_index ELSE IndexOrZero(g, p)
<1> DEFINE out == IF g.phase = "decharge"
                  THEN g.out_of_match \cup {q \in Seated(g) : g.tokens[q] = 0}
                  ELSE g.out_of_match
           k == SitOut(g)
           index == IndexOrZero(k, p)
           opened == OpenedBy(k, p)
           turns == [q \in Player |-> IF q \notin Seated(k) THEN opened.turn[q]
                                      ELSE IF q \in k.out_of_match THEN NoTurn ELSE NewTurn]
           h == [opened EXCEPT !.max_throws = Throws, !.turn = turns]
<1>1. k = [g EXCEPT !.out_of_match = out]
  BY DEF SitOut, Game
<1>2. /\ k.players = g.players /\ k.waiting_players = g.waiting_players
      /\ k.tokens = g.tokens /\ k.pool = g.pool /\ k.phase = g.phase
      /\ k.match_losses = g.match_losses /\ k.round_points = g.round_points
      /\ k.out_of_match = out /\ k.tiebreak = g.tiebreak /\ k.turn = g.turn
      /\ k.round_starter_id = g.round_starter_id /\ k.current_index = g.current_index
      /\ DOMAIN k = DOMAIN g
  <2> HIDE DEF k, out
  <2> QED BY <1>1 DEF Game
<1>3. opened = IF p = NoPlayer THEN k
               ELSE [k EXCEPT !.round_starter_id = p, !.current_index = index]
  BY DEF OpenedBy
<1>4. /\ opened.players = g.players /\ opened.waiting_players = g.waiting_players
      /\ opened.tokens = g.tokens /\ opened.pool = g.pool /\ opened.phase = g.phase
      /\ opened.match_losses = g.match_losses /\ opened.round_points = g.round_points
      /\ opened.out_of_match = out /\ opened.tiebreak = g.tiebreak /\ opened.turn = g.turn
      /\ opened.round_starter_id = IF p = NoPlayer THEN g.round_starter_id ELSE p
      /\ opened.current_index = IF p = NoPlayer THEN g.current_index ELSE index
      /\ DOMAIN opened = DOMAIN g
  <2> HIDE DEF k, out, opened, index
  <2> QED BY <1>2, <1>3 DEF Game
<1>5. Seated(k) = Seated(g) /\ index = IndexOrZero(g, p)
  <2> HIDE DEF k
  <2> QED BY <1>2 DEF Seated, IndexOrZero, IndexOf
<1>6. turns = [q \in Player |-> IF q \notin Seated(g) THEN g.turn[q]
                                ELSE IF q \in out THEN NoTurn ELSE NewTurn]
  <2> HIDE DEF k, out, opened
  <2> QED BY <1>2, <1>4, <1>5
<1>7. NextCycle(k, p) = h
  BY DEF NextCycle
<1> HIDE DEF k, opened, turns, out, index
<1>8. /\ h.players = g.players /\ h.waiting_players = g.waiting_players
      /\ h.tokens = g.tokens /\ h.pool = g.pool /\ h.phase = g.phase
      /\ h.match_losses = g.match_losses /\ h.round_points = g.round_points
      /\ h.out_of_match = out /\ h.tiebreak = g.tiebreak /\ h.max_throws = Throws
      /\ h.turn = turns
      /\ h.round_starter_id = IF p = NoPlayer THEN g.round_starter_id ELSE p
      /\ h.current_index = IF p = NoPlayer THEN g.current_index ELSE index
  BY <1>4 DEF Game
<1> HIDE DEF h
<1> QED BY <1>5, <1>6, <1>7, <1>8 DEF k, out

----------------------------------------------------------------------------
(* The end of a match.                                                     *)

\* Everybody is back at zero, the seated players and the strangers.
LEMMA NoChipsIsNobody ==
  ASSUME NEW g \in Game, \A p \in Player : p \notin Seated(g) => g.tokens[p] = 0
  PROVE  NoChips(g) = Nobody
  BY DEF NoChips, Nobody

\* Who may play on when the newcomers have sat down.
LEMMA AdmitWaitingApart ==
  ASSUME NEW g \in Game, Apart(g)
  PROVE  LET h == AdmitWaiting(g)
         IN  /\ Once(h.players) /\ Once(h.waiting_players)
             /\ Seated(h) = Seated(g) \cup Members(g.waiting_players)
             /\ Members(h.waiting_players) = {}
<1>1. g.players \in Seq(Player) /\ g.waiting_players \in Seq(Player)
  BY DEF Game
<1>2. /\ Once(g.players \o g.waiting_players)
      /\ Members(g.players \o g.waiting_players) = Members(g.players) \cup Members(g.waiting_players)
  BY <1>1, OnceAppended DEF Apart, Seated
<1>3. Once(<<>>) /\ Members(<<>>) = {}
  BY DEF Once, Members
<1> QED BY <1>2, <1>3, AdmitWaitingWrites DEF Seated

\* What the end of a match that p lost writes.
FirstLoss(g, p) == g.match_losses[p] + 1 < 2
PartieLost(g, p) == ~FirstLoss(g, p) /\ g.round_points[p] + 1 >= PointsToLose
MatchEnded(g, p, h) ==
  /\ h.players = g.players \o g.waiting_players /\ h.waiting_players = <<>>
  /\ h.tiebreak = g.tiebreak
  /\ h.match_losses = IF FirstLoss(g, p)
                      THEN [g.match_losses EXCEPT ![p] = g.match_losses[p] + 1] ELSE Nobody
  /\ h.round_points = IF FirstLoss(g, p) THEN g.round_points
                      ELSE [g.round_points EXCEPT ![p] = @ + 1]
  /\ PartieLost(g, p) => /\ h.phase = "finished" /\ h.pool = g.pool /\ h.tokens = g.tokens
                         /\ h.partie_loser_id = p
  /\ ~PartieLost(g, p) => /\ h.phase = "charge" /\ h.pool = Chips /\ h.tokens = Nobody
                          /\ h.out_of_match = {} /\ h.max_throws = Throws
                          /\ h.round_starter_id = p /\ h.current_index = IndexOrZero(h, p)
                          /\ \A q \in Player : q \in Seated(h) => h.turn[q] = NewTurn

\* The "if manche" branch of _finalize_cycle.
LEMMA EndMatchWrites ==
  ASSUME NEW g, Typed(g), Apart(g), NEW p \in Player, p \in Seated(g)
  PROVE  MatchEnded(g, p, EndMatch(g, p))
<1> DEFINE count  == g.match_losses[p] + 1
           losses == [g.match_losses EXCEPT ![p] = count]
           kept   == [g EXCEPT !.match_losses[p] = count]
           h      == AdmitWaiting(kept)
           scored == LosePoint(h, p)
           over   == [scored EXCEPT !.partie_loser_id = p, !.phase = "finished"]
           next   == ApplyPendingRules(scored)
           end    == EndMatch(g, p)
           first  == count < 2
           lost   == ~first /\ g.round_points[p] + 1 >= PointsToLose
           points == [g.round_points EXCEPT ![p] = @ + 1]
<1>1. /\ g \in Game /\ g.match_losses \in [Player -> Nat] /\ count \in Nat
      /\ g.round_points \in [Player -> Nat]
  BY DEF Typed, Game
<1>2. losses \in [Player -> Nat]
  <2> HIDE DEF count
  <2> QED BY <1>1
<1>3. kept = [g EXCEPT !.match_losses = losses]
  BY <1>1 DEF Game
<1>4. /\ kept \in Game /\ kept.match_losses = losses /\ kept.players = g.players
      /\ kept.waiting_players = g.waiting_players /\ kept.tiebreak = g.tiebreak
      /\ kept.round_points = g.round_points /\ kept.pool = g.pool /\ kept.tokens = g.tokens
      /\ kept.turn = g.turn
  <2> HIDE DEF losses, kept
  <2> QED BY <1>1, <1>2, <1>3 DEF Game
<1>5. Typed(kept)
  BY <1>4 DEF Typed, RanksKnown
<1> HIDE DEF kept
<1>6. /\ h.players = g.players \o g.waiting_players /\ h.waiting_players = <<>>
      /\ h.match_losses = [q \in Player |-> IF q \in Members(g.waiting_players) THEN 0 ELSE losses[q]]
      /\ h.tokens = g.tokens /\ h.pool = g.pool /\ h.round_points = g.round_points
      /\ h.tiebreak = g.tiebreak
  <2> HIDE DEF losses
  <2> QED BY <1>4, AdmitWaitingWrites
<1>7. h \in Game
  BY <1>5, AdmitWaitingType DEF Typed
<1>8. h.match_losses = losses
  <2>1. \A q \in Player : q \in Members(g.waiting_players) => losses[q] = 0
    BY <1>1 DEF Apart
  <2> HIDE DEF losses, h
  <2> QED BY <1>2, <1>6, <2>1
<1>9. Seated(h) = Seated(g) \cup Members(g.waiting_players)
  <2>1. g.players \in Seq(Player) /\ g.waiting_players \in Seq(Player)
    BY <1>1 DEF Game
  <2> QED BY <1>6, <2>1, OnceAppended DEF Apart, Seated
<1>10. NoChips(h) = Nobody
  <2>1. \A q \in Player : q \notin Seated(h) => h.tokens[q] = 0
    BY <1>6, <1>9 DEF Apart
  <2> HIDE DEF h
  <2> QED BY <1>7, <2>1, NoChipsIsNobody
<1>11. /\ scored = [h EXCEPT !.round_points = points, !.match_losses = Nobody]
       /\ points \in [Player -> Nat] /\ Nobody \in [Player -> Nat]
  <2>1. scored = [h EXCEPT !.round_points[p] = @ + 1, !.match_losses = [q \in Player |-> 0]]
    BY DEF LosePoint
  <2> HIDE DEF h, scored
  <2> QED BY <1>1, <1>6, <1>7, <2>1 DEF Nobody, Game
<1>12. /\ scored \in Game /\ scored.players = h.players /\ scored.waiting_players = <<>>
       /\ scored.match_losses = Nobody /\ scored.round_points = points
       /\ scored.tokens = g.tokens /\ scored.pool = g.pool /\ scored.tiebreak = g.tiebreak
  <2> HIDE DEF h, scored, points
  <2> QED BY <1>6, <1>7, <1>11 DEF Game
<1>13. /\ next \in Game /\ next.players = h.players /\ next.waiting_players = <<>>
       /\ next.match_losses = Nobody /\ next.round_points = points
       /\ next.tokens = g.tokens /\ next.tiebreak = g.tiebreak
  <2> HIDE DEF h, scored, points
  <2> QED BY <1>12 DEF ApplyPendingRules, Game
<1>14. /\ over.players = h.players /\ over.waiting_players = <<>>
       /\ over.match_losses = Nobody /\ over.round_points = points
       /\ over.tokens = g.tokens /\ over.pool = g.pool /\ over.tiebreak = g.tiebreak
       /\ over.phase = "finished" /\ over.partie_loser_id = p
  <2> HIDE DEF h, scored, points
  <2> QED BY <1>12 DEF Game
<1>15. NoChips(next) = Nobody
  <2>1. Seated(next) = Seated(h)
    <3> HIDE DEF h, next
    <3> QED BY <1>13 DEF Seated
  <2> HIDE DEF h, next
  <2> QED BY <1>6, <1>10, <1>13, <2>1 DEF NoChips
<1>16. scored.round_points[p] = g.round_points[p] + 1
  <2> HIDE DEF scored
  <2> QED BY <1>1, <1>12
<1>17. end = IF first THEN StartNewSet(h, p) ELSE IF lost THEN over ELSE StartNewSet(next, p)
  BY <1>16 DEF EndMatch, kept
<1> HIDE DEF h, next, over, scored, points, losses, first, end, count
<1>18. CASE first
  <2>1. end = StartNewSet(h, p) /\ ~lost
    BY <1>17, <1>18
  <2> DEFINE n == StartNewSet(h, p)
  <2>2. /\ n.players = h.players /\ n.waiting_players = h.waiting_players
        /\ n.tokens = NoChips(h) /\ n.pool = Chips /\ n.phase = "charge"
        /\ n.match_losses = h.match_losses /\ n.round_points = h.round_points
        /\ n.out_of_match = {} /\ n.tiebreak = h.tiebreak /\ n.max_throws = Throws
        /\ n.turn = FreshTurns(h, Seated(h)) /\ n.round_starter_id = p
        /\ n.current_index = IndexOrZero(h, p)
    BY <1>7, StartNewSetWrites
  <2> HIDE DEF n
  <2>3. Seated(n) = Seated(h) /\ IndexOrZero(n, p) = IndexOrZero(h, p)
    BY <2>2 DEF Seated, IndexOrZero, IndexOf
  <2>4. \A q \in Player : q \in Seated(n) => n.turn[q] = NewTurn
    BY <2>2, <2>3 DEF FreshTurns
  <2> QED BY <1>6, <1>8, <1>10, <1>18, <2>1, <2>2, <2>3, <2>4
          DEF n, end, losses, first, count, MatchEnded, FirstLoss, PartieLost
<1>19. CASE ~first /\ lost
  <2>1. end = over
    BY <1>17, <1>19
  <2> QED BY <1>6, <1>14, <1>19, <2>1
          DEF end, first, count, points, MatchEnded, FirstLoss, PartieLost
<1>20. CASE ~first /\ ~lost
  <2>1. end = StartNewSet(next, p)
    BY <1>17, <1>20
  <2> DEFINE n == StartNewSet(next, p)
  <2>2. /\ n.players = next.players /\ n.waiting_players = next.waiting_players
        /\ n.tokens = NoChips(next) /\ n.pool = Chips /\ n.phase = "charge"
        /\ n.match_losses = next.match_losses /\ n.round_points = next.round_points
        /\ n.out_of_match = {} /\ n.tiebreak = next.tiebreak /\ n.max_throws = Throws
        /\ n.turn = FreshTurns(next, Seated(next)) /\ n.round_starter_id = p
        /\ n.current_index = IndexOrZero(next, p)
    BY <1>13, StartNewSetWrites
  <2> HIDE DEF n
  <2>3. Seated(n) = Seated(next) /\ IndexOrZero(n, p) = IndexOrZero(next, p)
    BY <2>2 DEF Seated, IndexOrZero, IndexOf
  <2>4. \A q \in Player : q \in Seated(n) => n.turn[q] = NewTurn
    BY <2>2, <2>3 DEF FreshTurns
  <2> QED BY <1>6, <1>13, <1>15, <1>20, <2>1, <2>2, <2>3, <2>4
          DEF n, end, first, count, points, MatchEnded, FirstLoss, PartieLost
<1> QED BY <1>18, <1>19, <1>20

\* A match that begins with every chip in the bank is even.
LEMMA FreshMatchEven ==
  ASSUME NEW g \in Game, Once(g.players), Once(g.waiting_players),
         Members(g.waiting_players) \cap Seated(g) = {},
         \A p \in Player : p \notin Seated(g) => g.match_losses[p] = 0,
         Len(g.players) >= 2, g.phase = "charge", g.pool = Chips, g.tokens = Nobody,
         g.out_of_match = {}
  PROVE  Even(g)
<1>1. \A p \in Player : g.tokens[p] = 0
  BY DEF Nobody
<1>2. Seated(g) \subseteq Player
  BY DEF Game, Seated, Members
<1>3. Apart(g) /\ Opening(g) /\ TiedPlay(g)
  BY <1>1 DEF Apart, Opening, TiedPlay
<1>4. Shared(g)
  BY <1>1, <1>2, BoundsAssumption DEF Shared, SitOutEmpty
<1>5. Total(g.tokens, Seated(g)) = 0
  BY <1>1, <1>2, SeatedIsFinite, TotalOfZeros
<1>6. ConservesChips(g)
  BY <1>5, BoundsAssumption DEF ConservesChips
<1>7. DuelGoesOn(g)
  BY TwoSeated DEF DuelGoesOn, Active, PlayPhase
<1> QED BY <1>3, <1>4, <1>6, <1>7 DEF Even

\* Who has every chip loses the match, and no chip is lost with it.
LEMMA EndMatchEven ==
  ASSUME NEW g, Settled(g), NEW p \in Player, p \in Seated(g), g.tokens[p] >= Chips
  PROVE  Scores(g, EndMatch(g, p)) /\ Even(EndMatch(g, p))
<1> DEFINE h == EndMatch(g, p)
           first == g.match_losses[p] + 1 < 2
           lost == ~first /\ g.round_points[p] + 1 >= PointsToLose
<1>1. /\ g \in Game /\ Typed(g) /\ Apart(g) /\ Conserved(g) /\ Len(g.players) >= 2
      /\ g.match_losses \in [Player -> Nat] /\ g.round_points \in [Player -> Nat]
      /\ g.tokens \in [Player -> Nat] /\ g.pool \in Nat
      /\ g.players \in Seq(Player) /\ g.waiting_players \in Seq(Player)
      /\ \A q \in Player : g.match_losses[q] <= 1
  BY DEF Settled, InCycle, Typed, Game, Sound, ScoresFit
<1>2. g.tokens[p] = Chips
  <2>1. Seated(g) \subseteq Player
    BY <1>1 DEF Seated, Members
  <2>2. g.tokens[p] <= Total(g.tokens, Seated(g)) /\ Total(g.tokens, Seated(g)) \in Nat
    BY <1>1, <2>1, SeatedIsFinite, TotalBoundsTwo, TotalIsNat
  <2> QED BY <1>1, <2>2, BoundsAssumption, SMTT(30) DEF Conserved
<1>3. Typed(h)
  BY <1>1, EndMatchType
<1>4. /\ h.players = g.players \o g.waiting_players /\ h.waiting_players = <<>>
      /\ h.match_losses = IF first
           THEN [g.match_losses EXCEPT ![p] = g.match_losses[p] + 1] ELSE Nobody
      /\ h.round_points = IF first THEN g.round_points
                          ELSE [g.round_points EXCEPT ![p] = @ + 1]
      /\ lost => /\ h.phase = "finished" /\ h.pool = g.pool /\ h.tokens = g.tokens
      /\ ~lost => /\ h.phase = "charge" /\ h.pool = Chips /\ h.tokens = Nobody
                  /\ h.out_of_match = {}
  <2>1. MatchEnded(g, p, h)
    BY <1>1, EndMatchWrites
  <2> HIDE DEF h
  <2> QED BY <2>1 DEF MatchEnded, FirstLoss, PartieLost
<1> HIDE DEF h
<1> DEFINE m == g.match_losses[p]
           r == g.round_points[p]
<1>10. m \in Nat /\ m <= 1 /\ r \in Nat /\ PointsToLose \in Nat
  BY <1>1, BoundsAssumption
<1>11. (m + 1 < 2 <=> m = 0) /\ (~(r + 1 >= PointsToLose) <=> r + 1 < PointsToLose)
  <2> HIDE DEF m, r
  <2> QED BY <1>10
<1>5. Scores(g, h)
  <2>1. (first <=> g.match_losses[p] = 0) /\ (g.match_losses[p] = 0 => g.match_losses[p] + 1 = 1)
    BY <1>11
  <2>2. first => h.match_losses = [g.match_losses EXCEPT ![p] = 1]
    BY <1>4, <2>1, Zenon
  <2>3. ~lost <=> first \/ g.round_points[p] + 1 < PointsToLose
    BY <1>11, Zenon
  <2> HIDE DEF first, lost
  <2> QED BY <1>2, <1>4, <2>1, <2>2, <2>3 DEF Scores
<1>6. /\ Once(h.players) /\ Once(h.waiting_players)
      /\ Seated(h) = Seated(g) \cup Members(g.waiting_players)
      /\ Members(h.waiting_players) = {}
  <2>1. Once(<<>>) /\ Members(<<>>) = {}
    BY DEF Once, Members
  <2> QED BY <1>1, <1>4, <2>1, OnceAppended, SMTT(30) DEF Apart, Seated
<1>7. Len(h.players) >= 2
  <2>1. ASSUME NEW s \in Seq(Player), NEW t \in Seq(Player), Len(s) >= 2
        PROVE  Len(s \o t) >= 2
    BY <2>1
  <2> QED BY <1>1, <1>4, <2>1
<1>8. \A q \in Player : q \notin Seated(h) => h.match_losses[q] = 0 /\ g.tokens[q] = 0
  BY <1>1, <1>4, <1>6, SMTT(30) DEF Apart, Nobody
<1>9. Even(h)
  <2>1. CASE lost
    <3>1. h.phase = "finished" /\ h.tokens = g.tokens
      BY <1>4, <2>1
    <3> QED BY <1>6, <1>7, <1>8, <3>1
            DEF Even, Apart, Opening, Shared, TiedPlay, ConservesChips, DuelGoesOn, InPlay
  <2>2. CASE ~lost
    <3>1. h.phase = "charge" /\ h.pool = Chips /\ h.tokens = Nobody /\ h.out_of_match = {}
      BY <1>4, <2>2
    <3> QED BY <1>3, <1>6, <1>7, <1>8, <3>1, FreshMatchEven DEF Typed
  <2> QED BY <2>1, <2>2
<1> QED BY <1>5, <1>9 DEF h

\* A cycle that ends no match leaves two players in it: in a décharge two
\* players at least share the chips.
LEMMA NextCycleEven ==
  ASSUME NEW g, Settled(g), \A q \in Seated(g) : g.tokens[q] < Chips, NEW p
  PROVE  LET h == NextCycle(SitOut(g), p) IN Scores(g, h) /\ Even(h)
<1> DEFINE h == NextCycle(SitOut(g), p)
           out == IF g.phase = "decharge"
                  THEN g.out_of_match \cup {q \in Seated(g) : g.tokens[q] = 0}
                  ELSE g.out_of_match
<1>1. /\ g \in Game /\ Apart(g) /\ Conserved(g) /\ Len(g.players) >= 2 /\ SitOutEmpty(g)
      /\ Duel(g) /\ g.phase \in {"charge", "decharge"} /\ (g.phase = "charge" <=> g.pool > 0)
      /\ g.tokens \in [Player -> Nat] /\ g.pool \in Nat /\ Seated(g) \subseteq Player
  BY SMTT(30) DEF Settled, InCycle, Typed, Game, Sound, PoolFitsPhase, PlayPhase, InPlay, Seated, Members
<1>2. /\ h.players = g.players /\ h.waiting_players = g.waiting_players
      /\ h.tokens = g.tokens /\ h.pool = g.pool /\ h.phase = g.phase
      /\ h.match_losses = g.match_losses /\ h.round_points = g.round_points
      /\ h.out_of_match = out
  <2>1. g \in Game
    BY <1>1
  <2> QED BY <2>1, NextCycleWrites, ZenonT(60)
<1> HIDE DEF h
<1>3. Seated(h) = Seated(g)
  BY <1>2 DEF Seated
<1>4. Scores(g, h)
  <2>1. \A q \in Player : g.tokens[q] < Chips
    BY <1>1, BoundsAssumption DEF Apart
  <2> QED BY <1>2, <2>1 DEF Scores
<1>5. SitOutEmpty(h)
  BY <1>1, <1>2 DEF SitOutEmpty
<1>6. DuelGoesOn(h)
  <2>1. CASE g.phase = "charge"
    <3>1. Active(h) = Active(g)
      BY <1>2, <1>3, <2>1 DEF Active
    <3> QED BY <1>1, <1>2, <2>1, <3>1 DEF DuelGoesOn, Duel, PlayPhase
  <2>2. CASE g.phase = "decharge"
    <3>1. Total(g.tokens, Seated(g)) = Chips
      <4>1. g.pool = 0
        BY <1>1, <2>2
      <4>2. Total(g.tokens, Seated(g)) \in Nat
        BY <1>1, SeatedIsFinite, TotalIsNat
      <4> QED BY <1>1, <4>1, <4>2 DEF Conserved
    <3>2. PICK a, b \in Seated(g) : a # b /\ g.tokens[a] > 0 /\ g.tokens[b] > 0
      BY <1>1, <3>1, SeatedIsFinite, TotalIsShared, BoundsAssumption
    <3>3. a \in Active(h) /\ b \in Active(h)
      BY <1>1, <1>2, <1>3, <3>2 DEF Active, SitOutEmpty
    <3>4. \A q \in Active(h) : g.tokens[q] > 0
      BY <1>1, <1>2, <1>3, <2>2 DEF Active
    <3> QED BY <1>2, <3>2, <3>3, <3>4 DEF DuelGoesOn
  <2> QED BY <1>1, <2>1, <2>2
<1>7. /\ Apart(h) /\ Opening(h) /\ Shared(h) /\ TiedPlay(h) /\ ConservesChips(h)
  BY <1>1, <1>2, <1>3, <1>5
     DEF Apart, Opening, Shared, TiedPlay, ConservesChips, Conserved
<1> QED BY <1>4, <1>6, <1>7 DEF Even, h

\* _finalize_cycle closes a cycle the way Match.tla says.
LEMMA FinalizeCycleEven ==
  ASSUME NEW g, Settled(g), NEW p
  PROVE  Scores(g, FinalizeCycle(g, p)) /\ Even(FinalizeCycle(g, p))
<1> DEFINE full == {q \in Seated(g) : g.tokens[q] >= Chips}
<1>1. /\ g \in Game /\ Seated(g) \subseteq Player /\ g.tokens \in [Player -> Nat]
  BY SMTT(30) DEF Settled, InCycle, Typed, Game, Seated, Members
<1>2. CASE full = {}
  <2>1. \A q \in Seated(g) : g.tokens[q] < Chips
    BY <1>1, <1>2, BoundsAssumption
  <2>2. FinalizeCycle(g, p) = NextCycle(SitOut(g), p)
    BY <1>2 DEF FinalizeCycle
  <2> QED BY <2>1, <2>2, NextCycleEven
<1>3. CASE full # {}
  <2>1. PICK q \in full : TRUE
    BY <1>3
  <2>2. FirstSeated(g, full) \in full \cap Seated(g) /\ FirstSeated(g, full) \in Player
    <3>1. q \in full \cap Seated(g)
      OBVIOUS
    <3> HIDE DEF full
    <3> QED BY <1>1, <3>1, FirstSeatedType
  <2>3. FinalizeCycle(g, p) = EndMatch(g, FirstSeated(g, full))
    BY <1>3 DEF FinalizeCycle
  <2> QED BY <2>2, <2>3, EndMatchEven
<1> QED BY <1>2, <1>3

----------------------------------------------------------------------------
(* The loser of a cycle takes chips.                                       *)

\* h differs from g, as far as chips and seats go, in who holds the chips.
SameSeats(g, h) ==
  /\ h.players = g.players /\ h.waiting_players = g.waiting_players
  /\ h.out_of_match = g.out_of_match
  /\ h.match_losses = g.match_losses /\ h.round_points = g.round_points

\* n chips of one player given to another.
Moved(held, winner, loser, n) == [[held EXCEPT ![winner] = @ - n] EXCEPT ![loser] = @ + n]

\* The transfers of Match.tla: k is g after the loser has taken its chips.
FromBank(g, k) ==
  \E loser \in Player, n \in 1..Chips :
    n <= g.pool /\ k.pool = g.pool - n /\ k.tokens = [g.tokens EXCEPT ![loser] = @ + n]
FromWinner(g, k) ==
  \E loser \in Player, winner \in Player, n \in 1..Chips :
    /\ g.pool = 0 /\ winner # loser /\ n <= g.tokens[winner] /\ k.pool = 0
    /\ k.tokens = Moved(g.tokens, winner, loser, n)
Kept(g, k) == k.pool = g.pool /\ k.tokens = g.tokens
Transferred(g, k) ==
  /\ k.match_losses = g.match_losses /\ k.round_points = g.round_points
  /\ FromBank(g, k) \/ FromWinner(g, k) \/ Kept(g, k)

\* k is g after the loser, an active player, has taken its chips: the cycle can
\* be closed, nobody else got any, and in a décharge the loser plays on.
Pays(g, loser, k) ==
  /\ Settled(k) /\ Transferred(g, k) /\ SameSeats(g, k)
  /\ loser \in Active(g) \cap Player
  /\ \A q \in Player \ {loser} : k.tokens[q] <= g.tokens[q]
  /\ k.phase = "decharge" => k.tokens[loser] > 0

\* A game in play, of which a cycle or a tiebreak is about to be settled.
Contested(g) ==
  /\ Typed(g) /\ Sound(g) /\ Even(g) /\ g.phase \in InPlay

\* What is known of a game in play: nobody has all its chips yet.
LEMMA ContestedFacts ==
  ASSUME NEW g, Contested(g)
  PROVE  /\ g \in Game /\ Typed(g) /\ Sound(g) /\ g.partie_loser_id = NoPlayer
         /\ Apart(g) /\ Len(g.players) >= 2 /\ Conserved(g) /\ SitOutEmpty(g) /\ Duel(g)
         /\ g.tokens \in [Player -> Nat] /\ g.pool \in Nat /\ Seated(g) \subseteq Player
         /\ IsFiniteSet(Seated(g))
         /\ \A q \in Player : g.tokens[q] < Chips
         /\ g.pool <= Chips
         /\ g.pool = 0 => \A q \in Active(g) : g.tokens[q] > 0
<1>1. /\ g \in Game /\ Typed(g) /\ Sound(g) /\ g.partie_loser_id = NoPlayer
      /\ Apart(g) /\ Len(g.players) >= 2 /\ Conserved(g) /\ SitOutEmpty(g)
      /\ \A q \in Seated(g) : g.tokens[q] < Chips
  BY DEF Contested, Typed, Sound, Even, Opening, Shared, ConservesChips, Conserved, InPlay
<1>2. Duel(g)
  BY DEF Contested, Even, DuelGoesOn, Duel
<1>3. /\ g.tokens \in [Player -> Nat] /\ g.pool \in Nat /\ Seated(g) \subseteq Player
      /\ IsFiniteSet(Seated(g))
  <2>1. IsFiniteSet(Seated(g))
    BY <1>1, SeatedIsFinite
  <2> QED BY <1>1, <2>1, SMTT(30) DEF Game, Seated, Members
<1>4. \A q \in Player : g.tokens[q] < Chips
  BY <1>1, BoundsAssumption DEF Apart
<1>5. Total(g.tokens, Seated(g)) \in Nat
  BY <1>3, TotalIsNat
<1>6. g.pool <= Chips
  BY <1>1, <1>3, <1>5, BoundsAssumption DEF Conserved
<1>7. g.pool = 0 => \A q \in Active(g) : g.tokens[q] > 0
  <2>1. g.pool = 0 => PlayPhase(g) = "decharge"
    BY <1>3 DEF Contested, Sound, PoolFitsPhase
  <2> QED BY <2>1 DEF Contested, Even, DuelGoesOn
<1> QED BY <1>1, <1>2, <1>3, <1>4, <1>6, <1>7

\* The bank gives: what leaves it, the loser has.
LEMMA TakeFromBankWrites ==
  ASSUME NEW g \in Game, NEW loser \in Player, NEW penalty \in Nat
  PROVE  LET k == TakeFromBank(g, loser, penalty, "charge")
             taken == Lesser(penalty, g.pool)
         IN  /\ SameSeats(g, k) /\ k.pool = g.pool - taken
             /\ k.tokens = [g.tokens EXCEPT ![loser] = @ + taken]
<1> DEFINE taken == Lesser(penalty, g.pool)
           chips == [g.tokens EXCEPT ![loser] = @ + taken]
           left  == g.pool - taken
           phase == IF left = 0 THEN "decharge" ELSE "charge"
           k     == TakeFromBank(g, loser, penalty, "charge")
<1>1. k = [g EXCEPT !.tokens = chips, !.pool = left, !.phase = phase]
  <2>1. k = [g EXCEPT !.tokens[loser] = @ + taken, !.pool = @ - taken, !.phase = phase]
    BY DEF TakeFromBank
  <2> HIDE DEF taken, k
  <2> QED BY <2>1 DEF Game
<1> HIDE DEF chips, left, phase, k
<1>2. SameSeats(g, k) /\ k.pool = left /\ k.tokens = chips
  BY <1>1 DEF SameSeats, Game
<1> QED BY <1>2 DEF k, left, chips

\* A change of one player's chips changes the chips at the table by as much.
LEMMA TotalOfOne ==
  ASSUME NEW S, IsFiniteSet(S), NEW p \in S
  PROVE  \A old, new :
           (/\ \A q \in S : old[q] \in Nat /\ new[q] \in Nat
            /\ \A q \in S \ {p} : new[q] = old[q])
           => Total(new, S) = Total(old, S) + new[p] - old[p]
  BY TotalMoves

\* The loser of a cycle takes chips the bank has.
LEMMA BankGives ==
  ASSUME NEW g, Contested(g), NEW k, InCycle(k), SameSeats(g, k),
         NEW loser \in Active(g), NEW taken \in Nat \ {0}, taken <= g.pool,
         k.pool = g.pool - taken, k.tokens = [g.tokens EXCEPT ![loser] = @ + taken]
  PROVE  Pays(g, loser, k)
<1>1. /\ g \in Game /\ Apart(g) /\ Len(g.players) >= 2
      /\ Conserved(g) /\ SitOutEmpty(g) /\ Duel(g)
      /\ g.tokens \in [Player -> Nat] /\ g.pool \in Nat /\ Seated(g) \subseteq Player
      /\ IsFiniteSet(Seated(g)) /\ g.pool <= Chips
  BY ContestedFacts
<1>2. loser \in Player /\ loser \in Seated(g) /\ loser \notin g.out_of_match
  BY <1>1 DEF Active
<1>3. g.pool - taken \in Nat
  BY <1>1
<1>4. /\ \A q \in Player : k.tokens[q] \in Nat
      /\ \A q \in Player \ {loser} : k.tokens[q] = g.tokens[q]
      /\ k.tokens[loser] = g.tokens[loser] + taken
  BY <1>1, <1>2, <1>3
<1>5. Total(k.tokens, Seated(g)) = Total(g.tokens, Seated(g)) + taken
  <2>1. \A q \in Seated(g) : g.tokens[q] \in Nat /\ k.tokens[q] \in Nat
    BY <1>1, <1>4
  <2>2. \A q \in Seated(g) \ {loser} : k.tokens[q] = g.tokens[q]
    BY <1>1, <1>4
  <2>3. Total(k.tokens, Seated(g)) = Total(g.tokens, Seated(g)) + k.tokens[loser] - g.tokens[loser]
    <3>1. \A old, new :
            (/\ \A q \in Seated(g) : old[q] \in Nat /\ new[q] \in Nat
             /\ \A q \in Seated(g) \ {loser} : new[q] = old[q])
            => Total(new, Seated(g)) = Total(old, Seated(g)) + new[loser] - old[loser]
      BY <1>1, <1>2, TotalOfOne, SMTT(30)
    <3> QED BY <2>1, <2>2, <3>1, Zenon
  <2>4. Total(g.tokens, Seated(g)) \in Nat /\ g.tokens[loser] \in Nat
    BY <1>1, <1>2, <2>1, TotalIsNat
  <2> QED BY <1>3, <1>4, <2>3, <2>4
<1>6. Seated(k) = Seated(g) /\ Active(k) = Active(g)
  BY DEF SameSeats, Seated, Active
<1>7. Conserved(k)
  <2>1. Total(g.tokens, Seated(g)) \in Nat
    BY <1>1, TotalIsNat
  <2> QED BY <1>1, <1>3, <1>5, <1>6, <2>1 DEF Conserved
<1>8. Apart(k) /\ SitOutEmpty(k) /\ Duel(k) /\ Len(k.players) >= 2
  <2>1. g.out_of_match \subseteq Player
    BY <1>1 DEF Game
  <2> QED BY <1>1, <1>2, <1>4, <1>6, <2>1 DEF Apart, SameSeats, SitOutEmpty, Duel
<1>9. Transferred(g, k)
  <2>1. taken \in 1..Chips
    BY <1>1, <1>3, BoundsAssumption
  <2> QED BY <1>2, <1>3, <2>1 DEF Transferred, FromBank, SameSeats
<1>10. /\ \A q \in Player \ {loser} : k.tokens[q] <= g.tokens[q]
       /\ k.tokens[loser] > 0
  BY <1>1, <1>2, <1>4
<1> QED BY <1>2, <1>7, <1>8, <1>9, <1>10 DEF Settled, Pays

\* The loser of a cycle takes chips the winner has, once the bank is empty.
LEMMA WinnerGives ==
  ASSUME NEW g, Contested(g), g.pool = 0, NEW k, InCycle(k), SameSeats(g, k),
         NEW loser \in Active(g), NEW winner \in Seated(g), winner # loser,
         NEW given \in Nat, given <= g.tokens[winner], k.pool = 0,
         k.tokens = Moved(g.tokens, winner, loser, given)
  PROVE  Pays(g, loser, k)
<1> DEFINE mid == [g.tokens EXCEPT ![winner] = @ - given]
<1>1. /\ g \in Game /\ Apart(g) /\ Len(g.players) >= 2
      /\ Conserved(g) /\ SitOutEmpty(g) /\ Duel(g)
      /\ g.tokens \in [Player -> Nat] /\ Seated(g) \subseteq Player
      /\ IsFiniteSet(Seated(g)) /\ \A q \in Player : g.tokens[q] < Chips
  BY ContestedFacts
<1>2. /\ loser \in Player /\ loser \in Seated(g) /\ loser \notin g.out_of_match
      /\ winner \in Player
  BY <1>1 DEF Active
<1>3. g.tokens[winner] - given \in Nat
  BY <1>1, <1>2
<1>4. /\ \A q \in Player : mid[q] \in Nat
      /\ \A q \in Player \ {winner} : mid[q] = g.tokens[q]
      /\ mid[winner] = g.tokens[winner] - given
  BY <1>1, <1>2, <1>3
<1> HIDE DEF mid
<1>5. /\ \A q \in Player \ {winner, loser} : k.tokens[q] = g.tokens[q]
      /\ k.tokens[loser] = g.tokens[loser] + given
      /\ k.tokens[winner] = g.tokens[winner] - given
  BY <1>1, <1>2 DEF Moved
<1>6. /\ \A q \in Player : k.tokens[q] \in Nat
      /\ \A q \in Player \ {loser} : k.tokens[q] = mid[q]
      /\ k.tokens[loser] = mid[loser] + given
  <2>1. g.tokens[loser] \in Nat /\ mid[loser] = g.tokens[loser]
    BY <1>1, <1>2, <1>4
  <2>2. k.tokens[loser] \in Nat /\ k.tokens[loser] = mid[loser] + given
    BY <1>5, <2>1
  <2>3. \A q \in Player \ {loser} : k.tokens[q] = mid[q] /\ k.tokens[q] \in Nat
    BY <1>1, <1>2, <1>3, <1>4, <1>5
  <2> QED BY <2>2, <2>3
<1>7. Total(k.tokens, Seated(g)) = Total(g.tokens, Seated(g))
  <2>1. \A p \in Seated(g) : \A old, new :
          (/\ \A q \in Seated(g) : old[q] \in Nat /\ new[q] \in Nat
           /\ \A q \in Seated(g) \ {p} : new[q] = old[q])
          => Total(new, Seated(g)) = Total(old, Seated(g)) + new[p] - old[p]
    BY <1>1, TotalOfOne
  <2>2. \A q \in Seated(g) : g.tokens[q] \in Nat /\ mid[q] \in Nat
    BY <1>1, <1>4
  <2>3. \A q \in Seated(g) : mid[q] \in Nat /\ k.tokens[q] \in Nat
    BY <1>1, <1>4, <1>6
  <2>4. \A q \in Seated(g) \ {winner} : mid[q] = g.tokens[q]
    BY <1>1, <1>4
  <2>5. \A q \in Seated(g) \ {loser} : k.tokens[q] = mid[q]
    BY <1>1, <1>6
  <2>6. Total(mid, Seated(g)) = Total(g.tokens, Seated(g)) + mid[winner] - g.tokens[winner]
    BY <2>1, <2>2, <2>4, Zenon
  <2>7. Total(k.tokens, Seated(g)) = Total(mid, Seated(g)) + k.tokens[loser] - mid[loser]
    BY <1>2, <2>1, <2>3, <2>5, Zenon
  <2>8. Total(g.tokens, Seated(g)) \in Nat /\ g.tokens[winner] \in Nat /\ mid[loser] \in Nat
    BY <1>1, <1>2, <1>4, TotalIsNat
  <2> QED BY <1>4, <1>6, <2>6, <2>7, <2>8
<1>8. Seated(k) = Seated(g) /\ Active(k) = Active(g)
  BY DEF SameSeats, Seated, Active
<1>9. Conserved(k)
  BY <1>1, <1>7, <1>8 DEF Conserved
<1>10. Apart(k) /\ Duel(k) /\ Len(k.players) >= 2
  BY <1>1, <1>2, <1>5, <1>8 DEF Apart, SameSeats, Duel
<1>11. SitOutEmpty(k)
  <2>1. winner \in g.out_of_match => k.tokens[winner] = 0
    <3>1. winner \in g.out_of_match => g.tokens[winner] = 0
      BY <1>1 DEF SitOutEmpty
    <3> QED BY <1>5, <3>1
  <2>2. g.out_of_match \subseteq Player
    BY <1>1 DEF Game
  <2> QED BY <1>1, <1>2, <1>5, <2>1, <2>2 DEF SitOutEmpty, SameSeats
<1>12. Transferred(g, k)
  <2>1. CASE given = 0
    <3>1. k.tokens = g.tokens
      BY <1>1, <1>2, <2>1 DEF Moved
    <3> QED BY <3>1 DEF Transferred, Kept, SameSeats
  <2>2. CASE given # 0
    <3>1. given \in 1..Chips
      BY <1>1, <1>2, <2>2, BoundsAssumption
    <3> QED BY <1>2, <3>1 DEF Transferred, FromWinner, SameSeats
  <2> QED BY <2>1, <2>2
<1>13. /\ \A q \in Player \ {loser} : k.tokens[q] <= g.tokens[q]
       /\ k.tokens[loser] > 0
  <2>1. g.tokens[loser] > 0 /\ g.tokens[loser] \in Nat /\ g.tokens[winner] \in Nat
    BY <1>1, <1>2, ContestedFacts
  <2>2. k.tokens[loser] > 0 /\ k.tokens[winner] <= g.tokens[winner]
    BY <1>5, <2>1
  <2>3. \A q \in Player \ {winner, loser} : k.tokens[q] <= g.tokens[q]
    BY <1>1, <1>5
  <2> QED BY <2>2, <2>3
<1> QED BY <1>2, <1>9, <1>10, <1>11, <1>12, <1>13 DEF Settled, Pays

\* A cycle nobody pays for: the best turns of a décharge were equal.
LEMMA NothingGiven ==
  ASSUME NEW g, Contested(g), g.pool = 0, NEW k, InCycle(k), SameSeats(g, k), Kept(g, k),
         NEW loser \in Active(g)
  PROVE  Pays(g, loser, k)
<1>1. /\ Apart(g) /\ Len(g.players) >= 2 /\ Conserved(g) /\ SitOutEmpty(g) /\ Duel(g)
      /\ g.tokens[loser] > 0 /\ g.tokens \in [Player -> Nat] /\ loser \in Player
  BY ContestedFacts DEF Active
<1>2. Seated(k) = Seated(g) /\ Active(k) = Active(g)
  BY DEF SameSeats, Seated, Active
<1>3. Conserved(k) /\ SitOutEmpty(k) /\ Duel(k) /\ Apart(k) /\ Len(k.players) >= 2
  BY <1>1, <1>2 DEF SameSeats, Kept, Conserved, SitOutEmpty, Duel, Apart
<1>4. /\ \A q \in Player \ {loser} : k.tokens[q] <= g.tokens[q]
      /\ k.tokens[loser] > 0
  BY <1>1 DEF Kept
<1> QED BY <1>1, <1>3, <1>4 DEF Pays, Settled, Transferred, SameSeats

\* What the winner has not, it cannot give; nobody gives when there is no
\* winner at the table.
LEMMA GiveToLoserWrites ==
  ASSUME NEW g \in Game, NEW winner, NEW loser, NEW penalty \in Nat
  PROVE  LET k == GiveToLoser(g, winner, loser, penalty)
             given == Lesser(penalty, g.tokens[winner])
         IN  /\ SameSeats(g, k) /\ k.pool = g.pool
             /\ winner \notin Seated(g) => k.tokens = g.tokens
             /\ winner \in Seated(g) =>
                  k.tokens = Moved(g.tokens, winner, loser, given)
<1> DEFINE given == Lesser(penalty, g.tokens[winner])
           chips == Moved(g.tokens, winner, loser, given)
           k == GiveToLoser(g, winner, loser, penalty)
<1>1. k = IF winner \notin Seated(g) THEN g ELSE [g EXCEPT !.tokens = chips]
  BY DEF GiveToLoser, Moved
<1> HIDE DEF chips, k
<1>2. /\ SameSeats(g, k) /\ k.pool = g.pool
      /\ winner \notin Seated(g) => k.tokens = g.tokens
      /\ winner \in Seated(g) => k.tokens = chips
  BY <1>1 DEF SameSeats, Game
<1> QED BY <1>2 DEF k, chips

\* A step that leaves chips and seats alone keeps the table even.
LEMMA KeptEven ==
  ASSUME NEW g, Even(g), NEW h, SameSeats(g, h), Kept(g, h), TiedPlay(h),
         h.phase # g.phase => g.phase \in InPlay /\ h.phase \in InPlay,
         PlayPhase(h) = PlayPhase(g)
  PROVE  Even(h)
<1>1. Seated(h) = Seated(g) /\ Active(h) = Active(g)
  BY DEF SameSeats, Seated, Active
<1>2. Apart(h) /\ Opening(h)
  BY <1>1 DEF Even, Apart, Opening, SameSeats, Kept, InPlay
<1>3. Shared(h) /\ ConservesChips(h)
  BY <1>1 DEF Even, Shared, SitOutEmpty, ConservesChips, SameSeats, Kept
<1>4. DuelGoesOn(h)
  BY <1>1 DEF Even, DuelGoesOn, Kept
<1> QED BY <1>2, <1>3, <1>4 DEF Even

\* A tiebreak between active players the winner is not among.
LEMMA EnterTiebreakEven ==
  ASSUME NEW g, Contested(g), NEW tied \in SUBSET (Active(g) \cap Player),
         NEW penalty \in Nat \ {0}, NEW phase, phase = PlayPhase(g), NEW winner, winner \notin tied
  PROVE  LET h == EnterTiebreak(g, tied, penalty, phase, winner)
         IN  Even(h) /\ SameSeats(g, h) /\ Kept(g, h)
<1> DEFINE hand  == FirstTied(ReversePlayOrder(g), tied, 1)
           turns == FreshTurns(g, tied)
           clean == [p \in Player |-> 0]
           order == ReversePlayOrder(g)
           tb == [order |-> order, tied |-> tied, throws |-> clean, next_pid |-> hand,
                  penalty |-> penalty, return_phase |-> phase, original_winner_id |-> winner]
           h == [g EXCEPT !.phase = "tiebreak", !.turn = turns, !.tiebreak = tb]
<1>1. EnterTiebreak(g, tied, penalty, phase, winner) = h
  BY DEF EnterTiebreak
<1>2. g \in Game /\ Even(g) /\ g.phase \in InPlay
  BY DEF Contested, Typed
<1>3. /\ tb.tied = tied /\ tb.original_winner_id = winner /\ tb.return_phase = phase
      /\ tb.penalty > 0 /\ \A p \in Player : tb.throws[p] = 0
  OBVIOUS
<1>4. tb.next_pid \in tied \cup {NoPlayer}
  BY <1>2, ReversePlayOrderType, FirstTiedType
<1> HIDE DEF tb, turns
<1>5. SameSeats(g, h) /\ Kept(g, h) /\ h.phase = "tiebreak" /\ h.tiebreak = tb
  BY <1>2 DEF SameSeats, Kept, Game
<1> HIDE DEF h
<1>6. Active(h) = Active(g)
  BY <1>5 DEF SameSeats, Seated, Active
<1>7. TiedPlay(h)
  BY <1>3, <1>5, <1>6, <1>4 DEF TiedPlay
<1>8. PlayPhase(h) = PlayPhase(g) /\ h.phase \in InPlay
  BY <1>3, <1>5 DEF PlayPhase, InPlay
<1>9. Even(h)
  BY <1>2, <1>5, <1>7, <1>8, KeptEven
<1> QED BY <1>1, <1>5, <1>9

----------------------------------------------------------------------------
(* Settling a cycle and a tiebreak.                                        *)

\* The loser takes its chips, then the cycle is closed.
Settles(g, h) == \E k : Transferred(g, k) /\ Scores(k, h)

\* A step that moves no chip settles nothing, as long as nobody has them all.
LEMMA KeptSettles ==
  ASSUME NEW g, Contested(g), NEW h, SameSeats(g, h), Kept(g, h)
  PROVE  Settles(g, h)
<1>1. Transferred(g, g)
  BY DEF Transferred, Kept
<1>2. Scores(g, h)
  BY ContestedFacts DEF Scores, SameSeats, Kept
<1> QED BY <1>1, <1>2 DEF Settles

\* _resolve_round in a match of two players or more: the lowest turns throw
\* again, or one loser takes its chips and the cycle is closed.
LEMMA ResolveRoundPays ==
  ASSUME NEW g, InCycle(g), Even(g), AllDone(g)
  PROVE  \/ \E low \in SUBSET (Active(g) \cap Player), winner \in MaybePlayer, penalty \in Nat \ {0} :
              /\ low # {} /\ winner \notin low
              /\ ResolveRound(g) = EnterTiebreak(g, low, penalty, g.phase, winner)
         \/ \E loser, k : Pays(g, loser, k) /\ ResolveRound(g) = FinalizeCycle(k, loser)
<1>1. /\ Typed(g) /\ g \in Game /\ Contested(g) /\ Len(g.players) >= 2
      /\ g.partie_loser_id = NoPlayer /\ g.pool \in Nat /\ g.tokens \in [Player -> Nat]
      /\ g.phase \in {"charge", "decharge"} /\ (g.phase = "charge" <=> g.pool > 0)
      /\ Sound(g) /\ Duel(g)
  <2>1. Contested(g)
    BY DEF InCycle, Contested, InPlay
  <2> QED BY <2>1, ContestedFacts DEF InCycle, Sound, PoolFitsPhase, PlayPhase, InPlay, Typed
<1>2. ~(\A p, q \in Active(g) : g.turn[p] # NoTurn /\ g.turn[q] # NoTurn => p = q)
  <2>1. \A p \in Active(g) : g.turn[p] # NoTurn
    BY DEF AllDone, Active, NoTurn
  <2> QED BY <1>1, <2>1 DEF Duel
<1>3. ASSUME NEW low \in SUBSET (Active(g) \cap Player), NEW loser \in low,
             NEW winner \in MaybePlayer \ low, NEW penalty \in Nat \ {0}
      PROVE  /\ g.phase = "charge" => Pays(g, loser, TakeFromBank(g, loser, penalty, "charge"))
             /\ g.phase # "charge" => Pays(g, loser, GiveToLoser(g, winner, loser, penalty))
  <2>1. /\ loser \in Active(g) /\ loser \in Player /\ winner # loser /\ winner \notin low
        /\ penalty \in Nat /\ winner \in MaybePlayer
    OBVIOUS
  <2>2. ASSUME g.phase = "charge"
        PROVE  Pays(g, loser, TakeFromBank(g, loser, penalty, "charge"))
    <3> DEFINE k == TakeFromBank(g, loser, penalty, "charge")
               taken == Lesser(penalty, g.pool)
    <3>1. taken \in Nat \ {0} /\ taken <= g.pool
      BY <1>1, <2>2 DEF Lesser
    <3>2. InCycle(k)
      BY <1>1, <2>1, <2>2, TakeFromBankSound
    <3>3. SameSeats(g, k) /\ k.pool = g.pool - taken /\ k.tokens = [g.tokens EXCEPT ![loser] = @ + taken]
      BY <1>1, <2>1, TakeFromBankWrites
    <3> HIDE DEF k, taken
    <3>4. Pays(g, loser, k)
      BY <1>1, <2>1, <3>1, <3>2, <3>3, BankGives
    <3> QED BY <3>4 DEF k
  <2>3. ASSUME g.phase # "charge"
        PROVE  Pays(g, loser, GiveToLoser(g, winner, loser, penalty))
    <3> DEFINE k == GiveToLoser(g, winner, loser, penalty)
               given == Lesser(penalty, g.tokens[winner])
    <3>1. InCycle(k)
      <4>1. Typed(k)
        BY <1>1, <2>1, GiveToLoserType
      <4>2. SameScores(g, k) /\ k.phase = g.phase /\ k.pool = g.pool
        BY <1>1, <2>1, GiveToLoserFields
      <4> HIDE DEF k
      <4> QED BY <1>1, <4>1, <4>2, SameIsSound DEF Keeps, InCycle
    <3>2. /\ SameSeats(g, k) /\ k.pool = g.pool
          /\ winner \notin Seated(g) => k.tokens = g.tokens
          /\ winner \in Seated(g) =>
               k.tokens = Moved(g.tokens, winner, loser, given)
      BY <1>1, <2>1, GiveToLoserWrites
    <3> HIDE DEF k
    <3>3. g.pool = 0
      BY <1>1, <2>3
    <3>4. CASE winner \notin Seated(g)
      <4>1. Pays(g, loser, k)
        BY <1>1, <2>1, <3>1, <3>2, <3>3, <3>4, NothingGiven DEF Kept
      <4> QED BY <4>1 DEF k
    <3>5. CASE winner \in Seated(g)
      <4>1. winner \in Player
        BY <1>1, <3>5 DEF Game, Seated, Members
      <4>2. given \in Nat /\ given <= g.tokens[winner]
        BY <1>1, <2>1, <4>1 DEF Lesser
      <4> HIDE DEF given
      <4>3. Pays(g, loser, k)
        BY <1>1, <2>1, <3>1, <3>2, <3>3, <3>5, <4>2, WinnerGives
      <4> QED BY <4>3 DEF k
    <3> QED BY <3>4, <3>5
  <2> QED BY <2>2, <2>3
<1>4. ~(Len(g.players) = 1)
  <2>1. Len(g.players) \in Nat
    <3>1. g.players \in Seq(Player)
      BY <1>1 DEF Game
    <3> QED BY <3>1
  <2>2. \A n \in Nat : n >= 2 => ~(n = 1)
    OBVIOUS
  <2> QED BY <1>1, <2>1, <2>2, Zenon
<1>5. ASSUME NEW low \in SUBSET (Active(g) \cap Player), NEW loser \in low,
             NEW winner \in MaybePlayer \ low, NEW penalty \in Nat \ {0},
             \/ ResolveRound(g) = EnterTiebreak(g, low, penalty, g.phase, winner)
             \/ /\ g.phase = "charge"
                /\ ResolveRound(g) = FinalizeCycle(TakeFromBank(g, loser, penalty, "charge"), loser)
             \/ /\ g.phase # "charge"
                /\ ResolveRound(g) = FinalizeCycle(GiveToLoser(g, winner, loser, penalty), loser)
      PROVE  \/ \E l \in SUBSET (Active(g) \cap Player), w \in MaybePlayer, n \in Nat \ {0} :
                  l # {} /\ w \notin l /\ ResolveRound(g) = EnterTiebreak(g, l, n, g.phase, w)
             \/ \E p, k : Pays(g, p, k) /\ ResolveRound(g) = FinalizeCycle(k, p)
  <2>1. low # {} /\ winner \in MaybePlayer /\ winner \notin low
    OBVIOUS
  <2> QED BY <1>3, <1>5, <2>1, Zenon
<1> QED BY <1>1, <1>2, <1>4, <1>5, ResolveRoundDetails, Zenon

\* Closing a cycle after a payment is a step of Match.tla.
LEMMA PaysSettles ==
  ASSUME NEW g, NEW loser, NEW k, Pays(g, loser, k)
  PROVE  Even(FinalizeCycle(k, loser)) /\ Settles(g, FinalizeCycle(k, loser))
  BY FinalizeCycleEven DEF Pays, Settles

\* _resolve_round moves chips the way Match.tla says and leaves two players
\* who can still win.
LEMMA ResolveRoundEven ==
  ASSUME NEW g, InCycle(g), Even(g), AllDone(g)
  PROVE  Even(ResolveRound(g)) /\ Settles(g, ResolveRound(g))
<1>1. Contested(g) /\ PlayPhase(g) = g.phase
  BY DEF InCycle, Contested, InPlay, PlayPhase
<1>2. ASSUME NEW low \in SUBSET (Active(g) \cap Player), NEW winner \in MaybePlayer,
             NEW penalty \in Nat \ {0}, winner \notin low
      PROVE  LET h == EnterTiebreak(g, low, penalty, g.phase, winner)
             IN  Even(h) /\ Settles(g, h)
  <2> DEFINE h == EnterTiebreak(g, low, penalty, g.phase, winner)
  <2>1. Even(h) /\ SameSeats(g, h) /\ Kept(g, h)
    BY <1>1, <1>2, EnterTiebreakEven
  <2> HIDE DEF h
  <2>2. Settles(g, h)
    BY <1>1, <2>1, KeptSettles
  <2> QED BY <2>1, <2>2 DEF h
<1> QED BY <1>2, PaysSettles, ResolveRoundPays, Zenon

\* Clearing the tiebreak and returning to the phase of the cycle move no chip.
LEMMA ClearedWrites ==
  ASSUME NEW g, Typed(g), NEW loser \in Player
  PROVE  LET k == Cleared(g, loser)
             tb == g.tiebreak
             charged == TakeFromBank(g, loser, tb.penalty, "charge")
             given == GiveToLoser(g, tb.original_winner_id, loser, tb.penalty)
         IN  /\ tb.return_phase = "charge" => SameSeats(charged, k) /\ Kept(charged, k)
             /\ tb.return_phase # "charge" => SameSeats(given, k) /\ Kept(given, k)
<1> DEFINE tb == g.tiebreak
           charged == TakeFromBank(g, loser, tb.penalty, "charge")
           given == GiveToLoser(g, tb.original_winner_id, loser, tb.penalty)
           k == Cleared(g, loser)
<1>1. tb.penalty \in Nat /\ tb.original_winner_id \in MaybePlayer /\ "charge" \in Phase
  BY DEF Typed, Game, Tiebreak, Phase
<1>2. charged \in Game /\ given \in Game
  <2> HIDE DEF tb
  <2> QED BY <1>1, TakeFromBankType, GiveToLoserType DEF Typed
<1>3. k = IF tb.return_phase = "charge" THEN [charged EXCEPT !.tiebreak = NoTiebreak]
          ELSE [[given EXCEPT !.phase = "decharge"] EXCEPT !.tiebreak = NoTiebreak]
  BY DEF Cleared, Paid
<1> HIDE DEF k, given, charged
<1> QED BY <1>2, <1>3, ZenonT(60) DEF SameSeats, Kept, Game, k, given, charged

\* The loser of a tiebreak is one of the tied players, so it is active and is
\* not the winner who pays.
LEMMA TiebreakPays ==
  ASSUME NEW g, Typed(g), Sound(g), Even(g), g.phase = "tiebreak",
         NEW loser \in LowestThrows(g)
  PROVE  Pays(g, loser, Cleared(g, loser))
<1> DEFINE tb == g.tiebreak
           charged == TakeFromBank(g, loser, tb.penalty, "charge")
           given == GiveToLoser(g, tb.original_winner_id, loser, tb.penalty)
           winner == tb.original_winner_id
           k == Cleared(g, loser)
<1>1. /\ g \in Game /\ Contested(g) /\ g.pool \in Nat /\ g.tokens \in [Player -> Nat]
      /\ tb.return_phase = "charge" <=> g.pool > 0
      /\ tb.penalty \in Nat \ {0} /\ winner \in MaybePlayer
      /\ Seated(g) \subseteq Player
  <2>1. Contested(g)
    BY DEF Contested, InPlay
  <2>2. g \in Game /\ g.pool \in Nat /\ g.tokens \in [Player -> Nat] /\ Seated(g) \subseteq Player
    BY <2>1, ContestedFacts
  <2> QED BY <2>1, <2>2 DEF Sound, PoolFitsPhase, PlayPhase, InPlay, Game, Tiebreak, Even, TiedPlay
<1>2. loser \in Active(g) /\ loser \in Player /\ winner # loser
  BY DEF Even, TiedPlay, LowestThrows, Threw
<1>3. InCycle(k)
  BY <1>2, ClearedSound
<1>4. /\ tb.return_phase = "charge" => SameSeats(charged, k) /\ Kept(charged, k)
      /\ tb.return_phase # "charge" => SameSeats(given, k) /\ Kept(given, k)
  BY <1>2, ClearedWrites
<1> HIDE DEF k
<1>5. ASSUME tb.return_phase = "charge"
      PROVE  Pays(g, loser, k)
  <2> DEFINE taken == Lesser(tb.penalty, g.pool)
  <2>1. taken \in Nat \ {0} /\ taken <= g.pool
    BY <1>1, <1>5 DEF Lesser
  <2>2. /\ SameSeats(g, charged) /\ charged.pool = g.pool - taken
        /\ charged.tokens = [g.tokens EXCEPT ![loser] = @ + taken]
    <3> HIDE DEF tb
    <3> QED BY <1>1, <1>2, TakeFromBankWrites
  <2> HIDE DEF charged, taken
  <2>3. /\ SameSeats(g, k) /\ k.pool = g.pool - taken
        /\ k.tokens = [g.tokens EXCEPT ![loser] = @ + taken]
    BY <1>4, <1>5, <2>2 DEF SameSeats, Kept
  <2> QED BY <1>1, <1>2, <1>3, <2>1, <2>3, BankGives
<1>6. ASSUME tb.return_phase # "charge"
      PROVE  Pays(g, loser, k)
  <2> DEFINE n == Lesser(tb.penalty, g.tokens[winner])
  <2>1. /\ SameSeats(g, given) /\ given.pool = g.pool
        /\ winner \notin Seated(g) => given.tokens = g.tokens
        /\ winner \in Seated(g) => given.tokens = Moved(g.tokens, winner, loser, n)
    <3> HIDE DEF tb
    <3> QED BY <1>1, GiveToLoserWrites
  <2> HIDE DEF given
  <2>2. /\ SameSeats(g, k) /\ k.pool = g.pool /\ g.pool = 0
        /\ winner \notin Seated(g) => k.tokens = g.tokens
        /\ winner \in Seated(g) => k.tokens = Moved(g.tokens, winner, loser, n)
    BY <1>1, <1>4, <1>6, <2>1 DEF SameSeats, Kept
  <2>3. CASE winner \notin Seated(g)
    BY <1>1, <1>2, <1>3, <2>2, <2>3, NothingGiven DEF Kept
  <2>4. CASE winner \in Seated(g)
    <3>1. n \in Nat /\ n <= g.tokens[winner]
      BY <1>1, <2>4 DEF Lesser
    <3> HIDE DEF n, winner
    <3> QED BY <1>1, <1>2, <1>3, <2>2, <2>4, <3>1, WinnerGives
  <2> QED BY <2>3, <2>4
<1>7. Pays(g, loser, k)
  BY <1>5, <1>6
<1> QED BY <1>7 DEF k

\* _resolve_tiebreak moves chips the way Match.tla says and leaves two players
\* who can still win.
LEMMA ResolveTiebreakEven ==
  ASSUME NEW g, Typed(g), Sound(g), Even(g), g.phase = "tiebreak"
  PROVE  Even(ResolveTiebreak(g)) /\ Settles(g, ResolveTiebreak(g))
<1> DEFINE tb == g.tiebreak
           low == LowestThrows(g)
           again == EnterTiebreak(g, low, tb.penalty, tb.return_phase, tb.original_winner_id)
<1>1. /\ g \in Game /\ Contested(g) /\ tb.return_phase = PlayPhase(g)
      /\ tb.penalty \in Nat \ {0}
  BY DEF Contested, InPlay, Typed, PlayPhase, Game, Tiebreak, Even, TiedPlay
<1>2. low \in SUBSET (Active(g) \cap Player) /\ tb.original_winner_id \notin low
  BY DEF Even, TiedPlay, LowestThrows, Threw
<1>3. Even(g) /\ Settles(g, g)
  BY <1>1, KeptSettles DEF SameSeats, Kept
<1>4. Even(again) /\ Settles(g, again)
  <2> HIDE DEF low, tb
  <2>1. Even(again) /\ SameSeats(g, again) /\ Kept(g, again)
    BY <1>1, <1>2, EnterTiebreakEven
  <2> HIDE DEF again
  <2> QED BY <1>1, <2>1, KeptSettles
<1>5. ASSUME NEW loser \in low
      PROVE  LET h == FinalizeCycle(Cleared(g, loser), loser)
             IN  Even(h) /\ Settles(g, h)
  BY TiebreakPays, PaysSettles
<1> HIDE DEF low, again
<1> QED BY <1>3, <1>4, <1>5, ResolveTiebreakCases, Zenon DEF low, again

\* The end of a turn: the hand passes, and a complete cycle is settled.
LEMMA EndTurnEven ==
  ASSUME NEW g, InCycle(g), Even(g)
  PROVE  Even(EndTurn(g)) /\ Settles(g, EndTurn(g))
<1> DEFINE k == Advance(g)
           index == (g.current_index + StepsToActive(g, 1)) % Len(g.players)
<1>1. k = g \/ k = [g EXCEPT !.current_index = index]
  BY DEF Advance
<1>2. k \in Game /\ g \in Game
  BY AdvanceType DEF InCycle, Typed
<1>3. /\ SameScores(g, k) /\ SameSeats(g, k) /\ Kept(g, k)
      /\ k.phase = g.phase /\ k.turn = g.turn /\ k.tiebreak = g.tiebreak
  <2> HIDE DEF k, index
  <2> QED BY <1>1, <1>2 DEF Game, SameScores, SameSeats, Kept
<1>4. EndTurn(g) = IF AllDone(k) THEN ResolveRound(k) ELSE k
  BY DEF EndTurn
<1> HIDE DEF k
<1>5. InCycle(k)
  BY <1>2, <1>3, SameIsSound DEF Keeps, InCycle, Typed, RanksKnown, Kept
<1>6. Even(k) /\ Settles(g, k)
  <2>1. TiedPlay(k)
    BY <1>3 DEF InCycle, TiedPlay
  <2>2. PlayPhase(k) = PlayPhase(g)
    BY <1>3 DEF PlayPhase
  <2>3. Contested(g)
    BY DEF Contested, InCycle, InPlay
  <2>4. Even(k)
    BY <1>3, <2>1, <2>2, KeptEven
  <2>5. Settles(g, k)
    BY <1>3, <2>3, KeptSettles
  <2> QED BY <2>4, <2>5
<1>7. AllDone(k) => Even(ResolveRound(k)) /\ Settles(k, ResolveRound(k))
  BY <1>5, <1>6, ResolveRoundEven
<1>8. ASSUME NEW h, Settles(k, h)
      PROVE  Settles(g, h)
  BY <1>3, <1>8 DEF Settles, Transferred, FromBank, FromWinner, Kept, SameSeats
<1> QED BY <1>4, <1>6, <1>7, <1>8

----------------------------------------------------------------------------
(* Throws, joins and the opening.                                          *)

\* h differs from g in neither seats, chips, scores, phase nor tiebreak.
Idle(g, h) ==
  SameSeats(g, h) /\ Kept(g, h) /\ h.phase = g.phase /\ h.tiebreak = g.tiebreak

\* Such a step keeps the table even.
LEMMA IdleEven ==
  ASSUME NEW g, Even(g), NEW h, Idle(g, h)
  PROVE  Even(h)
<1>1. PlayPhase(h) = PlayPhase(g)
  BY DEF Idle, PlayPhase
<1>2. Active(h) = Active(g)
  BY DEF Idle, SameSeats, Active, Seated
<1>3. TiedPlay(h)
  BY <1>2 DEF Even, TiedPlay, Idle
<1> QED BY <1>1, <1>3, KeptEven DEF Idle

\* A throw, a validation and a queued rule touch no seat and no chip.
LEMMA ThrowIdle ==
  ASSUME NEW g \in Game, NEW p, NEW rank, NEW rule
  PROVE  Idle(g, Throw(g, p, rank)) /\ Idle(g, Validate(g, p)) /\ Idle(g, QueueRule(g, rule))
<1> DEFINE t == Throw(g, p, rank).turn
           c == Throw(g, p, rank).max_throws
           v == Validate(g, p).turn
           d == Validate(g, p).max_throws
<1>1. Throw(g, p, rank) = [g EXCEPT !.turn = t, !.max_throws = c]
  BY DEF Throw, Game
<1>2. Validate(g, p) = [g EXCEPT !.turn = v, !.max_throws = d]
  BY DEF Validate, Game
<1> HIDE DEF t, c, v, d
<1>3. Idle(g, Throw(g, p, rank)) /\ Idle(g, Validate(g, p))
  BY <1>1, <1>2 DEF Idle, SameSeats, Kept, Game
<1> QED BY <1>3 DEF QueueRule, Idle, SameSeats, Kept, Game

\* The hand of a tiebreak passes among the tied players.
LEMMA ThrowTiebreakEven ==
  ASSUME NEW g, Typed(g), Even(g), NEW p \in Player, MayThrowTiebreak(g, p), NEW rank \in Rank
  PROVE  LET h == ThrowTiebreak(g, p, rank)
         IN  Even(h) /\ SameSeats(g, h) /\ Kept(g, h)
<1> DEFINE tb == g.tiebreak
           at == Smallest({k \in DOMAIN tb.order : tb.order[k] = p})
           hand == FirstTied(tb.order, tb.tied, at + 1)
           throws == [tb.throws EXCEPT ![p] = rank]
           next == [tb EXCEPT !.throws = throws, !.next_pid = hand]
           h == ThrowTiebreak(g, p, rank)
<1>1. /\ tb \in Tiebreak /\ g \in Game /\ g.phase = "tiebreak" /\ tb.next_pid = p
      /\ tb.order \in Seq(Player) /\ tb.throws \in [Player -> Rank \cup {0}]
  BY DEF Typed, Game, Tiebreak, MayThrowTiebreak
<1>2. h = [g EXCEPT !.tiebreak = next]
  <2>1. h = [g EXCEPT !.tiebreak.throws[p] = rank, !.tiebreak.next_pid = hand]
    BY DEF ThrowTiebreak
  <2> HIDE DEF hand, h
  <2> QED BY <1>1, <2>1 DEF Game
<1>3. p \in tb.tied
  BY <1>1, PlayerAssumption DEF Even, TiedPlay
<1>4. hand \in tb.tied \cup {NoPlayer}
  <2> HIDE DEF at
  <2> QED BY <1>1, FirstTiedType
<1>5. \A q \in Player : q \notin tb.tied => throws[q] = 0
  BY <1>1, <1>3 DEF Even, TiedPlay
<1>6. /\ next.tied = tb.tied /\ next.original_winner_id = tb.original_winner_id
      /\ next.return_phase = tb.return_phase /\ next.next_pid = hand /\ next.throws = throws
      /\ next.penalty = tb.penalty
  <2> HIDE DEF tb, throws, hand
  <2> QED BY <1>1 DEF Tiebreak
<1> HIDE DEF next, throws, hand, h
<1>7. SameSeats(g, h) /\ Kept(g, h) /\ h.phase = "tiebreak" /\ h.tiebreak = next
  BY <1>1, <1>2 DEF SameSeats, Kept, Game
<1>8. Active(h) = Active(g)
  BY <1>7 DEF SameSeats, Active, Seated
<1>9. TiedPlay(h)
  BY <1>1, <1>4, <1>5, <1>6, <1>7, <1>8 DEF Even, TiedPlay
<1>10. PlayPhase(h) = PlayPhase(g)
  BY <1>1, <1>6, <1>7 DEF PlayPhase
<1>11. Even(h)
  BY <1>1, <1>7, <1>9, <1>10, KeptEven
<1> QED BY <1>7, <1>11 DEF h

\* The match Match.tla sees is the same in g and h.
SameMatch(g, h) ==
  /\ Kept(g, h) /\ h.match_losses = g.match_losses /\ h.round_points = g.round_points

\* A newcomer brings no chips: before the first match nobody has any, and
\* afterwards it waits for the next one.
LEMMA JoinGameEven ==
  ASSUME NEW g \in Game, Even(g), NEW p \in Player, MayJoin(g, p)
  PROVE  Even(JoinGame(g, p)) /\ SameMatch(g, JoinGame(g, p))
<1> DEFINE opening == g.phase \in {"waiting", "initial_roll"}
           seats == Append(g.players, p)
           queue == Append(g.waiting_players, p)
           h == JoinGame(g, p)
<1>1. /\ g.players \in Seq(Player) /\ g.waiting_players \in Seq(Player)
      /\ p \notin Members(g.players) /\ p \notin Members(g.waiting_players)
  BY DEF Game, MayJoin, Known, Seated
<1>2. /\ Once(seats) /\ Members(seats) = Members(g.players) \cup {p}
      /\ Once(queue) /\ Members(queue) = Members(g.waiting_players) \cup {p}
  BY <1>1, OnceAppend DEF Even, Apart
<1>3. Len(seats) = Len(g.players) + 1 /\ Len(g.players) \in Nat
  BY <1>1
<1>4. /\ SameMatch(g, h) /\ h.phase = g.phase /\ h.tiebreak = g.tiebreak
      /\ h.out_of_match = g.out_of_match
      /\ opening => h.players = seats /\ h.waiting_players = g.waiting_players
      /\ ~opening => h.players = g.players /\ h.waiting_players = queue
  <2> HIDE DEF seats, queue
  <2> QED BY DEF JoinGame, SameMatch, Kept, Game, seats, queue
<1> HIDE DEF h, seats, queue
<1>5. CASE opening
  <2>1. Seated(h) = Seated(g) \cup {p} /\ Seated(g) = Members(g.players)
    BY <1>2, <1>4, <1>5 DEF Seated
  <2>2. Apart(h)
    BY <1>1, <1>2, <1>4, <1>5, <2>1 DEF Even, Apart, SameMatch, Kept
  <2>3. Opening(h)
    BY <1>3, <1>4, <1>5 DEF Even, Opening, SameMatch, Kept
  <2>4. ~(h.phase \in InPlay) /\ h.phase # "tiebreak"
    BY <1>4, <1>5 DEF InPlay
  <2> QED BY <1>4, <2>2, <2>3, <2>4
          DEF Even, Shared, TiedPlay, ConservesChips, DuelGoesOn, h
<1>6. CASE ~opening
  <2>1. Seated(h) = Seated(g) /\ Active(h) = Active(g) /\ PlayPhase(h) = PlayPhase(g)
    BY <1>4, <1>6 DEF Seated, Active, PlayPhase
  <2>2. Apart(h)
    BY <1>1, <1>2, <1>4, <1>6, <2>1 DEF Even, Apart, SameMatch, Kept, Seated
  <2>3. Opening(h) /\ Shared(h) /\ TiedPlay(h) /\ ConservesChips(h) /\ DuelGoesOn(h)
    BY <1>4, <1>6, <2>1
       DEF Even, Opening, Shared, SitOutEmpty, TiedPlay, ConservesChips, DuelGoesOn, SameMatch, Kept
  <2> QED BY <1>4, <2>2, <2>3 DEF Even, h
<1> QED BY <1>5, <1>6

\* The opening roll deals no chips.
LEMMA StartInitialRollEven ==
  ASSUME NEW g \in Game, Even(g), g.phase = "waiting", Len(g.players) >= 2
  PROVE  Even(StartInitialRoll(g)) /\ SameMatch(g, StartInitialRoll(g))
<1> DEFINE rolls == [p \in Player |-> IF p \in Seated(g) THEN Unrolled ELSE Unasked]
           h == [g EXCEPT !.phase = "initial_roll", !.initial_rolls = rolls]
<1>1. StartInitialRoll(g) = h
  BY DEF StartInitialRoll
<1> HIDE DEF rolls
<1>2. SameSeats(g, h) /\ Kept(g, h) /\ h.phase = "initial_roll"
  BY DEF SameSeats, Kept, Game
<1> HIDE DEF h
<1>3. Seated(h) = Seated(g)
  BY <1>2 DEF SameSeats, Seated
<1>4. Apart(h) /\ Opening(h)
  BY <1>2, <1>3 DEF Even, Apart, Opening, SameSeats, Kept
<1>5. Even(h)
  BY <1>2, <1>4 DEF Even, Shared, TiedPlay, ConservesChips, DuelGoesOn, InPlay
<1> QED BY <1>1, <1>2, <1>5 DEF SameMatch, SameSeats

\* The seating by initial roll seats nobody twice.
LEMMA SeatingsAreOnce ==
  ASSUME NEW g \in Game, NEW s \in SortedSeatings(g)
  PROVE  /\ s \in Seq(Player) /\ Len(s) = Len(g.players) /\ Once(s)
         /\ Members(s) \subseteq Seated(g)
<1> DEFINE n == Len(g.players)
           roll(p) == g.initial_rolls[p]
           before(p, q) == \/ roll(p) < roll(q)
                           \/ roll(p) = roll(q) /\ IndexOf(g, p) < IndexOf(g, q)
<1>1. g.players \in Seq(Player) /\ n \in Nat /\ DOMAIN g.players = 1..n
  <2>1. g.players \in Seq(Player)
    BY DEF Game
  <2> QED BY <2>1
<1>2. Seated(g) \subseteq Player
  BY <1>1 DEF Seated, Members
<1>3. /\ s \in [1..n -> Seated(g)]
      /\ \A i, j \in 1..n : i < j => before(s[i], s[j])
  BY <1>1, Zenon DEF SortedSeatings
<1>4. s \in Seq(Player) /\ Len(s) = n /\ DOMAIN s = 1..n
  <2> HIDE DEF n
  <2> QED BY <1>1, <1>2, <1>3
<1>5. \A p \in Seated(g) : ~before(p, p)
  <2> SUFFICES ASSUME NEW p \in Seated(g)
               PROVE  ~before(p, p)
    OBVIOUS
  <2>1. roll(p) \in Int
    <3>1. g.initial_rolls[p] \in Die \cup {Unasked, Unrolled}
      BY <1>2 DEF Game
    <3>2. Die \subseteq Int /\ Unasked \in Int /\ Unrolled \in Int
      BY DiceAssumption DEF Unasked, Unrolled
    <3> QED BY <3>1, <3>2
  <2>2. IndexOf(g, p) \in Int
    BY IndexOrZeroType DEF IndexOrZero
  <2> QED BY <2>1, <2>2
<1>6. Once(s)
  <2> SUFFICES ASSUME NEW i \in 1..n, NEW j \in 1..n, s[i] = s[j]
               PROVE  i = j
    BY <1>4 DEF Once
  <2>1. s[i] \in Seated(g)
    BY <1>3
  <2>2. ~(i < j) /\ ~(j < i)
    <3> HIDE DEF before
    <3> QED BY <1>3, <1>5, <2>1
  <2> QED BY <1>1, <2>2
<1>7. Members(s) \subseteq Seated(g)
  BY <1>3, <1>4 DEF Members
<1> QED BY <1>4, <1>6, <1>7

\* The last initial roll deals the chips of the first match.
LEMMA RollInitialEven ==
  ASSUME NEW g, Typed(g), Even(g), g.phase = "initial_roll", NEW p \in Player, NEW d \in Die,
         NEW h \in RollInitial(g, p, d)
  PROVE  Even(h) /\ SameMatch(g, h)
<1> DEFINE shown == [g.initial_rolls EXCEPT ![p] = d]
           k == [g EXCEPT !.initial_rolls = shown]
           lowest == {q \in Seated(k) : \A r \in Seated(k) : k.initial_rolls[q] <= k.initial_rolls[r]}
           again == [q \in Player |-> IF q \in lowest THEN Unrolled ELSE k.initial_rolls[q]]
<1>1. g \in Game
  BY DEF Typed
<1>2. [g EXCEPT !.initial_rolls[p] = d] = k
  BY <1>1 DEF Game
<1>3. h = k \/ h \in FinalizeOrder(k)
  BY <1>2 DEF RollInitial
<1>4. \/ h = k \/ h = [k EXCEPT !.initial_rolls = again]
      \/ \E s \in SortedSeatings(k) : h = DoStart([k EXCEPT !.players = s])
  BY <1>3 DEF FinalizeOrder
<1>5. CASE h = k \/ h = [k EXCEPT !.initial_rolls = again]
  <2> HIDE DEF shown, again, lowest
  <2>1. Idle(g, h)
    BY <1>1, <1>5 DEF Idle, SameSeats, Kept, Game
  <2> QED BY <2>1, IdleEven DEF Idle, SameMatch, SameSeats
<1>6. ASSUME NEW s \in SortedSeatings(k), h = DoStart([k EXCEPT !.players = s])
      PROVE  Even(h) /\ SameMatch(g, h)
  <2> DEFINE t == [k EXCEPT !.players = s]
             n == DoStart(t)
  <2>1. k \in Game
    <3>1. shown \in [Player -> Die \cup {Unasked, Unrolled}]
      BY <1>1 DEF Game
    <3> HIDE DEF shown
    <3> QED BY <1>1, <3>1 DEF Game
  <2>2. Idle(g, k)
    <3> HIDE DEF shown
    <3> QED BY <1>1 DEF Idle, SameSeats, Kept, Game
  <2> HIDE DEF k
  <2>3. /\ s \in Seq(Player) /\ Len(s) = Len(k.players) /\ Once(s)
        /\ Members(s) \subseteq Seated(k)
    BY <2>1, SeatingsAreOnce
  <2>4. /\ t \in Game /\ t.players = s /\ t.waiting_players = k.waiting_players
        /\ t.tokens = k.tokens /\ t.match_losses = k.match_losses
        /\ t.round_points = k.round_points
    BY <2>1, <2>3 DEF Game
  <2> HIDE DEF t
  <2>5. /\ n.players = s /\ n.waiting_players = g.waiting_players
        /\ n.tokens = NoChips(t) /\ n.pool = Chips /\ n.phase = "charge"
        /\ n.match_losses = g.match_losses /\ n.round_points = g.round_points
        /\ n.out_of_match = {}
    BY <2>2, <2>4, DoStartWrites DEF Idle, SameSeats
  <2>6. /\ \A q \in Player : g.tokens[q] = 0 /\ g.match_losses[q] = 0
        /\ g.pool = Chips /\ Len(g.players) >= 2 /\ g.tokens = Nobody
    <3>1. g.tokens \in [Player -> Nat]
      BY <1>1 DEF Game
    <3> QED BY <3>1 DEF Even, Opening, Nobody
  <2>7. n.tokens = Nobody
    <3>1. t.tokens = g.tokens
      BY <2>2, <2>4 DEF Idle, Kept
    <3> QED BY <2>4, <2>5, <2>6, <3>1, NoChipsIsNobody
  <2>8. n \in Game
    <3>1. Typed(n)
      <4>1. Typed(k)
        BY <1>1, <1>2, <2>1 DEF Typed, RanksKnown, k
      <4>2. Typed(t)
        BY <2>4, <4>1 DEF Typed, RanksKnown, t
      <4>3. t.players # <<>>
        BY <2>2, <2>3, <2>4, <2>6 DEF Idle, SameSeats
      <4> QED BY <4>2, <4>3, DoStartType
    <3> QED BY <3>1 DEF Typed
  <2> HIDE DEF n
  <2>9. /\ Once(n.players) /\ Once(n.waiting_players) /\ Len(n.players) >= 2
        /\ Members(n.waiting_players) \cap Seated(n) = {}
    <3>1. Seated(n) \subseteq Seated(g)
      BY <2>2, <2>3, <2>5 DEF Seated, Idle, SameSeats
    <3> QED BY <2>2, <2>3, <2>5, <2>6, <3>1 DEF Even, Apart, Idle, SameSeats
  <2>10. Even(n)
    BY <2>5, <2>6, <2>7, <2>8, <2>9, FreshMatchEven
  <2> QED BY <1>6, <2>5, <2>6, <2>7, <2>10 DEF n, t, SameMatch, Kept
<1> QED BY <1>4, <1>5, <1>6

\* _start_new_partie deals the chips of a new partie: nothing of the last one
\* is left.
LEMMA StartNewPartieEven ==
  ASSUME NEW g, Typed(g), Even(g), g.phase = "finished"
  PROVE  LET h == StartNewPartie(g)
         IN  /\ Even(h) /\ h.pool = Chips /\ h.tokens = Nobody
             /\ h.match_losses = Nobody /\ h.round_points = Nobody
<1> DEFINE h == StartNewPartie(g)
<1>1. h \in Game
  BY StartNewPartieType DEF Typed
<1>2. /\ h.players = g.players /\ h.waiting_players = g.waiting_players
      /\ h.tokens = NoChips(g) /\ h.pool = Chips /\ h.phase = "charge"
      /\ h.match_losses = Nobody /\ h.round_points = Nobody /\ h.out_of_match = {}
  BY StartNewPartieWrites DEF Typed
<1> HIDE DEF h
<1>3. Seated(h) = Seated(g)
  BY <1>2 DEF Seated
<1>4. h.tokens = Nobody
  BY <1>2, NoChipsIsNobody DEF Even, Apart, Typed
<1>5. Even(h)
  BY <1>1, <1>2, <1>3, <1>4, FreshMatchEven DEF Even, Apart, Opening, Nobody
<1> QED BY <1>2, <1>4, <1>5 DEF h

----------------------------------------------------------------------------
(* What a step does to a match.                                            *)

\* What a step may do to a match: nothing, a new partie, a settled cycle.
NewPartie(g, h) ==
  /\ \E p \in Player : g.round_points[p] = PointsToLose
  /\ h.pool = Chips /\ h.tokens = Nobody /\ h.match_losses = Nobody /\ h.round_points = Nobody
MatchStep(g, h) ==
  \/ SameMatch(g, h)
  \/ NewPartie(g, h)
  \/ Contested(g) /\ Settles(g, h)

\* The score of a cycle does not depend on how the hand went.
LEMMA SameMatchSettles ==
  ASSUME NEW f, NEW g, SameMatch(f, g), NEW h, Settles(g, h)
  PROVE  Settles(f, h)
<1>1. PICK k : Transferred(g, k) /\ Scores(k, h)
  BY DEF Settles
<1>2. Transferred(f, k)
  BY <1>1 DEF Transferred, SameMatch, Kept, FromBank, FromWinner
<1> QED BY <1>1, <1>2 DEF Settles

----------------------------------------------------------------------------
(***************************************************************************)
(* What the engine does about whose turn it is, for any players, throws    *)
(* and combinations: the starter of a cycle leads it and caps its throws,  *)
(* the player the table waits for can act, and who takes chips opens the   *)
(* next cycle.                                                             *)
(*                                                                         *)
(* The invariant says how far the cycle is.  Counted from the seat of the  *)
(* starter, some d places on sits the player whose hand it is; the active  *)
(* players before it have validated, those behind it have not thrown.  In  *)
(* a tiebreak the same holds of its order, which names nobody twice.       *)
(***************************************************************************)

----------------------------------------------------------------------------
(* Counting round the table.                                               *)

\* A multiple of n that lies between -n and n is none.
LEMMA SmallMultiple ==
  ASSUME NEW n \in Nat \ {0}, NEW q \in Int, n * q < n, 0 - n < n * q
  PROVE  q = 0
<1>1. CASE q >= 1
  <2>1. n * q >= n
    BY <1>1
  <2> QED BY <2>1
<1>2. CASE q <= -1
  <2>1. n * q <= 0 - n
    BY <1>2
  <2> QED BY <2>1
<1> QED BY <1>1, <1>2

\* Two places less than a turn of the table apart are one place, when they
\* are the same seat.
LEMMA ModApart ==
  ASSUME NEW n \in Nat \ {0}, NEW a \in Int, NEW b \in Int,
         a - b < n, b - a < n, a % n = b % n
  PROVE  a = b
<1> DEFINE i == a \div n
           j == b \div n
           r == a % n
<1>1. a = n * i + r /\ i \in Int /\ b = n * j + r /\ j \in Int /\ r \in Int
  BY DivMod, ModRange
<1> HIDE DEF i, j, r
<1>2. a - b = n * (i - j) /\ b - a = 0 - n * (i - j) /\ i - j \in Int
  BY <1>1
<1>3. i - j = 0
  <2> DEFINE q == i - j
  <2>1. q \in Int /\ n * q < n /\ 0 - n < n * q
    BY <1>2
  <2> HIDE DEF q
  <2>2. q = 0
    BY <2>1, SmallMultiple
  <2> QED BY <2>2 DEF q
<1> QED BY <1>1, <1>3

\* A count may be reduced to a seat on the way.
LEMMA ModAdd ==
  ASSUME NEW n \in Nat \ {0}, NEW a \in Int, NEW k \in Int
  PROVE  ((a % n) + k) % n = (a + k) % n
<1> DEFINE r == a % n
           i == a \div n
           b == r + k
           t == b % n
           j == b \div n
<1>1. a = n * i + r /\ i \in Int /\ r \in Int
  BY DivMod, ModRange
<1>2. b \in Int /\ b = r + k
  BY <1>1
<1> HIDE DEF r, i
<1>3. b = n * j + t /\ j \in Int /\ t \in 0..(n - 1)
  <2> HIDE DEF b
  <2> QED BY <1>2, DivMod, ModRange
<1> HIDE DEF b, t, j
<1>4. a + k = t + n * (i + j) /\ i + j \in Int
  BY <1>1, <1>2, <1>3
<1>5. (a + k) % n = t
  <2> DEFINE q == i + j
  <2>1. q \in Int /\ a + k = t + n * q
    BY <1>4
  <2> HIDE DEF q
  <2>2. (t + n * q) % n = t
    BY <1>3, <2>1, ModShift
  <2> QED BY <2>1, <2>2
<1> QED BY <1>5 DEF t, b, r

\* A turn of the table, counted from any place, comes by every seat.
LEMMA ModTurn ==
  ASSUME NEW n \in Nat \ {0}, NEW c \in Nat, NEW r \in 0..(n - 1)
  PROVE  \E k \in 0..(n - 1) : (c + k) % n = r
<1>1. Reaches(n, c, 0, r)
  BY ModReach
<1> QED BY <1>1 DEF Reaches

\* Who sits at the table is a player.
LEMMA SeatedArePlayers ==
  ASSUME NEW g \in Game
  PROVE  Seated(g) \subseteq Player
<1>1. g.players \in Seq(Player)
  BY DEF Game
<1> QED BY <1>1 DEF Seated, Members

\* Fewer than a turn of the table apart, nobody sits twice.
LEMMA SeatsDiffer ==
  ASSUME NEW g \in Game, Once(g.players), g.players # <<>>, NEW s \in Int,
         NEW j \in 0..(Len(g.players) - 1), NEW k \in 0..(Len(g.players) - 1),
         SeatAt(g, s + j) = SeatAt(g, s + k)
  PROVE  j = k
<1> DEFINE n == Len(g.players)
           a == s + j
           b == s + k
<1>1. g.players \in Seq(Player) /\ n \in Nat \ {0} /\ DOMAIN g.players = 1..n
  BY DEF Game
<1>2. a \in Int /\ b \in Int /\ a - b < n /\ b - a < n
  BY <1>1
<1>3. g.players[(a % n) + 1] = g.players[(b % n) + 1]
  BY DEF SeatAt
<1> HIDE DEF n, a, b
<1>4. a % n \in 0..(n - 1) /\ b % n \in 0..(n - 1)
  BY <1>1, <1>2, ModRange
<1>5. (a % n) + 1 \in 1..n /\ (b % n) + 1 \in 1..n
  BY <1>1, <1>4
<1>6. (a % n) + 1 = (b % n) + 1
  BY <1>1, <1>3, <1>5 DEF Once
<1>7. a % n = b % n
  BY <1>4, <1>6
<1>8. a = b
  BY <1>1, <1>2, <1>7, ModApart
<1> QED BY <1>8 DEF a, b

\* A turn of the table visits everybody.
LEMMA SeatsReached ==
  ASSUME NEW g \in Game, NEW p \in Seated(g), NEW s \in Nat
  PROVE  \E k \in 0..(Len(g.players) - 1) : SeatAt(g, s + k) = p
<1> DEFINE n == Len(g.players)
<1>1. g.players \in Seq(Player)
  BY DEF Game
<1>2. PICK i \in 1..n : g.players[i] = p
  BY <1>1 DEF Seated, Members
<1>3. n \in Nat \ {0} /\ i - 1 \in 0..(n - 1) /\ i \in Nat
  BY <1>1, <1>2
<1>4. PICK k \in 0..(n - 1) : (s + k) % n = i - 1
  <2> HIDE DEF n
  <2>1. \A r \in 0..(n - 1) : \E k \in 0..(n - 1) : (s + k) % n = r
    BY <1>3, ModTurn, Zenon
  <2> QED BY <1>3, <2>1
<1>5. ((s + k) % n) + 1 = i
  <2> HIDE DEF n
  <2> QED BY <1>3, <1>4
<1>6. SeatAt(g, s + k) = g.players[((s + k) % n) + 1]
  BY DEF SeatAt
<1> QED BY <1>2, <1>4, <1>5, <1>6

\* The seat looked up for a seated player is its seat.
LEMMA IndexIsSeat ==
  ASSUME NEW g \in Game, NEW p \in Seated(g)
  PROVE  /\ IndexOrZero(g, p) \in 0..(Len(g.players) - 1)
         /\ SeatAt(g, IndexOrZero(g, p)) = p
<1> DEFINE n == Len(g.players)
           S == {i \in 0..(n - 1) : g.players[i + 1] = p}
<1>1. g.players \in Seq(Player) /\ n \in Nat
  BY DEF Game
<1>2. PICK i \in 1..n : g.players[i] = p
  BY <1>1 DEF Seated, Members
<1>3. i - 1 \in S /\ S \in SUBSET Nat
  BY <1>1, <1>2
<1>4. Smallest(S) \in S
  <2> HIDE DEF S
  <2> QED BY <1>3, SmallestIn
<1>5. IndexOrZero(g, p) = Smallest(S)
  BY DEF IndexOrZero, IndexOf
<1>6. IndexOrZero(g, p) \in 0..(n - 1) /\ g.players[IndexOrZero(g, p) + 1] = p
  BY <1>4, <1>5
<1> DEFINE x == IndexOrZero(g, p)
<1> HIDE DEF x, n
<1>7. x \in 0..(n - 1) /\ n \in Nat
  BY <1>1, <1>6 DEF x
<1>8. x % n = x
  BY <1>7
<1> QED BY <1>6, <1>8 DEF x, n, SeatAt

\* The active player at the index is the one whose hand it is.
LEMMA HandIsAtIndex ==
  ASSUME NEW g \in Game, SeatAt(g, g.current_index) \in Active(g)
  PROVE  CurrentPlayer(g) = SeatAt(g, g.current_index)
<1> DEFINE n == Len(g.players)
           S == {k \in 0..(0 + n - 1) : SeatAt(g, g.current_index + k) \notin g.out_of_match}
<1>1. g.players \in Seq(Player) /\ g.current_index \in Nat /\ n \in Nat
  BY DEF Game
<1>2. Active(g) # {} /\ SeatAt(g, g.current_index) \notin g.out_of_match
  BY DEF Active
<1>3. n # 0
  BY <1>1, <1>2 DEF Active, Seated, Members
<1>4. 0 \in S /\ S \in SUBSET Nat
  BY <1>1, <1>2, <1>3
<1>5. Smallest(S) = 0
  <2> HIDE DEF S
  <2>1. Smallest(S) \in Nat /\ Smallest(S) <= 0
    BY <1>4, SmallestIn
  <2> QED BY <2>1
<1>6. StepsToActive(g, 0) = 0
  BY <1>5 DEF StepsToActive
<1> QED BY <1>1, <1>2, <1>6 DEF CurrentPlayer

\* The order of a tiebreak names everybody once.
LEMMA ReversePlayOrderIsOnce ==
  ASSUME NEW g \in Game, Once(g.players), g.players # <<>>
  PROVE  Once(ReversePlayOrder(g)) /\ Members(ReversePlayOrder(g)) = Seated(g)
<1> DEFINE n == Len(g.players)
           s == IndexOrZero(g, g.round_starter_id)
           order == ReversePlayOrder(g)
<1>1. g.players \in Seq(Player) /\ n \in Nat \ {0}
  BY DEF Game
<1>2. s \in Nat
  BY IndexOrZeroType
<1>3. order = [k \in 1..n |-> SeatAt(g, s + n - k)]
  BY DEF ReversePlayOrder
<1> HIDE DEF s, order
<1>4. \A k \in 1..n : n - k \in 0..(n - 1) /\ s + n - k = s + (n - k)
  BY <1>1, <1>2
<1>5. \A k \in 1..n : order[k] = SeatAt(g, s + (n - k))
  BY <1>3, <1>4
<1>6. DOMAIN order = 1..n
  BY <1>3
<1>7. ASSUME NEW i \in 1..n, NEW j \in 1..n, order[i] = order[j]
      PROVE  i = j
  <2>1. SeatAt(g, s + (n - i)) = SeatAt(g, s + (n - j))
    BY <1>5, <1>7
  <2>2. \A a, b \in 0..(n - 1) : SeatAt(g, s + a) = SeatAt(g, s + b) => a = b
    BY <1>2, SeatsDiffer
  <2>3. n - i = n - j
    <3> HIDE DEF n
    <3> QED BY <1>4, <2>1, <2>2
  <2> QED BY <1>1, <2>3
<1>8. \A k \in 1..n : order[k] \in Seated(g)
  <2> SUFFICES ASSUME NEW k \in 1..n PROVE order[k] \in Seated(g)
    OBVIOUS
  <2>1. s + (n - k) \in Int
    BY <1>1, <1>2
  <2> QED BY <1>5, <2>1, SeatAtIsSeated
<1>9. ASSUME NEW p \in Seated(g)
      PROVE  \E k \in 1..n : order[k] = p
  <2>1. PICK k \in 0..(n - 1) : SeatAt(g, s + k) = p
    BY <1>2, SeatsReached
  <2>2. n - k \in 1..n /\ n - (n - k) = k
    BY <1>1, <2>1
  <2>3. order[n - k] = p
    BY <1>5, <2>1, <2>2
  <2> QED BY <2>2, <2>3
<1> QED BY <1>6, <1>7, <1>8, <1>9 DEF Once, Members, order

----------------------------------------------------------------------------
(* The invariant.                                                          *)

\* p may throw: MayRoll for the player whose hand it is.
Open(g, p) ==
  /\ ~g.turn[p].done /\ g.turn[p].rolls_left > 0
  /\ OneThrow(g) => RollsUsed(g, p) = 0
  /\ p # g.round_starter_id => RollsUsed(g, p) < g.max_throws

\* Nobody has made more throws than the cap, nor any before the starter has
\* validated, and the cap is not above the starter's throws.
Capped(g) ==
  LET s == g.round_starter_id
  IN  /\ g.max_throws \in 1..Throws
      /\ g.turn[s].done => g.max_throws <= RollsUsed(g, s)
      /\ \A q \in Active(g) \ {s} :
           g.turn[q].rolls_left < Throws => g.turn[s].done /\ RollsUsed(g, q) <= g.max_throws

\* The starter sits at s, the hand is d places on; who sits between the two
\* has validated, who sits behind has not thrown.
Round(g, s, d) ==
  /\ SeatAt(g, s) = g.round_starter_id /\ SeatAt(g, s) \in Active(g)
  /\ g.current_index = (s + d) % Len(g.players) /\ SeatAt(g, s + d) \in Active(g)
  /\ \A k \in 0..(Len(g.players) - 1) : SeatAt(g, s + k) \in Active(g) =>
       /\ k < d => g.turn[SeatAt(g, s + k)].done
       /\ d < k => g.turn[SeatAt(g, s + k)] = NewTurn

\* A cycle of a charge or a décharge.  While the handler of the last turn
\* sleeps that turn is done, otherwise it may go on.
Hand(g, held) ==
  /\ Capped(g)
  /\ \E s, d \in 0..(Len(g.players) - 1) :
       /\ Round(g, s, d)
       /\ IF held = "turn" THEN g.turn[SeatAt(g, s + d)].done ELSE Open(g, SeatAt(g, s + d))

\* A tiebreak: from the hand on nobody of the order has thrown; the last
\* throw sends the handler to sleep.
TieHand(g, held) ==
  LET tb == g.tiebreak
  IN  /\ Once(tb.order)
      /\ IF held = "tiebreak" THEN tb.next_pid = NoPlayer /\ Threw(g) # {}
         ELSE \E at \in DOMAIN tb.order :
                /\ tb.next_pid = tb.order[at] /\ tb.order[at] \in tb.tied
                /\ \A k \in DOMAIN tb.order :
                     k >= at /\ tb.order[k] \in tb.tied => tb.throws[tb.order[k]] = 0

Turns(g, held) ==
  /\ g.phase \in {"charge", "decharge"} => Hand(g, held)
  /\ g.phase = "tiebreak" => TieHand(g, held)
  /\ g.phase = "finished" => g.partie_loser_id # NoPlayer

----------------------------------------------------------------------------
(* A cycle begins.                                                         *)

\* The starter opens a fresh cycle.
LEMMA FreshHand ==
  ASSUME NEW g \in Game, g.round_starter_id \in Active(g),
         g.current_index \in 0..(Len(g.players) - 1),
         SeatAt(g, g.current_index) = g.round_starter_id, g.max_throws = Throws,
         \A q \in Active(g) : g.turn[q] = NewTurn
  PROVE  Hand(g, "none") /\ CurrentPlayer(g) = g.round_starter_id
<1> DEFINE n == Len(g.players)
           s == g.current_index
<1>1. g.players \in Seq(Player) /\ n \in Nat /\ s \in 0..(n - 1) /\ s + 0 = s
  BY DEF Game
<1>2. (s + 0) % n = s
  <2> HIDE DEF n, s
  <2> QED BY <1>1
<1>3. /\ NewTurn.done = FALSE /\ NewTurn.rolls_left = Throws
      /\ Throws \in Nat \ {0} /\ Throws - Throws = 0
  BY BoundsAssumption DEF NewTurn
<1>4. Capped(g)
  BY <1>3 DEF Capped
<1>5. Round(g, s, 0)
  <2>1. \A k \in 0..(n - 1) : ~(k < 0)
    BY <1>1
  <2>2. SeatAt(g, s + 0) = g.round_starter_id
    BY <1>1
  <2> HIDE DEF s
  <2> QED BY <1>1, <1>2, <2>1, <2>2 DEF Round, s
<1>6. Open(g, SeatAt(g, s + 0))
  <2>1. SeatAt(g, s + 0) = g.round_starter_id
    BY <1>1
  <2> HIDE DEF s
  <2> QED BY <1>3, <2>1 DEF Open, RollsUsed
<1>7. 0 \in 0..(n - 1)
  BY <1>1
<1>8. CurrentPlayer(g) = g.round_starter_id
  BY HandIsAtIndex
<1> HIDE DEF s, n
<1> QED BY <1>1, <1>4, <1>5, <1>6, <1>7, <1>8 DEF Hand, n

\* The tied players throw in the order of the table, none has thrown yet.
LEMMA EnterTiebreakHand ==
  ASSUME NEW g \in Game, Once(g.players), g.players # <<>>,
         NEW tied \in SUBSET Seated(g), tied # {}, NEW penalty, NEW phase, NEW winner
  PROVE  LET h == EnterTiebreak(g, tied, penalty, phase, winner)
         IN  h.phase = "tiebreak" /\ TieHand(h, "none")
<1> DEFINE order == ReversePlayOrder(g)
           later == {k \in DOMAIN order : k >= 1 /\ order[k] \in tied}
           hand  == FirstTied(order, tied, 1)
           turns == FreshTurns(g, tied)
           clean == [p \in Player |-> 0]
           tb == [order |-> order, tied |-> tied, throws |-> clean, next_pid |-> hand,
                  penalty |-> penalty, return_phase |-> phase, original_winner_id |-> winner]
           h == [g EXCEPT !.phase = "tiebreak", !.turn = turns, !.tiebreak = tb]
<1>1. EnterTiebreak(g, tied, penalty, phase, winner) = h
  BY DEF EnterTiebreak
<1>2. order \in Seq(Player) /\ Once(order) /\ Members(order) = Seated(g)
  BY ReversePlayOrderType, ReversePlayOrderIsOnce
<1>3. /\ tb.order = order /\ tb.tied = tied /\ tb.throws = clean /\ tb.next_pid = hand
      /\ \A p \in Player : clean[p] = 0
  OBVIOUS
<1> HIDE DEF order, tb, clean, turns
<1>4. h.phase = "tiebreak" /\ h.tiebreak = tb
  BY DEF Game
<1>5. later # {} /\ later \in SUBSET Nat
  <2>1. PICK p \in tied : TRUE
    OBVIOUS
  <2>2. PICK k \in DOMAIN order : order[k] = p
    BY <1>2 DEF Members
  <2>3. k >= 1
    BY <1>2
  <2> QED BY <1>2, <2>2, <2>3
<1>6. Smallest(later) \in later
  <2> HIDE DEF later
  <2> QED BY <1>5, SmallestIn
<1>7. hand = order[Smallest(later)]
  BY <1>5 DEF FirstTied
<1> HIDE DEF hand, h
<1>8. PICK at \in DOMAIN order : order[at] \in tied /\ hand = order[at]
  BY <1>6, <1>7
<1>9. \A k \in DOMAIN order : order[k] \in Player
  BY <1>2
<1>10. TieHand(h, "none")
  BY <1>2, <1>3, <1>4, <1>8, <1>9 DEF TieHand
<1> QED BY <1>1, <1>4, <1>10

\* Who takes chips from g to h is the player who opens the cycle of h, or has
\* lost the partie in h.
Takes(g, h) ==
  \A p \in Player :
    h.tokens[p] > g.tokens[p] =>
      \/ h.phase = "finished" /\ h.partie_loser_id = p
      \/ h.round_starter_id = p /\ CurrentPlayer(h) = p

\* After the end of a match its loser opens the next one, unless it has lost
\* the partie.
LEMMA EndMatchHand ==
  ASSUME NEW g, Settled(g), NEW p \in Player, p \in Seated(g)
  PROVE  LET h == EndMatch(g, p)
         IN  \/ h.phase = "finished" /\ h.tokens = g.tokens /\ h.partie_loser_id = p
             \/ h.phase = "charge" /\ h.tokens = Nobody /\ Hand(h, "none")
<1> DEFINE h == EndMatch(g, p)
<1>1. /\ Typed(g) /\ g \in Game /\ Apart(g) /\ Len(g.players) >= 2
      /\ g.players \in Seq(Player) /\ g.waiting_players \in Seq(Player)
  BY DEF Settled, InCycle, Typed, Game
<1>2. MatchEnded(g, p, h) /\ h \in Game
  BY <1>1, EndMatchWrites, EndMatchType DEF Typed
<1> HIDE DEF h
<1>3. CASE PartieLost(g, p)
  BY <1>2, <1>3 DEF MatchEnded, h
<1>4. CASE ~PartieLost(g, p)
  <2>1. /\ h.phase = "charge" /\ h.tokens = Nobody /\ h.out_of_match = {}
        /\ h.max_throws = Throws /\ h.round_starter_id = p
        /\ h.current_index = IndexOrZero(h, p)
        /\ \A q \in Player : q \in Seated(h) => h.turn[q] = NewTurn
        /\ h.players = g.players \o g.waiting_players
    BY <1>2, <1>4 DEF MatchEnded
  <2>2. p \in Seated(h)
    BY <1>1, <2>1, OnceAppended DEF Apart, Seated
  <2>3. Active(h) = Seated(h) /\ Seated(h) \subseteq Player
    BY <1>2, <2>1, SeatedArePlayers DEF Active
  <2>4. h.current_index \in 0..(Len(h.players) - 1) /\ SeatAt(h, h.current_index) = p
    BY <1>2, <2>1, <2>2, IndexIsSeat
  <2>5. Hand(h, "none")
    BY <1>2, <2>1, <2>2, <2>3, <2>4, FreshHand
  <2> QED BY <2>1, <2>5 DEF h
<1> QED BY <1>3, <1>4

\* The loser of a cycle opens the next one.
LEMMA NextCycleHand ==
  ASSUME NEW g, Settled(g), NEW p \in Active(g) \cap Player,
         g.phase = "decharge" => g.tokens[p] > 0
  PROVE  LET h == NextCycle(SitOut(g), p)
         IN  /\ h.phase = g.phase /\ h.tokens = g.tokens /\ Hand(h, "none")
             /\ h.round_starter_id = p /\ CurrentPlayer(h) = p
<1> DEFINE h == NextCycle(SitOut(g), p)
           out == IF g.phase = "decharge"
                  THEN g.out_of_match \cup {q \in Seated(g) : g.tokens[q] = 0}
                  ELSE g.out_of_match
<1>1. /\ g \in Game /\ Typed(g) /\ p # NoPlayer /\ p \in Seated(g) /\ p \notin g.out_of_match
      /\ Seated(g) \subseteq Player
  BY PlayerAssumption, SeatedArePlayers DEF Settled, InCycle, Typed, Active
<1>2. /\ h.players = g.players /\ h.tokens = g.tokens /\ h.phase = g.phase
      /\ h.out_of_match = out /\ h.max_throws = Throws
      /\ h.turn = [q \in Player |-> IF q \notin Seated(g) THEN g.turn[q]
                                    ELSE IF q \in out THEN NoTurn ELSE NewTurn]
      /\ h.round_starter_id = p /\ h.current_index = IndexOrZero(g, p)
  BY <1>1, NextCycleWrites
<1>3. h \in Game
  <2>1. SitOut(g) \in Game /\ SitOut(g).turn = g.turn
    BY <1>1 DEF SitOut, Game
  <2>2. Typed(SitOut(g))
    BY <1>1, <2>1 DEF Typed, RanksKnown
  <2>3. p \in MaybePlayer
    BY DEF MaybePlayer
  <2> QED BY <2>2, <2>3, NextCycleType DEF Typed
<1> HIDE DEF h
<1>4. p \notin out
  BY <1>1
<1> HIDE DEF out
<1>5. Seated(h) = Seated(g) /\ IndexOrZero(h, p) = IndexOrZero(g, p)
  BY <1>2 DEF Seated, IndexOrZero, IndexOf
<1>6. p \in Active(h) /\ \A q \in Active(h) : h.turn[q] = NewTurn
  BY <1>1, <1>2, <1>4, <1>5 DEF Active
<1>7. h.current_index \in 0..(Len(h.players) - 1) /\ SeatAt(h, h.current_index) = p
  BY <1>1, <1>2, <1>3, <1>5, IndexIsSeat
<1>8. Hand(h, "none") /\ CurrentPlayer(h) = p
  BY <1>2, <1>3, <1>6, <1>7, FreshHand
<1> QED BY <1>2, <1>8 DEF h

\* A cycle that was paid for is followed by one its loser opens.
LEMMA FinalizeCycleHand ==
  ASSUME NEW g, NEW loser, NEW k, g.tokens \in [Player -> Nat], Pays(g, loser, k)
  PROVE  LET h == FinalizeCycle(k, loser)
         IN  /\ h.phase \in {"finished", "charge", "decharge"}
             /\ h.phase # "finished" => Hand(h, "none")
             /\ h.phase = "finished" => h.partie_loser_id # NoPlayer
             /\ Takes(g, h)
<1> DEFINE full == {q \in Seated(k) : k.tokens[q] >= Chips}
           h == FinalizeCycle(k, loser)
<1>1. /\ k \in Game /\ Settled(k) /\ loser \in Active(g) \cap Player /\ loser \in Active(k)
      /\ Seated(k) \subseteq Player /\ k.tokens \in [Player -> Nat]
      /\ k.phase \in {"charge", "decharge"} /\ Conserved(k) /\ k.pool \in Nat
      /\ \A q \in Player \ {loser} : k.tokens[q] <= g.tokens[q]
      /\ k.phase = "decharge" => k.tokens[loser] > 0
  <2>1. Settled(k) /\ k \in Game /\ SameSeats(g, k)
    BY DEF Pays, Settled, InCycle, Typed
  <2>2. loser \in Active(g) \cap Player /\ Active(k) = Active(g)
    BY <2>1 DEF Pays, SameSeats, Active, Seated
  <2>3. k.phase \in {"charge", "decharge"} /\ Conserved(k)
    BY <2>1 DEF Settled, InCycle
  <2>4. k.tokens \in [Player -> Nat] /\ k.pool \in Nat
    BY <2>1 DEF Game
  <2> QED BY <2>1, <2>2, <2>3, <2>4, SeatedArePlayers DEF Pays
<1>2. \A q \in Player : k.tokens[q] > g.tokens[q] => q = loser /\ k.tokens[loser] > 0
  BY <1>1
<1>3. CASE full = {}
  <2>1. h = NextCycle(SitOut(k), loser)
    BY <1>3 DEF FinalizeCycle
  <2>2. /\ h.phase = k.phase /\ h.tokens = k.tokens /\ Hand(h, "none")
        /\ h.round_starter_id = loser /\ CurrentPlayer(h) = loser
    BY <1>1, <2>1, NextCycleHand
  <2> HIDE DEF h
  <2>3. Takes(g, h)
    BY <1>2, <2>2 DEF Takes
  <2> QED BY <1>1, <2>2, <2>3 DEF h
<1>4. CASE full # {}
  <2> DEFINE ml == FirstSeated(k, full)
  <2>1. PICK q \in full : TRUE
    BY <1>4
  <2>2. ml \in full \cap Seated(k) /\ ml \in Player
    <3>1. q \in full \cap Seated(k)
      OBVIOUS
    <3> HIDE DEF full
    <3> QED BY <1>1, <3>1, FirstSeatedType
  <2>3. h = EndMatch(k, ml)
    BY <1>4 DEF FinalizeCycle
  <2> HIDE DEF ml, h
  <2>4. \/ h.phase = "finished" /\ h.tokens = k.tokens /\ h.partie_loser_id = ml
        \/ h.phase = "charge" /\ h.tokens = Nobody /\ Hand(h, "none")
    BY <1>1, <2>2, <2>3, EndMatchHand
  <2>5. k.tokens[loser] > 0 => loser = ml
    <3> SUFFICES ASSUME k.tokens[loser] > 0, loser # ml
                 PROVE  FALSE
      OBVIOUS
    <3>1. loser \in Seated(k) /\ ml \in Seated(k) /\ k.tokens[ml] >= Chips
      BY <1>1, <2>2 DEF Active
    <3>2. IsFiniteSet(Seated(k)) /\ \A x \in Seated(k) : k.tokens[x] \in Nat
      BY <1>1, SeatedIsFinite
    <3>3. k.tokens[loser] + k.tokens[ml] <= Total(k.tokens, Seated(k))
      BY <3>1, <3>2, TotalBoundsTwo
    <3>4. Total(k.tokens, Seated(k)) \in Nat
      BY <3>2, TotalIsNat
    <3> QED BY <1>1, <3>1, <3>2, <3>3, <3>4, BoundsAssumption DEF Conserved
  <2>6. Takes(g, h)
    <3>1. \A x \in Player : Nobody[x] = 0 /\ g.tokens[x] \in Nat
      BY DEF Nobody
    <3>2. \A x \in Player : ~(Nobody[x] > g.tokens[x])
      BY <3>1
    <3> QED BY <1>2, <2>4, <2>5, <3>2 DEF Takes
  <2> QED BY <2>2, <2>4, <2>6, PlayerAssumption DEF h
<1> QED BY <1>3, <1>4

\* Where no chip moves, nobody takes one.
LEMMA KeptTakes ==
  ASSUME NEW g \in Game, NEW h, h.tokens = g.tokens \/ h.tokens = Nobody
  PROVE  Takes(g, h)
<1>1. \A p \in Player : g.tokens[p] \in Nat
  BY DEF Game
<1>2. \A p \in Player : ~(h.tokens[p] > g.tokens[p])
  BY <1>1 DEF Nobody
<1> QED BY <1>2 DEF Takes

\* A settled cycle is followed by a cycle the loser opens, by a tiebreak of
\* which nobody has thrown, or by the end of the partie.
LEMMA ResolveRoundHand ==
  ASSUME NEW g, InCycle(g), Even(g), AllDone(g)
  PROVE  Turns(ResolveRound(g), "none") /\ Takes(g, ResolveRound(g))
<1>1. /\ g \in Game /\ Contested(g) /\ PlayPhase(g) = g.phase /\ Once(g.players)
      /\ g.players # <<>> /\ g.tokens \in [Player -> Nat]
  <2>1. Contested(g) /\ PlayPhase(g) = g.phase
    BY DEF InCycle, Contested, InPlay, PlayPhase
  <2>2. g \in Game /\ Apart(g) /\ Len(g.players) >= 2 /\ g.tokens \in [Player -> Nat]
    BY <2>1, ContestedFacts
  <2> QED BY <2>1, <2>2 DEF Apart
<1>2. ASSUME NEW low \in SUBSET (Active(g) \cap Player), NEW winner \in MaybePlayer,
             NEW penalty \in Nat \ {0}, low # {}, winner \notin low
      PROVE  LET h == EnterTiebreak(g, low, penalty, g.phase, winner)
             IN  Turns(h, "none") /\ Takes(g, h)
  <2> DEFINE h == EnterTiebreak(g, low, penalty, g.phase, winner)
  <2>1. low \in SUBSET Seated(g)
    BY DEF Active
  <2>2. h.phase = "tiebreak" /\ TieHand(h, "none")
    BY <1>1, <1>2, <2>1, EnterTiebreakHand
  <2>3. Kept(g, h)
    BY <1>1, <1>2, EnterTiebreakEven
  <2> HIDE DEF h
  <2>4. Takes(g, h)
    BY <1>1, <2>3, KeptTakes DEF Kept
  <2> QED BY <2>2, <2>4 DEF Turns, h
<1>3. ASSUME NEW loser, NEW k, Pays(g, loser, k)
      PROVE  LET h == FinalizeCycle(k, loser) IN Turns(h, "none") /\ Takes(g, h)
  BY <1>1, <1>3, FinalizeCycleHand DEF Turns
<1> QED BY <1>2, <1>3, ResolveRoundPays, Zenon

\* The hold of a tiebreak's last throw ends it: there is a lowest throw.
LEMMA ResolveTiebreakHand ==
  ASSUME NEW g, Typed(g), Sound(g), Even(g), g.phase = "tiebreak", TieHand(g, "tiebreak")
  PROVE  /\ ~TiebreakRaises(g)
         /\ Turns(ResolveTiebreak(g), "none") /\ Takes(g, ResolveTiebreak(g))
<1> DEFINE tb == g.tiebreak
           low == LowestThrows(g)
           again == EnterTiebreak(g, low, tb.penalty, tb.return_phase, tb.original_winner_id)
<1>1. /\ g \in Game /\ Contested(g) /\ tb.return_phase = PlayPhase(g)
      /\ tb.penalty \in Nat \ {0} /\ tb.throws \in [Player -> Rank \cup {0}]
      /\ tb.tied \subseteq Active(g) /\ tb.original_winner_id \notin tb.tied
  BY DEF Contested, InPlay, Typed, PlayPhase, Game, Tiebreak, Even, TiedPlay
<1>2. /\ Once(g.players) /\ g.players # <<>> /\ g.tokens \in [Player -> Nat]
  <2>1. Apart(g) /\ Len(g.players) >= 2 /\ g.tokens \in [Player -> Nat]
    BY <1>1, ContestedFacts
  <2> QED BY <1>1, <2>1 DEF Apart
<1>3. Threw(g) # {} /\ Threw(g) \subseteq Player /\ Threw(g) \subseteq tb.tied
  BY DEF TieHand, Threw, Even, TiedPlay
<1>4. low # {} /\ low \subseteq Threw(g)
  <2> DEFINE f == [p \in Threw(g) |-> tb.throws[p]]
  <2>1. f \in [Threw(g) -> Nat]
    BY <1>1, <1>3 DEF Rank
  <2>2. \E p \in Threw(g) : \A q \in Threw(g) : f[p] <= f[q]
    <3> DEFINE S == Threw(g)
    <3>1. S # {} /\ f \in [S -> Nat]
      BY <1>3, <2>1
    <3> HIDE DEF f, S
    <3>2. \E p \in S : \A q \in S : f[p] <= f[q]
      BY <3>1, LeastExists
    <3> QED BY <3>2 DEF S
  <2> QED BY <2>2 DEF LowestThrows
<1>5. tb # NoTiebreak
  <2>1. \A p \in Player : NoTiebreak.throws[p] = 0
    BY DEF NoTiebreak
  <2> QED BY <1>3, <2>1 DEF Threw
<1>6. ~TiebreakRaises(g)
  <2>1. \A p \in low : p \in Seated(g)
    BY <1>1, <1>3, <1>4 DEF Active
  <2> QED BY <1>3, <2>1 DEF TiebreakRaises
<1>7. Turns(again, "none") /\ Takes(g, again)
  <2>1. low \in SUBSET Seated(g) /\ low \in SUBSET (Active(g) \cap Player)
    BY <1>1, <1>3, <1>4 DEF Active
  <2>2. tb.original_winner_id \notin low
    BY <1>1, <1>3, <1>4
  <2> HIDE DEF low, tb
  <2>3. again.phase = "tiebreak" /\ TieHand(again, "none")
    BY <1>1, <1>2, <1>4, <2>1, EnterTiebreakHand
  <2>4. Kept(g, again)
    BY <1>1, <2>1, <2>2, EnterTiebreakEven
  <2> HIDE DEF again
  <2>5. Takes(g, again)
    BY <1>1, <2>4, KeptTakes DEF Kept
  <2> QED BY <2>3, <2>5 DEF Turns
<1>8. ASSUME NEW loser \in low
      PROVE  LET h == FinalizeCycle(Cleared(g, loser), loser)
             IN  Turns(h, "none") /\ Takes(g, h)
  <2>1. Pays(g, loser, Cleared(g, loser))
    BY TiebreakPays
  <2> QED BY <1>2, <2>1, FinalizeCycleHand DEF Turns
<1> HIDE DEF low, again
<1> QED BY <1>5, <1>6, <1>7, <1>8, ResolveTiebreakCases, Zenon DEF low, again, tb

----------------------------------------------------------------------------
(* The hand passes.                                                        *)

\* Game.advance stops at the next active player.
LEMMA NextActive ==
  ASSUME NEW g \in Game, NEW e \in 1..Len(g.players),
         SeatAt(g, g.current_index + e) \in Active(g)
  PROVE  LET j == StepsToActive(g, 1)
         IN  /\ j \in 1..e /\ SeatAt(g, g.current_index + j) \in Active(g)
             /\ \A i \in 1..(j - 1) : SeatAt(g, g.current_index + i) \notin Active(g)
<1> DEFINE n == Len(g.players)
           c == g.current_index
           S == {k \in 1..(1 + n - 1) : SeatAt(g, c + k) \notin g.out_of_match}
           j == StepsToActive(g, 1)
<1>1. n \in Nat /\ c \in Nat /\ e \in 1..n /\ g.players # <<>> /\ e \in Nat
  <2>1. g.players \in Seq(Player)
    BY DEF Game
  <2> QED BY <2>1 DEF Game
<1>2. e \in S /\ S \in SUBSET Nat
  BY <1>1 DEF Active
<1>3. Smallest(S) \in S /\ \A k \in S : Smallest(S) <= k
  <2> HIDE DEF S
  <2> QED BY <1>2, SmallestIn
<1>4. j = Smallest(S)
  BY DEF StepsToActive
<1> HIDE DEF j
<1>5. j \in S /\ j <= e /\ j \in 1..e
  <2>1. j \in S /\ j <= e
    BY <1>2, <1>3, <1>4
  <2>2. j \in 1..(1 + n - 1)
    BY <2>1
  <2> QED BY <1>1, <2>1, <2>2
<1>6. SeatAt(g, c + j) \in Active(g)
  <2>1. SeatAt(g, c + j) \notin g.out_of_match
    BY <1>5
  <2>2. c + j \in Int
    BY <1>1, <1>5
  <2>3. SeatAt(g, c + j) \in Seated(g)
    BY <1>1, <2>2, SeatAtIsSeated
  <2> QED BY <2>1, <2>3 DEF Active
<1>7. ASSUME NEW i \in 1..(j - 1), SeatAt(g, c + i) \in Active(g)
      PROVE  FALSE
  <2>1. i \in 1..(1 + n - 1) /\ i < j
    BY <1>1, <1>5
  <2>2. i \in S
    BY <1>7, <2>1 DEF Active
  <2>3. j <= i
    BY <1>3, <1>4, <2>2
  <2> HIDE DEF S
  <2> QED BY <1>1, <1>5, <2>1, <2>3
<1> QED BY <1>5, <1>6, <1>7 DEF j

\* The seat some places on from the hand, counted from the starter.
LEMMA SeatFromHand ==
  ASSUME NEW g \in Game, g.players # <<>>, NEW s \in Nat, NEW d \in Nat,
         g.current_index = (s + d) % Len(g.players), NEW i \in Int
  PROVE  /\ SeatAt(g, g.current_index + i) = SeatAt(g, s + (d + i))
         /\ (g.current_index + i) % Len(g.players) = (s + (d + i)) % Len(g.players)
<1> DEFINE n == Len(g.players)
           a == s + d
<1>1. n \in Nat \ {0} /\ a \in Int /\ a + i = s + (d + i)
  BY DEF Game
<1>2. g.current_index = a % n
  OBVIOUS
<1>3. ((a % n) + i) % n = (a + i) % n
  <2> HIDE DEF a, n
  <2> QED BY <1>1, ModAdd
<1> HIDE DEF a
<1> QED BY <1>1, <1>2, <1>3 DEF SeatAt

\* When the hand's turn is over and not every turn is, the hand passes to an
\* active player who has not thrown.
LEMMA AdvanceHand ==
  ASSUME NEW g \in Game, Once(g.players), g.players # <<>>, Hand(g, "turn"), ~AllDone(g)
  PROVE  Hand(Advance(g), "none")
<1> DEFINE n == Len(g.players)
           c == g.current_index
           j == StepsToActive(g, 1)
           h == Advance(g)
<1>1. PICK s \in 0..(n - 1), d \in 0..(n - 1) :
        Round(g, s, d) /\ g.turn[SeatAt(g, s + d)].done
  BY DEF Hand
<1>2. n \in Nat \ {0} /\ c \in Nat /\ s \in Nat /\ d \in Nat /\ c = (s + d) % n
  <2>1. g.players \in Seq(Player) /\ c \in Nat
    BY DEF Game
  <2> QED BY <1>1, <2>1 DEF Round
<1>3. PICK q \in Active(g) : ~g.turn[q].done
  BY DEF AllDone, Active
<1>4. PICK e \in 0..(n - 1) : SeatAt(g, s + e) = q
  <2>1. q \in Seated(g)
    BY DEF Active
  <2> QED BY <1>2, <2>1, SeatsReached
<1>5. d < e
  <2>1. e # d
    BY <1>1, <1>3, <1>4
  <2>2. ~(e < d)
    BY <1>1, <1>3, <1>4 DEF Round
  <2> QED BY <1>2, <2>1, <2>2
<1>6. \A i \in Int : /\ SeatAt(g, c + i) = SeatAt(g, s + (d + i))
                     /\ (c + i) % n = (s + (d + i)) % n
  BY <1>2, SeatFromHand
<1>7. /\ j \in 1..(e - d) /\ SeatAt(g, c + j) \in Active(g)
      /\ \A i \in 1..(j - 1) : SeatAt(g, c + i) \notin Active(g)
  <2>1. e - d \in 1..n /\ e - d \in Int /\ d + (e - d) = e
    BY <1>2, <1>5
  <2>2. SeatAt(g, c + (e - d)) \in Active(g)
    BY <1>3, <1>4, <1>6, <2>1
  <2> HIDE DEF j
  <2> QED BY <2>1, <2>2, NextActive DEF j
<1> DEFINE t == d + j
<1>8. /\ j \in Nat /\ d < t /\ t \in 0..(n - 1) /\ j >= 1
      /\ (c + j) % n = (s + t) % n /\ SeatAt(g, s + t) \in Active(g)
  <2> HIDE DEF j
  <2>1. j \in Nat /\ j \in Int /\ d < d + j /\ d + j \in 0..(n - 1) /\ j >= 1
    BY <1>2, <1>5, <1>7, SMTT(30)
  <2> QED BY <1>6, <1>7, <2>1
<1>9. h = [g EXCEPT !.current_index = (c + j) % n]
  BY <1>3 DEF Advance
<1> HIDE DEF h, j
<1>10. /\ h.players = g.players /\ h.out_of_match = g.out_of_match /\ h.turn = g.turn
       /\ h.round_starter_id = g.round_starter_id /\ h.max_throws = g.max_throws
       /\ h.phase = g.phase /\ h.bank_rule = g.bank_rule /\ h.current_index = (s + t) % n
  BY <1>8, <1>9 DEF Game
<1>11. Active(h) = Active(g) /\ \A k : SeatAt(h, k) = SeatAt(g, k)
  BY <1>10 DEF Active, Seated, SeatAt
<1>12. Capped(h)
  BY <1>10, <1>11 DEF Hand, Capped, RollsUsed
<1>13. ASSUME NEW k \in 0..(n - 1), SeatAt(g, s + k) \in Active(g)
       PROVE  /\ k < t => g.turn[SeatAt(g, s + k)].done
              /\ t < k => g.turn[SeatAt(g, s + k)] = NewTurn
  <2> HIDE DEF n
  <2>1. t < k => d < k
    BY <1>2, <1>8
  <2>2. ASSUME d < k, k < t
        PROVE  FALSE
    <3>1. k - d \in 1..(j - 1) /\ k - d \in Int /\ d + (k - d) = k
      BY <1>2, <1>8, <2>2
    <3> QED BY <1>6, <1>7, <1>13, <3>1
  <2>3. k < t => k < d \/ k = d
    BY <1>2, <1>8, <2>2
  <2> QED BY <1>1, <1>13, <2>1, <2>3 DEF Round, n
<1>14. Round(h, s, t)
  BY <1>1, <1>8, <1>10, <1>11, <1>13 DEF Round
<1>15. g.turn[SeatAt(g, s + t)] = NewTurn
  BY <1>1, <1>8 DEF Round
<1>16. Open(h, SeatAt(h, s + t))
  <2>1. /\ NewTurn.done = FALSE /\ NewTurn.rolls_left = Throws
        /\ Throws \in Nat \ {0} /\ Throws - Throws = 0 /\ h.max_throws \in 1..Throws
    BY <1>12, BoundsAssumption DEF NewTurn, Capped
  <2> QED BY <1>10, <1>11, <1>15, <2>1 DEF Open, RollsUsed
<1> HIDE DEF t
<1>17. Hand(h, "none")
  BY <1>8, <1>10, <1>12, <1>14, <1>16 DEF Hand
<1> QED BY <1>17 DEF h

\* The end of a turn, after its hold.
LEMMA EndTurnHand ==
  ASSUME NEW g, InCycle(g), Even(g), Hand(g, "turn")
  PROVE  Turns(EndTurn(g), "none") /\ Takes(g, EndTurn(g))
<1> DEFINE k == Advance(g)
           index == (g.current_index + StepsToActive(g, 1)) % Len(g.players)
<1>1. k = g \/ k = [g EXCEPT !.current_index = index]
  BY DEF Advance
<1>2. k \in Game /\ g \in Game
  BY AdvanceType DEF InCycle, Typed
<1>3. /\ SameScores(g, k) /\ Idle(g, k) /\ k.turn = g.turn
  <2> HIDE DEF k, index
  <2> QED BY <1>1, <1>2 DEF Game, SameScores, Idle, SameSeats, Kept
<1>4. EndTurn(g) = IF AllDone(k) THEN ResolveRound(k) ELSE k
  BY DEF EndTurn
<1>5. ~AllDone(k) => Hand(k, "none") /\ k.phase \in {"charge", "decharge"}
  <2>1. AllDone(k) <=> AllDone(g)
    BY <1>3 DEF AllDone, Seated, Idle, SameSeats
  <2>2. Once(g.players) /\ g.players # <<>>
    BY DEF Even, Apart, Opening, InCycle
  <2> QED BY <1>2, <1>3, <2>1, <2>2, AdvanceHand DEF InCycle, Idle
<1> HIDE DEF k
<1>6. InCycle(k)
  BY <1>2, <1>3, SameIsSound DEF Keeps, InCycle, Typed, RanksKnown, Idle, Kept
<1>7. Even(k)
  BY <1>3, IdleEven
<1>8. AllDone(k) => Turns(ResolveRound(k), "none") /\ Takes(k, ResolveRound(k))
  BY <1>6, <1>7, ResolveRoundHand
<1>9. Takes(g, k) /\ \A h : Takes(k, h) => Takes(g, h)
  BY <1>2, <1>3, KeptTakes DEF Takes, Idle, Kept
<1> QED BY <1>4, <1>5, <1>8, <1>9 DEF Turns

----------------------------------------------------------------------------
(* A turn goes on.                                                         *)

\* h is g with another turn of p and another cap.
TurnWritten(g, p, h) ==
  /\ h.players = g.players /\ h.out_of_match = g.out_of_match
  /\ h.current_index = g.current_index /\ h.round_starter_id = g.round_starter_id
  /\ h.phase = g.phase /\ h.bank_rule = g.bank_rule
  /\ \A q \in Player \ {p} : h.turn[q] = g.turn[q]

\* What p does with its turn concerns nobody else's place in the cycle.
LEMMA RoundGoesOn ==
  ASSUME NEW g \in Game, Once(g.players), g.players # <<>>,
         NEW s \in 0..(Len(g.players) - 1), NEW d \in 0..(Len(g.players) - 1),
         Round(g, s, d), NEW h, TurnWritten(g, SeatAt(g, s + d), h)
  PROVE  /\ Round(h, s, d) /\ SeatAt(h, s + d) = SeatAt(g, s + d)
         /\ Active(h) = Active(g)
<1> DEFINE n == Len(g.players)
<1>1. n \in Nat \ {0} /\ s \in Int /\ s \in Nat
  <2>1. g.players \in Seq(Player)
    BY DEF Game
  <2> QED BY <2>1
<1>2. Active(h) = Active(g) /\ \A k : SeatAt(h, k) = SeatAt(g, k)
  BY DEF TurnWritten, Active, Seated, SeatAt
<1>3. \A k \in 0..(n - 1) : SeatAt(g, s + k) = SeatAt(g, s + d) => k = d
  BY <1>1, SeatsDiffer
<1>4. ASSUME NEW k \in 0..(n - 1), k # d
      PROVE  h.turn[SeatAt(g, s + k)] = g.turn[SeatAt(g, s + k)]
  <2>1. s + k \in Int
    BY <1>1
  <2>2. SeatAt(g, s + k) \in Player
    BY <2>1, SeatAtIsSeated, SeatedArePlayers
  <2> QED BY <1>3, <1>4, <2>2 DEF TurnWritten
<1>5. \A k \in 0..(n - 1) : (k < d \/ d < k) => k # d
  BY <1>1
<1> QED BY <1>2, <1>4, <1>5 DEF Round, TurnWritten

\* The hand is with the active player the handlers find at the index.
LEMMA RoundHand ==
  ASSUME NEW g \in Game, NEW s \in 0..(Len(g.players) - 1), NEW d \in 0..(Len(g.players) - 1),
         Round(g, s, d)
  PROVE  /\ CurrentPlayer(g) = SeatAt(g, s + d)
         /\ CurrentPlayer(g) \in Active(g) /\ CurrentPlayer(g) \in Player
<1> DEFINE n == Len(g.players)
<1>1. n \in Nat \ {0} /\ g.players # <<>> /\ s \in Nat /\ d \in Nat /\ g.current_index \in Nat
  <2>1. g.players \in Seq(Player) /\ g.current_index \in Nat
    BY DEF Game
  <2> QED BY <2>1
<1>2. SeatAt(g, g.current_index) = SeatAt(g, s + d)
  <2>1. SeatAt(g, g.current_index + 0) = SeatAt(g, s + (d + 0))
    <3>1. g.current_index = (s + d) % Len(g.players) /\ 0 \in Int
      BY DEF Round
    <3> HIDE DEF n
    <3> QED BY <1>1, <3>1, SeatFromHand
  <2>2. g.current_index + 0 = g.current_index /\ d + 0 = d
    BY <1>1
  <2> QED BY <2>1, <2>2
<1>3. CurrentPlayer(g) = SeatAt(g, s + d) /\ CurrentPlayer(g) \in Active(g)
  <2>1. SeatAt(g, g.current_index) \in Active(g)
    BY <1>2 DEF Round
  <2> QED BY <1>2, <2>1, HandIsAtIndex
<1> QED BY <1>3, SeatedArePlayers DEF Active

\* The player whose hand it is, as its handlers find it.
LEMMA HandOf ==
  ASSUME NEW g \in Game, Hand(g, "none")
  PROVE  \E s, d \in 0..(Len(g.players) - 1) :
           /\ Round(g, s, d) /\ Open(g, CurrentPlayer(g))
           /\ CurrentPlayer(g) = SeatAt(g, s + d)
           /\ CurrentPlayer(g) \in Active(g) /\ CurrentPlayer(g) \in Player
           /\ CurrentPlayer(g) # g.round_starter_id => g.turn[g.round_starter_id].done
<1> DEFINE n == Len(g.players)
<1>1. PICK s \in 0..(n - 1), d \in 0..(n - 1) :
        Round(g, s, d) /\ Open(g, SeatAt(g, s + d))
  BY DEF Hand
<1>2. /\ CurrentPlayer(g) = SeatAt(g, s + d)
      /\ CurrentPlayer(g) \in Active(g) /\ CurrentPlayer(g) \in Player
  BY <1>1, RoundHand
<1>3. ASSUME CurrentPlayer(g) # g.round_starter_id
      PROVE  g.turn[g.round_starter_id].done
  <2>1. n \in Nat /\ s + 0 = s /\ 0 \in 0..(n - 1)
    BY SMTT(30) DEF Game
  <2>2. SeatAt(g, s + 0) = g.round_starter_id /\ SeatAt(g, s + 0) \in Active(g)
    BY <1>1, <2>1 DEF Round
  <2>3. d # 0
    BY <1>2, <1>3, <2>2
  <2>4. 0 < d
    BY <2>1, <2>3
  <2> QED BY <1>1, <2>1, <2>2, <2>4 DEF Round
<1> QED BY <1>1, <1>2, <1>3

\* A throw leaves the turn open or ends it, never beyond the cap.
LEMMA ThrowHand ==
  ASSUME NEW g, Typed(g), Once(g.players), g.players # <<>>, Hand(g, "none"),
         NEW p, MayRoll(g, p), NEW rank \in Rank
  PROVE  LET h == Throw(g, p, rank)
         IN  Hand(h, IF h.turn[p].done THEN "turn" ELSE "none")
<1> DEFINE left == g.turn[p].rolls_left - 1
           at_max == \/ left = 0
                     \/ OneThrow(g)
                     \/ p # g.round_starter_id /\ Throws - left >= g.max_throws
           t == [rolls_left |-> left, rank |-> rank, done |-> at_max]
           cap == IF at_max /\ OneThrow(g) /\ p = g.round_starter_id THEN 1 ELSE g.max_throws
           h == Throw(g, p, rank)
           r == g.round_starter_id
<1>1. g \in Game /\ p = CurrentPlayer(g)
  BY DEF Typed, MayRoll
<1>2. PICK s \in 0..(Len(g.players) - 1), d \in 0..(Len(g.players) - 1) :
        /\ Round(g, s, d) /\ Open(g, p) /\ p = SeatAt(g, s + d)
        /\ p \in Active(g) /\ p \in Player /\ (p # r => g.turn[r].done)
  BY <1>1, HandOf
<1>3. /\ g.turn[p].rolls_left \in 0..Throws /\ g.turn[p].rolls_left > 0
      /\ Throws \in Nat \ {0} /\ g.max_throws \in 1..Throws
      /\ left \in Nat /\ left < Throws /\ RollsUsed(g, p) = Throws - (left + 1)
  <2>1. g.turn[p] \in Turn
    <3>1. g.turn \in [Player -> Turn]
      BY <1>1 DEF Game
    <3> QED BY <1>2, <3>1
  <2>2. g.max_throws \in 1..Throws
    BY DEF Hand, Capped
  <2> QED BY <1>2, <2>1, <2>2, BoundsAssumption, SMTT(30) DEF Turn, Open, RollsUsed
<1>4. h = [g EXCEPT !.turn[p] = t, !.max_throws = cap]
  BY <1>1 DEF Throw, Game
<1>5. t.rolls_left = left /\ t.done = at_max
  OBVIOUS
<1> HIDE DEF t, h
<1>6. TurnWritten(g, p, h) /\ h.turn[p] = t /\ h.max_throws = cap
  <2>1. h.turn = [g.turn EXCEPT ![p] = t] /\ h.max_throws = cap
    BY <1>1, <1>4 DEF Game
  <2>2. /\ h.players = g.players /\ h.out_of_match = g.out_of_match
        /\ h.current_index = g.current_index /\ h.round_starter_id = g.round_starter_id
        /\ h.phase = g.phase /\ h.bank_rule = g.bank_rule
    BY <1>1, <1>4 DEF Game
  <2>3. g.turn \in [Player -> Turn]
    BY <1>1 DEF Game
  <2> QED BY <1>2, <2>1, <2>2, <2>3 DEF TurnWritten
<1>7. Round(h, s, d) /\ SeatAt(h, s + d) = p /\ Active(h) = Active(g)
  BY <1>1, <1>2, <1>6, RoundGoesOn
<1>8. OneThrow(h) <=> OneThrow(g)
  BY <1>6 DEF OneThrow, TurnWritten
<1>9. r \in Active(g) /\ r \in Player /\ Active(g) \subseteq Player /\ h.round_starter_id = r
  BY <1>1, <1>2, <1>6, SeatedArePlayers DEF Round, Active, TurnWritten
<1>10. cap \in 1..Throws
  BY <1>3
<1>11. h.turn[r].done => cap <= RollsUsed(h, r)
  <2>1. CASE p = r
    <3>1. RollsUsed(h, r) = Throws - left
      BY <1>5, <1>6, <2>1 DEF RollsUsed
    <3>2. h.turn[r].done => left = 0 \/ OneThrow(g)
      BY <1>5, <1>6, <2>1
    <3>3. h.turn[r].done /\ OneThrow(g) => cap = 1
      BY <1>5, <1>6, <2>1
    <3> HIDE DEF at_max, cap, left
    <3> QED BY <1>3, <1>10, <3>1, <3>2, <3>3
  <2>2. CASE p # r
    <3>1. h.turn[r] = g.turn[r] /\ cap = g.max_throws
      BY <1>6, <1>9, <2>2 DEF TurnWritten
    <3> QED BY <3>1 DEF Hand, Capped, RollsUsed
  <2> QED BY <2>1, <2>2
<1>12. ASSUME NEW q \in Active(g) \ {r}, h.turn[q].rolls_left < Throws
       PROVE  h.turn[r].done /\ RollsUsed(h, q) <= cap
  <2>1. CASE q = p
    <3>1. h.turn[r] = g.turn[r] /\ g.turn[r].done /\ cap = g.max_throws
      BY <1>2, <1>6, <1>9, <2>1 DEF TurnWritten
    <3>2. RollsUsed(h, q) = Throws - left
      BY <1>5, <1>6, <2>1 DEF RollsUsed
    <3>3. Throws - (left + 1) < g.max_throws
      BY <1>2, <1>3, <2>1 DEF Open
    <3> HIDE DEF at_max, cap, left
    <3> QED BY <1>3, <3>1, <3>2, <3>3
  <2>2. CASE q # p
    <3>1. h.turn[q] = g.turn[q]
      BY <1>6, <1>9, <2>2 DEF TurnWritten
    <3>2. g.turn[r].done /\ RollsUsed(g, q) <= g.max_throws
      BY <1>12, <3>1 DEF Hand, Capped
    <3>3. p # r
      BY <1>2, <3>2 DEF Open
    <3>4. h.turn[r] = g.turn[r] /\ cap = g.max_throws
      BY <1>6, <1>9, <3>3 DEF TurnWritten
    <3> QED BY <3>1, <3>2, <3>4 DEF RollsUsed
  <2> QED BY <2>1, <2>2
<1>13. Capped(h)
  BY <1>6, <1>7, <1>9, <1>10, <1>11, <1>12 DEF Capped
<1>14. ~h.turn[p].done => Open(h, p)
  <2>1. RollsUsed(h, p) = Throws - left /\ h.turn[p].rolls_left = left
    BY <1>5, <1>6 DEF RollsUsed
  <2>2. ~h.turn[p].done =>
          left # 0 /\ ~OneThrow(g) /\ (p # r => ~(Throws - left >= g.max_throws)) /\ cap = g.max_throws
    BY <1>5, <1>6
  <2> HIDE DEF at_max, cap, left
  <2> QED BY <1>3, <1>6, <1>8, <1>9, <2>1, <2>2 DEF Open
<1>15. Len(h.players) = Len(g.players)
  BY <1>6 DEF TurnWritten
<1> HIDE DEF cap
<1>16. Hand(h, IF h.turn[p].done THEN "turn" ELSE "none")
  BY <1>7, <1>13, <1>14, <1>15 DEF Hand
<1> QED BY <1>16 DEF h

\* "done" ends the turn; the starter's throws become the cap.
LEMMA ValidateHand ==
  ASSUME NEW g, Typed(g), Once(g.players), g.players # <<>>, Hand(g, "none"),
         NEW p, MayValidate(g, p)
  PROVE  Hand(Validate(g, p), "turn")
<1> DEFINE t == [g.turn[p] EXCEPT !.done = TRUE]
           r == g.round_starter_id
           cap == IF p # r THEN g.max_throws ELSE IF OneThrow(g) THEN 1 ELSE RollsUsed(g, p)
           h == Validate(g, p)
<1>1. g \in Game /\ p = CurrentPlayer(g)
  BY DEF Typed, MayValidate
<1>2. PICK s \in 0..(Len(g.players) - 1), d \in 0..(Len(g.players) - 1) :
        /\ Round(g, s, d) /\ Open(g, p) /\ p = SeatAt(g, s + d)
        /\ p \in Active(g) /\ p \in Player /\ (p # r => g.turn[r].done)
  BY <1>1, HandOf
<1>3. /\ g.turn[p] \in Turn /\ g.turn[p].rolls_left \in 0..(Throws - 1)
      /\ Throws \in Nat \ {0} /\ g.max_throws \in 1..Throws
      /\ RollsUsed(g, p) \in 1..Throws
  <2>1. g.turn[p] \in Turn
    <3>1. g.turn \in [Player -> Turn]
      BY <1>1 DEF Game
    <3> QED BY <1>2, <3>1
  <2>2. g.max_throws \in 1..Throws
    BY DEF Hand, Capped
  <2> QED BY <2>1, <2>2, BoundsAssumption DEF Turn, MayValidate, RollsUsed
<1>4. h = [g EXCEPT !.turn[p] = t, !.max_throws = cap]
  BY <1>1 DEF Validate, Game
<1>5. t.rolls_left = g.turn[p].rolls_left /\ t.done
  BY <1>3 DEF Turn
<1> HIDE DEF t, h
<1>6. TurnWritten(g, p, h) /\ h.turn[p] = t /\ h.max_throws = cap
  <2>1. h.turn = [g.turn EXCEPT ![p] = t] /\ h.max_throws = cap
    BY <1>1, <1>4 DEF Game
  <2>2. /\ h.players = g.players /\ h.out_of_match = g.out_of_match
        /\ h.current_index = g.current_index /\ h.round_starter_id = g.round_starter_id
        /\ h.phase = g.phase /\ h.bank_rule = g.bank_rule
    BY <1>1, <1>4 DEF Game
  <2>3. g.turn \in [Player -> Turn]
    BY <1>1 DEF Game
  <2> QED BY <1>2, <2>1, <2>2, <2>3 DEF TurnWritten
<1>7. Round(h, s, d) /\ SeatAt(h, s + d) = p /\ Active(h) = Active(g)
  BY <1>1, <1>2, <1>6, RoundGoesOn
<1>8. r \in Active(g) /\ r \in Player /\ Active(g) \subseteq Player /\ h.round_starter_id = r
  BY <1>1, <1>2, <1>6, SeatedArePlayers DEF Round, Active, TurnWritten
<1>9. cap \in 1..Throws
  BY <1>3
<1>10. h.turn[r].done => cap <= RollsUsed(h, r)
  <2>1. CASE p = r
    <3>1. RollsUsed(h, r) = RollsUsed(g, p)
      BY <1>5, <1>6, <2>1 DEF RollsUsed
    <3> QED BY <1>3, <2>1, <3>1
  <2>2. CASE p # r
    <3>1. h.turn[r] = g.turn[r] /\ cap = g.max_throws
      BY <1>6, <1>8, <2>2 DEF TurnWritten
    <3> QED BY <3>1 DEF Hand, Capped, RollsUsed
  <2> QED BY <2>1, <2>2
<1>11. ASSUME NEW q \in Active(g) \ {r}, h.turn[q].rolls_left < Throws
       PROVE  h.turn[r].done /\ RollsUsed(h, q) <= cap
  <2>1. h.turn[q].rolls_left = g.turn[q].rolls_left
    BY <1>5, <1>6, <1>8 DEF TurnWritten
  <2>2. g.turn[r].done /\ RollsUsed(g, q) <= g.max_throws
    BY <1>11, <2>1 DEF Hand, Capped
  <2>3. p # r
    BY <1>2, <2>2 DEF Open
  <2>4. h.turn[r] = g.turn[r] /\ cap = g.max_throws
    BY <1>6, <1>8, <2>3 DEF TurnWritten
  <2> QED BY <2>1, <2>2, <2>4 DEF RollsUsed
<1>12. Capped(h)
  BY <1>6, <1>7, <1>8, <1>9, <1>10, <1>11 DEF Capped
<1>13. h.turn[p].done /\ Len(h.players) = Len(g.players)
  BY <1>5, <1>6 DEF TurnWritten
<1> HIDE DEF cap
<1>14. Hand(h, "turn")
  BY <1>7, <1>12, <1>13 DEF Hand
<1> QED BY <1>14 DEF h

\* A tiebreak throw passes the hand to a tied player who has not thrown, or
\* was the last.
LEMMA ThrowTiebreakHand ==
  ASSUME NEW g, Typed(g), TieHand(g, "none"), NEW p \in Player, MayThrowTiebreak(g, p),
         NEW rank \in Rank
  PROVE  LET h == ThrowTiebreak(g, p, rank)
         IN  /\ h.phase = "tiebreak"
             /\ TieHand(h, IF h.tiebreak.next_pid = NoPlayer THEN "tiebreak" ELSE "none")
<1> DEFINE tb == g.tiebreak
           at == Smallest({k \in DOMAIN tb.order : tb.order[k] = p})
           later == {k \in DOMAIN tb.order : k >= at + 1 /\ tb.order[k] \in tb.tied}
           hand == FirstTied(tb.order, tb.tied, at + 1)
           throws == [tb.throws EXCEPT ![p] = rank]
           next == [tb EXCEPT !.throws = throws, !.next_pid = hand]
           h == ThrowTiebreak(g, p, rank)
<1>1. /\ tb \in Tiebreak /\ g \in Game /\ g.phase = "tiebreak" /\ tb.next_pid = p
      /\ tb.order \in Seq(Player) /\ tb.throws \in [Player -> Rank \cup {0}]
      /\ Once(tb.order)
  BY DEF Typed, Game, Tiebreak, MayThrowTiebreak, TieHand
<1>2. h = [g EXCEPT !.tiebreak = next]
  <2>1. h = [g EXCEPT !.tiebreak.throws[p] = rank, !.tiebreak.next_pid = hand]
    BY DEF ThrowTiebreak
  <2> HIDE DEF hand, h
  <2> QED BY <1>1, <2>1 DEF Game
<1>3. /\ next.order = tb.order /\ next.tied = tb.tied /\ next.next_pid = hand
      /\ next.throws = throws
  <2> HIDE DEF tb, throws, hand
  <2> QED BY <1>1 DEF Tiebreak
<1>4. throws[p] # 0 /\ \A q \in Player \ {p} : throws[q] = tb.throws[q]
  BY <1>1 DEF Rank
<1> HIDE DEF next, throws, h
<1>5. h.phase = "tiebreak" /\ h.tiebreak = next
  BY <1>1, <1>2 DEF Game
<1>6. PICK from \in DOMAIN tb.order :
        /\ p = tb.order[from]
        /\ \A k \in DOMAIN tb.order :
             k >= from /\ tb.order[k] \in tb.tied => tb.throws[tb.order[k]] = 0
  BY <1>1 DEF TieHand
<1>7. {k \in DOMAIN tb.order : tb.order[k] = p} = {from}
  BY <1>1, <1>6 DEF Once
<1>8. at = from /\ from \in Nat /\ DOMAIN tb.order \subseteq Nat
  <2>1. from \in Nat /\ DOMAIN tb.order \subseteq Nat
    BY <1>1, <1>6
  <2> DEFINE S == {from}
  <2>2. Smallest(S) \in S
    <3>1. S \in SUBSET Nat /\ S # {}
      BY <2>1
    <3> HIDE DEF S
    <3> QED BY <3>1, SmallestIn
  <2> QED BY <1>7, <2>1, <2>2
<1> HIDE DEF at
<1>9. CASE later = {}
  <2>1. hand = NoPlayer
    BY <1>9 DEF FirstTied
  <2>2. p \in Threw(h)
    BY <1>3, <1>4, <1>5 DEF Threw
  <2> QED BY <1>1, <1>3, <1>5, <2>1, <2>2 DEF TieHand, h
<1>10. CASE later # {}
  <2> DEFINE l == Smallest(later)
  <2>1. l \in later
    <3>1. later \in SUBSET Nat
      BY <1>8
    <3> HIDE DEF later
    <3> QED BY <1>10, <3>1, SmallestIn
  <2>2. hand = tb.order[l]
    BY <1>10 DEF FirstTied
  <2> HIDE DEF l, hand
  <2>3. l \in DOMAIN tb.order /\ l >= from + 1 /\ tb.order[l] \in tb.tied /\ l \in Nat
    BY <1>8, <2>1
  <2>4. hand \in Player /\ hand # NoPlayer
    BY <1>1, <2>2, <2>3, PlayerAssumption
  <2>5. ASSUME NEW k \in DOMAIN tb.order, k >= l, tb.order[k] \in tb.tied
        PROVE  throws[tb.order[k]] = 0
    <3>1. k > from /\ k >= from /\ k # from
      BY <1>8, <2>3, <2>5
    <3>2. tb.order[k] # p /\ tb.order[k] \in Player
      BY <1>1, <1>6, <3>1 DEF Once
    <3>3. tb.throws[tb.order[k]] = 0
      BY <1>6, <2>5, <3>1
    <3> QED BY <1>4, <3>2, <3>3
  <2>6. TieHand(h, "none")
    BY <1>1, <1>3, <1>5, <2>2, <2>3, <2>5 DEF TieHand
  <2> QED BY <1>3, <1>5, <2>4, <2>6 DEF h
<1> QED BY <1>9, <1>10

----------------------------------------------------------------------------
(* The opening and a new partie.                                           *)

\* The first match is opened by the first seat.
LEMMA DoStartHand ==
  ASSUME NEW g, Typed(g), g.players # <<>>
  PROVE  DoStart(g).phase = "charge" /\ Hand(DoStart(g), "none")
<1> DEFINE h == DoStart(g)
<1>1. g \in Game /\ h \in Game
  BY DoStartType DEF Typed
<1>2. /\ h.players = g.players /\ h.phase = "charge" /\ h.out_of_match = {}
      /\ h.max_throws = Throws /\ h.turn = FreshTurns(g, Seated(g))
      /\ h.round_starter_id = g.players[1] /\ h.current_index = 0
  BY <1>1, DoStartWrites
<1> HIDE DEF h
<1>3. g.players \in Seq(Player) /\ 1 \in DOMAIN g.players /\ Len(g.players) \in Nat \ {0}
  <2>1. g.players \in Seq(Player)
    BY <1>1 DEF Game
  <2> QED BY <2>1
<1>4. 0 % Len(g.players) = 0 /\ 0 \in 0..(Len(g.players) - 1)
  <2> DEFINE n == Len(g.players)
  <2>1. n \in Nat \ {0}
    BY <1>3
  <2> HIDE DEF n
  <2>2. 0 % n = 0 /\ 0 \in 0..(n - 1)
    BY <2>1
  <2> QED BY <2>2 DEF n
<1>5. SeatAt(h, 0) = g.players[1]
  BY <1>2, <1>4 DEF SeatAt
<1>6. Active(h) = Seated(g) /\ g.players[1] \in Seated(g) /\ Seated(g) \subseteq Player
  BY <1>1, <1>2, <1>3, SeatedArePlayers DEF Active, Seated, Members
<1>7. \A q \in Active(h) : h.turn[q] = NewTurn
  BY <1>2, <1>6 DEF FreshTurns
<1>8. Hand(h, "none")
  BY <1>1, <1>2, <1>4, <1>5, <1>6, <1>7, FreshHand
<1> QED BY <1>2, <1>8 DEF h

\* The last initial roll opens the first match, the others open nothing.
LEMMA RollInitialHand ==
  ASSUME NEW g, Typed(g), g.phase = "initial_roll", NEW p \in Player, NEW d \in Die,
         NEW h \in RollInitial(g, p, d)
  PROVE  h.phase = "initial_roll" \/ (h.phase = "charge" /\ Hand(h, "none"))
<1> DEFINE k == [g EXCEPT !.initial_rolls[p] = d]
           lowest == {q \in Seated(k) : \A r \in Seated(k) : k.initial_rolls[q] <= k.initial_rolls[r]}
           again == [q \in Player |-> IF q \in lowest THEN Unrolled ELSE k.initial_rolls[q]]
<1>1. Typed(k) /\ k.phase = "initial_roll"
  BY DEF Typed, Game, RanksKnown
<1>2. h = k \/ h \in FinalizeOrder(k)
  BY DEF RollInitial
<1>3. \/ h = k \/ h = [k EXCEPT !.initial_rolls = again]
      \/ /\ \E q \in Seated(k) : lowest = {q}
         /\ \E s \in SortedSeatings(k) : h = DoStart([k EXCEPT !.players = s])
  BY <1>2 DEF FinalizeOrder
<1>4. CASE h = k \/ h = [k EXCEPT !.initial_rolls = again]
  <2> HIDE DEF k, again
  <2> QED BY <1>1, <1>4 DEF Typed, Game
<1> HIDE DEF k, lowest
<1>5. ASSUME NEW q \in Seated(k), NEW s \in SortedSeatings(k), h = DoStart([k EXCEPT !.players = s])
      PROVE  h.phase = "charge" /\ Hand(h, "none")
  <2> DEFINE t == [k EXCEPT !.players = s]
  <2>1. s \in Seq(Player) /\ Len(s) = Len(k.players) /\ k \in Game
    BY <1>1, SeatingsAreOnce DEF Typed
  <2>2. s # <<>>
    <3>1. k.players \in Seq(Player)
      BY <2>1 DEF Game
    <3>2. k.players # <<>>
      BY <1>5, <3>1 DEF Seated, Members
    <3> QED BY <2>1, <3>1, <3>2
  <2>3. Typed(t) /\ t.players # <<>>
    BY <1>1, <2>1, <2>2 DEF Typed, Game, RanksKnown
  <2> HIDE DEF t
  <2> QED BY <1>5, <2>3, DoStartHand DEF t
<1> QED BY <1>3, <1>4, <1>5

\* A new partie is opened by the player who lost the last one.
LEMMA StartNewPartieHand ==
  ASSUME NEW g, Typed(g), Even(g), g.phase = "finished"
  PROVE  StartNewPartie(g).phase = "charge" /\ Hand(StartNewPartie(g), "none")
<1> DEFINE h == StartNewPartie(g)
           starter == IF g.partie_loser_id \in Seated(g) THEN g.partie_loser_id
                      ELSE IF g.players # <<>> THEN g.players[1] ELSE NoPlayer
<1>1. g \in Game /\ h \in Game
  BY StartNewPartieType DEF Typed
<1>2. /\ h.players = g.players /\ h.phase = "charge" /\ h.out_of_match = {}
      /\ h.max_throws = Throws /\ h.turn = FreshTurns(g, Seated(g))
      /\ h.round_starter_id = starter /\ h.current_index = IndexOrZero(g, starter)
  BY <1>1, StartNewPartieWrites
<1> HIDE DEF h
<1>3. starter \in Seated(g)
  <2>1. Len(g.players) >= 2 /\ Once(g.players)
    BY DEF Even, Opening, Apart
  <2>2. g.players[1] \in Seated(g) /\ g.players # <<>>
    BY <1>1, <2>1, TwoSeated
  <2> QED BY <2>2
<1> HIDE DEF starter
<1>4. Seated(h) = Seated(g) /\ IndexOrZero(h, starter) = IndexOrZero(g, starter)
  BY <1>2 DEF Seated, IndexOrZero, IndexOf
<1>5. h.current_index \in 0..(Len(h.players) - 1) /\ SeatAt(h, h.current_index) = starter
  BY <1>1, <1>2, <1>3, <1>4, IndexIsSeat
<1>6. Active(h) = Seated(g) /\ Seated(g) \subseteq Player
  BY <1>1, <1>2, <1>4, SeatedArePlayers DEF Active
<1>7. \A q \in Active(h) : h.turn[q] = NewTurn
  BY <1>2, <1>6 DEF FreshTurns
<1>8. Hand(h, "none")
  BY <1>1, <1>2, <1>3, <1>5, <1>6, <1>7, FreshHand
<1> QED BY <1>2, <1>8 DEF h

\* While a hand is played, the starter is active, nobody throws before it has
\* validated and nobody makes more throws than it did.
LEMMA HandLeads ==
  ASSUME NEW g \in Game, NEW held, Hand(g, held)
  PROVE  LET r == g.round_starter_id
         IN  /\ r \in Active(g)
             /\ \A q \in Active(g) \ {r} :
                  g.turn[q].rolls_left < Throws =>
                    g.turn[r].done /\ RollsUsed(g, q) <= RollsUsed(g, r)
<1> DEFINE r == g.round_starter_id
<1>1. r \in Active(g)
  BY DEF Hand, Round
<1>2. ASSUME NEW q \in Active(g) \ {r}, g.turn[q].rolls_left < Throws
      PROVE  g.turn[r].done /\ RollsUsed(g, q) <= RollsUsed(g, r)
  <2>1. /\ g.turn[r].done /\ RollsUsed(g, q) <= g.max_throws
        /\ g.max_throws <= RollsUsed(g, r) /\ g.max_throws \in 1..Throws
    BY <1>2 DEF Hand, Capped
  <2>2. q \in Player /\ r \in Player /\ g.turn \in [Player -> Turn]
    BY <1>1, <1>2, SeatedArePlayers DEF Active, Game
  <2>3. g.turn[q].rolls_left \in Nat /\ g.turn[r].rolls_left \in Nat /\ Throws \in Nat
    BY <2>2, BoundsAssumption DEF Turn
  <2> QED BY <2>1, <2>3 DEF RollsUsed
<1> QED BY <1>1, <1>2

----------------------------------------------------------------------------
(* Steps outside the cycle.                                                *)

\* A step that writes none of these fields leaves the hand where it is.
SameHand(g, h) ==
  /\ h.phase = g.phase /\ h.players = g.players /\ h.out_of_match = g.out_of_match
  /\ h.current_index = g.current_index /\ h.round_starter_id = g.round_starter_id
  /\ h.turn = g.turn /\ h.max_throws = g.max_throws /\ h.bank_rule = g.bank_rule
  /\ h.tiebreak = g.tiebreak /\ h.partie_loser_id = g.partie_loser_id

\* Newcomers and queued rules do not concern the cycle being played.
LEMMA SameHandKeeps ==
  ASSUME NEW g, NEW h, SameHand(g, h), NEW held, Turns(g, held)
  PROVE  Turns(h, held)
<1>1. Active(h) = Active(g) /\ \A k : SeatAt(h, k) = SeatAt(g, k)
  BY DEF SameHand, Active, Seated, SeatAt
<1>2. \A p : Open(g, p) => Open(h, p)
  BY DEF SameHand, Open, OneThrow, RollsUsed
<1>3. Capped(g) => Capped(h)
  BY <1>1 DEF SameHand, Capped, RollsUsed
<1>4. \A s, d : Round(g, s, d) => Round(h, s, d)
  BY <1>1 DEF SameHand, Round
<1>5. Hand(g, held) => Hand(h, held)
  <2> SUFFICES ASSUME Hand(g, held) PROVE Hand(h, held)
    OBVIOUS
  <2>1. PICK s, d \in 0..(Len(g.players) - 1) :
          /\ Round(g, s, d)
          /\ IF held = "turn" THEN g.turn[SeatAt(g, s + d)].done ELSE Open(g, SeatAt(g, s + d))
    BY DEF Hand
  <2>2. IF held = "turn" THEN h.turn[SeatAt(h, s + d)].done ELSE Open(h, SeatAt(h, s + d))
    BY <1>1, <1>2, <2>1 DEF SameHand
  <2>3. h.players = g.players /\ Round(h, s, d) /\ Capped(h)
    BY <1>3, <1>4, <2>1 DEF SameHand, Hand
  <2> QED BY <2>2, <2>3 DEF Hand
<1>6. TieHand(g, held) => TieHand(h, held)
  BY DEF TieHand, SameHand, Threw
<1> QED BY <1>5, <1>6 DEF Turns, SameHand

----------------------------------------------------------------------------
(* What the engine does to turns.                                          *)

\* Settling, admitting and resetting leave a turn, renew it or take it away:
\* only the throw of a player adds to its throws.
Renewed(g, h) == \A p \in Player : h.turn[p] \in {g.turn[p], NewTurn, NoTurn}

LEMMA RenewedAgain ==
  ASSUME NEW f, NEW g, NEW h, Renewed(f, g), Renewed(g, h)
  PROVE  Renewed(f, h)
BY DEF Renewed

LEMMA EndMatchRenews ==
  ASSUME NEW g, Typed(g), NEW p \in Player
  PROVE  Renewed(g, EndMatch(g, p))
<1> DEFINE count == g.match_losses[p] + 1
           f == [g EXCEPT !.match_losses[p] = count]
           h == AdmitWaiting(f)
           scored == LosePoint(h, p)
           next == ApplyPendingRules(scored)
<1>1. Typed(f) /\ f.turn = g.turn
  <2>1. count \in Nat
    BY DEF Typed, Game
  <2> HIDE DEF count
  <2>2. [g.match_losses EXCEPT ![p] = count] \in [Player -> Nat]
    BY <2>1 DEF Typed, Game
  <2> QED BY <2>2 DEF Typed, Game, RanksKnown
<1>2. Typed(h) /\ h \in Game
  <2> HIDE DEF f
  <2> QED BY <1>1, AdmitWaitingType DEF Typed
<1>3. h.turn = FreshTurns(f, Members(f.waiting_players))
  <2> HIDE DEF f
  <2> QED BY <1>1, AdmitWaitingWrites DEF Typed
<1>4. Renewed(g, h)
  <2> HIDE DEF f, h
  <2> QED BY <1>1, <1>3 DEF Renewed, FreshTurns
<1>5. scored \in Game /\ scored.turn = h.turn
  <2> DEFINE points == [h.round_points EXCEPT ![p] = h.round_points[p] + 1]
             clean  == [q \in Player |-> 0]
  <2>1. scored = [h EXCEPT !.round_points = points, !.match_losses = clean]
    <3> HIDE DEF h
    <3> QED BY DEF LosePoint
  <2> HIDE DEF h, scored
  <2>2. points \in [Player -> Nat] /\ clean \in [Player -> Nat]
    BY <1>2 DEF Game
  <2> HIDE DEF points, clean
  <2> QED BY <1>2, <2>1, <2>2 DEF Game
<1>6. next \in Game /\ next.turn = h.turn
  <2> HIDE DEF h, scored
  <2> QED BY <1>5 DEF ApplyPendingRules, Game
<1>7. ASSUME NEW k \in Game, k.turn = h.turn
      PROVE  Renewed(h, StartNewSet(k, p))
  <2> HIDE DEF h
  <2>1. StartNewSet(k, p).turn = FreshTurns(k, Seated(k))
    BY StartNewSetWrites
  <2> QED BY <1>7, <2>1 DEF Renewed, FreshTurns
<1>8. \/ EndMatch(g, p) = StartNewSet(h, p) \/ EndMatch(g, p) = StartNewSet(next, p)
      \/ EndMatch(g, p) = [scored EXCEPT !.partie_loser_id = p, !.phase = "finished"]
  BY DEF EndMatch
<1> HIDE DEF h, next, scored
<1>9. Renewed(h, EndMatch(g, p))
  <2>1. CASE EndMatch(g, p) = [scored EXCEPT !.partie_loser_id = p, !.phase = "finished"]
    <3>1. EndMatch(g, p).turn = h.turn
      BY <1>5, <2>1 DEF Game
    <3> QED BY <3>1 DEF Renewed
  <2> QED BY <1>2, <1>6, <1>7, <1>8, <2>1
<1> QED BY <1>4, <1>9, RenewedAgain

LEMMA FinalizeCycleRenews ==
  ASSUME NEW g, Typed(g), NEW starter
  PROVE  Renewed(g, FinalizeCycle(g, starter))
<1> DEFINE full == {p \in Seated(g) : g.tokens[p] >= Chips}
<1>1. g \in Game /\ Seated(g) \subseteq Player
  BY SeatedArePlayers DEF Typed
<1>2. CASE full = {}
  <2> DEFINE h == NextCycle(SitOut(g), starter)
             out == IF g.phase = "decharge"
                    THEN g.out_of_match \cup {q \in Seated(g) : g.tokens[q] = 0}
                    ELSE g.out_of_match
  <2>1. h.turn = [q \in Player |-> IF q \notin Seated(g) THEN g.turn[q]
                                    ELSE IF q \in out THEN NoTurn ELSE NewTurn]
    BY <1>1, NextCycleWrites
  <2> HIDE DEF h, out
  <2>2. Renewed(g, h)
    BY <2>1 DEF Renewed
  <2> QED BY <1>2, <2>2 DEF FinalizeCycle, h
<1>3. CASE full # {}
  <2>1. FirstSeated(g, full) \in Player
    <3> HIDE DEF full
    <3>1. PICK p \in full : p \in Seated(g)
      BY <1>3 DEF full
    <3> QED BY <1>1, <3>1, FirstSeatedType
  <2> QED BY <1>3, <2>1, EndMatchRenews DEF FinalizeCycle
<1> QED BY <1>2, <1>3

LEMMA EnterTiebreakRenews ==
  ASSUME NEW g \in Game, NEW tied, NEW penalty, NEW phase, NEW winner
  PROVE  Renewed(g, EnterTiebreak(g, tied, penalty, phase, winner))
<1> DEFINE h == EnterTiebreak(g, tied, penalty, phase, winner)
<1>1. h.turn = FreshTurns(g, tied)
  BY DEF EnterTiebreak, Game
<1> HIDE DEF h
<1>2. Renewed(g, h)
  BY <1>1 DEF FreshTurns, Renewed
<1> QED BY <1>2 DEF h

\* Chips change hands between two cycles, turns do not.
LEMMA TransfersKeepTurns ==
  ASSUME NEW g \in Game, NEW winner, NEW loser, NEW penalty
  PROVE  /\ TakeFromBank(g, loser, penalty, "charge").turn = g.turn
         /\ GiveToLoser(g, winner, loser, penalty).turn = g.turn
BY DEF TakeFromBank, GiveToLoser, Game

LEMMA ResolveRoundRenews ==
  ASSUME NEW g, Typed(g), AllDone(g)
  PROVE  Renewed(g, ResolveRound(g))
<1>1. g \in Game
  BY DEF Typed
<1>2. Renewed(g, Disband(g))
  BY <1>1 DEF Disband, Game, Renewed
<1>3. ASSUME NEW loser \in Player, NEW winner \in MaybePlayer, NEW penalty \in Nat
      PROVE  /\ Renewed(g, FinalizeCycle(TakeFromBank(g, loser, penalty, "charge"), loser))
             /\ Renewed(g, FinalizeCycle(GiveToLoser(g, winner, loser, penalty), loser))
  <2> DEFINE taken == TakeFromBank(g, loser, penalty, "charge")
             given == GiveToLoser(g, winner, loser, penalty)
  <2>1. Typed(taken) /\ Typed(given)
    BY TakeFromBankType, GiveToLoserType DEF Phase
  <2>2. taken.turn = g.turn /\ given.turn = g.turn
    BY <1>1, TransfersKeepTurns
  <2> HIDE DEF taken, given
  <2>3. Renewed(taken, FinalizeCycle(taken, loser)) /\ Renewed(given, FinalizeCycle(given, loser))
    BY <2>1, FinalizeCycleRenews
  <2> QED BY <2>2, <2>3 DEF Renewed, taken, given
<1> QED BY <1>1, <1>2, <1>3, ResolveRoundCases, FinalizeCycleRenews, EnterTiebreakRenews, Zenon

LEMMA ClearedType ==
  ASSUME NEW g, Typed(g), NEW loser \in Player
  PROVE  Typed(Cleared(g, loser))
<1> DEFINE tb == g.tiebreak
           charged == TakeFromBank(g, loser, tb.penalty, "charge")
           given == GiveToLoser(g, tb.original_winner_id, loser, tb.penalty)
           discharged == [given EXCEPT !.phase = "decharge"]
           paid == Paid(g, loser)
<1>1. tb.penalty \in Nat /\ tb.original_winner_id \in MaybePlayer
  BY DEF Typed, Game, Tiebreak
<1>2. Typed(charged) /\ Typed(given)
  <2> HIDE DEF tb
  <2> QED BY <1>1, TakeFromBankType, GiveToLoserType DEF Phase
<1>3. Typed(discharged)
  <2> HIDE DEF given
  <2> QED BY <1>2 DEF Typed, Game, RanksKnown, Phase
<1>4. paid = charged \/ paid = discharged
  BY DEF Paid
<1> HIDE DEF charged, discharged, paid
<1>5. Typed(paid)
  BY <1>2, <1>3, <1>4
<1>6. Cleared(g, loser) = [paid EXCEPT !.tiebreak = NoTiebreak]
  BY DEF Cleared, paid
<1>7. NoTiebreak \in Tiebreak
  BY DEF NoTiebreak, Tiebreak, MaybePlayer, Phase
<1> QED BY <1>5, <1>6, <1>7 DEF Typed, RanksKnown, Game

LEMMA ResolveTiebreakRenews ==
  ASSUME NEW g, Typed(g)
  PROVE  Renewed(g, ResolveTiebreak(g))
<1>1. g \in Game /\ Renewed(g, g)
  BY DEF Typed, Renewed
<1>2. ASSUME NEW loser \in LowestThrows(g)
      PROVE  Renewed(g, FinalizeCycle(Cleared(g, loser), loser))
  <2> DEFINE tb == g.tiebreak
             k == Cleared(g, loser)
  <2>1. loser \in Player
    BY DEF LowestThrows, Threw
  <2>2. Typed(k) /\ k \in Game
    BY <2>1, ClearedType DEF Typed
  <2>3. k.turn = Paid(g, loser).turn
    BY <2>2 DEF Cleared, Paid, TakeFromBank, GiveToLoser, Game
  <2>4. Paid(g, loser).turn = g.turn
    BY <1>1, TransfersKeepTurns DEF Paid, GiveToLoser, Game
  <2> HIDE DEF k
  <2>5. Renewed(k, FinalizeCycle(k, loser))
    BY <2>2, FinalizeCycleRenews
  <2> QED BY <2>3, <2>4, <2>5 DEF Renewed, k
<1> QED BY <1>1, <1>2, ResolveTiebreakCases, EnterTiebreakRenews

LEMMA EndTurnRenews ==
  ASSUME NEW g, Typed(g)
  PROVE  Renewed(g, EndTurn(g))
<1> DEFINE k == Advance(g)
           index == (g.current_index + StepsToActive(g, 1)) % Len(g.players)
<1>1. k = g \/ k = [g EXCEPT !.current_index = index]
  BY DEF Advance
<1>2. k \in Game /\ g \in Game
  BY AdvanceType DEF Typed
<1>3. k.turn = g.turn
  <2> HIDE DEF k, index
  <2> QED BY <1>1, <1>2 DEF Game
<1>4. EndTurn(g) = IF AllDone(k) THEN ResolveRound(k) ELSE k
  BY DEF EndTurn
<1> HIDE DEF k
<1>5. Typed(k)
  BY <1>2, <1>3 DEF Typed, RanksKnown
<1>6. AllDone(k) => Renewed(k, ResolveRound(k))
  BY <1>5, ResolveRoundRenews
<1> QED BY <1>3, <1>4, <1>6 DEF Renewed
=============================================================================
