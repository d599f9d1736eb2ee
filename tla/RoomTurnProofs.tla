--------------------------- MODULE RoomTurnProofs ---------------------------
(***************************************************************************)
(* Whose turn it is in a room, and what it leads back to.                  *)
(*                                                                         *)
(* The first part is about a room from which nobody goes (Exits = {}):     *)
(* which handler sleeps, which timer is set, whose bot turn waits to be    *)
(* committed, for any number of players, with the bot or without it,       *)
(* whether turns are taken back or not.  The room is always in one of      *)
(* four stages, and Stage names them.                                      *)
(*                                                                         *)
(* The second part, from "Phase, bank and match when connections are lost" *)
(* on, is about a room whose players lose their connection and come back   *)
(* any number of times, as long as nobody gives up a seat: what is said is *)
(* said while SeatsKept holds, and removals by host, administrator or      *)
(* eviction may end it at any moment ("leave" \notin Exits).  Handlers and *)
(* timers then overlap, no stage tells what is under way, and LinksInv     *)
(* keeps what still holds: which tasks a phase leaves possible, that the   *)
(* bank is empty exactly when the phase says so, and that who sits out has *)
(* no chips.                                                               *)
(***************************************************************************)
EXTENDS RoomProofs

----------------------------------------------------------------------------
(* The stages of a room.                                                   *)

\* p has the hand, and may have yet to play.
Stand(g, p)  == g.phase \in {"charge", "decharge"} /\ CurrentPlayer(g) = p
ToPlay(g, p) == Stand(g, p) /\ ~g.turn[p].done

\* No task of p will move the hand.
Calm(t, p) == t.afk[p] \in {"none", "initial", "tiebreak"} /\ t.final[p] = "none"
AtRest(t) == \A p \in Player : Calm(t, p)
RestBut(t, p) == \A q \in Player \ {p} : Calm(t, q)

\* A turn timer belongs to the player who has yet to play.
TimersFit(g, t) ==
  \A p \in Player :
    \/ Calm(t, p)
    \/ t.afk[p] \in {"turn", "warned"} /\ t.final[p] = "none" /\ ToPlay(g, p)

\* Unless turns are taken back, the bot stands by for whoever is awaited.
Watched(g, t) ==
  AfkBot /\ ~Returns /\ Awaited(g) # NoPlayer =>
    t.afk[Awaited(g)] \in IF g.phase = "tiebreak" THEN {"tiebreak"} ELSE {"turn", "warned"}

Awake == \A p \in Player : holds[p] = "none"
AwakeBut(p) == \A q \in Player \ {p} : holds[q] = "none"
NoWrite == persists["schedule"] = 0

\* The game a handback makes of g: p's turn and the cap as the snapshot s has them.
GivenBack(g, s, p) ==
  [g EXCEPT !.turn[p] = s.turn, !.max_throws = IF s.cap # 0 THEN s.cap ELSE g.max_throws]

\* The table waits for a player, or for nobody before the first match.
Free == NoWrite /\ Awake /\ TimersFit(game, tasks) /\ Watched(game, tasks) /\ Turns(game, "none")

\* p's turn is validated: by p, whose handler sleeps, or by the bot, whose
\* commit is on its way and can still be given back.
HandlerSleeps(p) == holds[p] = "turn" /\ Calm(tasks, p)
BotCommits(p) ==
  /\ holds[p] = "none"
  /\ \/ tasks.afk[p] = "played" /\ tasks.final[p] = "none"
     \/ tasks.afk[p] \in {"none", "initial", "tiebreak"} /\ tasks.final[p] = "tracked"
  /\ tasks.snap[p].turn # NoTurn /\ Hand(GivenBack(game, tasks.snap[p], p), "none")
Ending(p) ==
  /\ NoWrite /\ AwakeBut(p) /\ RestBut(tasks, p)
  /\ Stand(game, p) /\ game.turn[p].done /\ Hand(game, "turn")
  /\ HandlerSleeps(p) \/ BotCommits(p)

\* The last throw of a tiebreak is made.
Tying(p) ==
  /\ NoWrite /\ AwakeBut(p) /\ AtRest(tasks)
  /\ holds[p] = "tiebreak" /\ game.phase = "tiebreak" /\ TieHand(game, "tiebreak")

\* The partie is lost, and whoever ended it waits for the write.
Writing ==
  /\ game.phase = "finished" /\ game.partie_loser_id # NoPlayer /\ Awake
  /\ \/ persists["schedule"] = 1 /\ AtRest(tasks)
     \/ NoWrite /\ \E p \in Player : /\ tasks.afk[p] = "persisting" /\ tasks.final[p] = "none"
                                     /\ RestBut(tasks, p)

Stage == Free \/ Writing \/ \E p \in Player : Ending(p) \/ Tying(p)

\* Nobody loses the connection, and nobody settles a cycle without rescheduling.
Steady == used \subseteq link /\ persists["nothing"] = 0

RoomTurnInv == RoomInv /\ Sound(game) /\ Even(game) /\ Steady /\ Stage

----------------------------------------------------------------------------
(* The bot's turn, a turn validated twice, and a turn given back.          *)

\* While the starter has the hand, nobody else has thrown.
LEMMA StarterIsFirst ==
  ASSUME NEW g \in Game, Once(g.players), g.players # <<>>,
         NEW s \in 0..(Len(g.players) - 1), NEW d \in 0..(Len(g.players) - 1), Round(g, s, d),
         SeatAt(g, s + d) = g.round_starter_id
  PROVE  \A q \in Active(g) \ {g.round_starter_id} : g.turn[q] = NewTurn
<1> DEFINE n == Len(g.players)
<1>1. n \in Nat \ {0} /\ s \in Nat /\ s + 0 = s /\ 0 \in 0..(n - 1)
  <2>1. g.players \in Seq(Player)
    BY DEF Game
  <2> QED BY <2>1
<1>2. d = 0
  <2>1. SeatAt(g, s + d) = SeatAt(g, s + 0) /\ s \in Int
    BY <1>1 DEF Round
  <2> QED BY <1>1, <2>1, SeatsDiffer
<1> SUFFICES ASSUME NEW q \in Active(g) \ {g.round_starter_id}
             PROVE  g.turn[q] = NewTurn
  OBVIOUS
<1>3. PICK k \in 0..(n - 1) : SeatAt(g, s + k) = q
  BY <1>1, SeatsReached DEF Active
<1>4. k # d
  BY <1>3
<1>5. d < k
  BY <1>1, <1>2, <1>4
<1> QED BY <1>3, <1>5 DEF Round

\* A turn may be validated again while it is being broadcast: the cap it sets
\* is still one the starter reached.
LEMMA ValidateAgain ==
  ASSUME NEW g, Typed(g), Once(g.players), g.players # <<>>, Hand(g, "turn"),
         NEW p \in Player, MayValidate(g, p)
  PROVE  Hand(Validate(g, p), "turn") /\ Validate(g, p).turn[p].done
<1> DEFINE t == [g.turn[p] EXCEPT !.done = TRUE]
           r == g.round_starter_id
           cap == IF p # r THEN g.max_throws ELSE IF OneThrow(g) THEN 1 ELSE RollsUsed(g, p)
           h == Validate(g, p)
<1>1. g \in Game /\ p = CurrentPlayer(g) /\ g.turn[p].rolls_left < Throws
  BY DEF Typed, MayValidate
<1>2. PICK s \in 0..(Len(g.players) - 1), d \in 0..(Len(g.players) - 1) :
        Round(g, s, d) /\ g.turn[SeatAt(g, s + d)].done
  BY DEF Hand
<1>3. p = SeatAt(g, s + d)
  BY <1>1, <1>2, RoundHand
<1>4. /\ g.turn[p] \in Turn /\ g.turn[p].rolls_left \in 0..(Throws - 1)
      /\ Throws \in Nat \ {0} /\ RollsUsed(g, p) \in 1..Throws
  <2>1. g.turn[p] \in Turn
    BY <1>1 DEF Game
  <2> QED BY <1>1, <2>1, BoundsAssumption DEF Turn, RollsUsed
<1>5. h = [g EXCEPT !.turn[p] = t, !.max_throws = cap]
  BY <1>1 DEF Validate, Game
<1>6. t.rolls_left = g.turn[p].rolls_left /\ t.done
  BY <1>4 DEF Turn
<1> HIDE DEF t, h
<1>7. TurnWritten(g, p, h) /\ h.turn[p] = t /\ h.max_throws = cap
  <2>1. h.turn = [g.turn EXCEPT ![p] = t] /\ h.max_throws = cap
    BY <1>1, <1>5 DEF Game
  <2>2. /\ h.players = g.players /\ h.out_of_match = g.out_of_match
        /\ h.current_index = g.current_index /\ h.round_starter_id = g.round_starter_id
        /\ h.phase = g.phase /\ h.bank_rule = g.bank_rule
    BY <1>1, <1>5 DEF Game
  <2>3. g.turn \in [Player -> Turn]
    BY <1>1 DEF Game
  <2> QED BY <2>1, <2>2, <2>3 DEF TurnWritten
<1>8. Round(h, s, d) /\ SeatAt(h, s + d) = p /\ Active(h) = Active(g)
  BY <1>1, <1>2, <1>3, <1>7, RoundGoesOn, ZenonT(60)
<1>9. r \in Active(g) /\ r \in Player /\ Active(g) \subseteq Player /\ h.round_starter_id = r
  BY <1>1, <1>2, <1>7, SeatedArePlayers DEF Round, Active, TurnWritten
<1>10. cap \in 1..Throws
  BY <1>4 DEF Hand, Capped
<1>11. h.turn[r].done => cap <= RollsUsed(h, r)
  <2>1. CASE p = r
    <3>1. RollsUsed(h, r) = RollsUsed(g, p)
      BY <1>6, <1>7, <2>1 DEF RollsUsed
    <3> QED BY <1>4, <2>1, <3>1
  <2>2. CASE p # r
    <3>1. h.turn[r] = g.turn[r] /\ cap = g.max_throws
      BY <1>7, <1>9, <2>2 DEF TurnWritten
    <3> QED BY <3>1 DEF Hand, Capped, RollsUsed
  <2> QED BY <2>1, <2>2
<1>12. ASSUME NEW q \in Active(g) \ {r}, h.turn[q].rolls_left < Throws
       PROVE  h.turn[r].done /\ RollsUsed(h, q) <= cap
  <2>1. h.turn[q].rolls_left = g.turn[q].rolls_left
    BY <1>6, <1>7, <1>9 DEF TurnWritten
  <2>2. p # r
    <3> SUFFICES ASSUME p = r PROVE FALSE
      OBVIOUS
    <3>1. g.turn[q] = NewTurn
      BY <1>1, <1>2, <1>3, StarterIsFirst
    <3> QED BY <1>4, <1>12, <2>1, <3>1 DEF NewTurn
  <2>3. g.turn[r].done /\ RollsUsed(g, q) <= g.max_throws
    BY <1>12, <2>1 DEF Hand, Capped
  <2>4. h.turn[r] = g.turn[r] /\ cap = g.max_throws
    BY <1>7, <1>9, <2>2 DEF TurnWritten
  <2> QED BY <2>1, <2>3, <2>4 DEF RollsUsed
<1>13. Capped(h)
  BY <1>7, <1>8, <1>9, <1>10, <1>11, <1>12 DEF Capped
<1>14. h.turn[p].done /\ Len(h.players) = Len(g.players)
  BY <1>6, <1>7 DEF TurnWritten
<1> HIDE DEF cap
<1>15. Hand(h, "turn")
  BY <1>8, <1>13, <1>14 DEF Hand
<1> QED BY <1>14, <1>15 DEF h

\* The snapshot of a turn the bot takes over.
SnapOf(g, p) == [turn |-> g.turn[p], cap |-> IF p = g.round_starter_id THEN g.max_throws ELSE 0]

\* The bot ends the turn of the player who has the hand within the cap, and
\* the snapshot leads back to the turn as it was.
LEMMA BotHand ==
  ASSUME NEW g, Typed(g), Once(g.players), g.players # <<>>, Hand(g, "none"),
         g.phase \in {"charge", "decharge"}, NEW p, p = CurrentPlayer(g),
         NEW turn \in BotTurns(g, p)
  PROVE  LET h == BotLocks([g EXCEPT !.turn[p] = turn], p)
         IN  /\ Hand(h, "turn") /\ TurnWritten(g, p, h) /\ h.turn[p].done
             /\ SameHand(g, GivenBack(h, SnapOf(g, p), p))
<1> DEFINE r == g.round_starter_id
           left == g.turn[p].rolls_left
           first == IF left = Throws THEN Throws - 1 ELSE left
           again == {n \in 0..(first - 1) : Throws - n <= ThrowCap(g, p)}
           ranks(n) == IF n = left THEN {g.turn[p].rank} ELSE Rank
           k == [g EXCEPT !.turn[p] = turn]
           cap == IF p # r THEN g.max_throws
                  ELSE IF OneThrow(k) THEN 1 ELSE IF RollsUsed(k, p) > 1 THEN RollsUsed(k, p) ELSE 1
           h == BotLocks(k, p)
<1>1. g \in Game /\ g.turn \in [Player -> Turn] /\ Throws \in Nat \ {0}
  BY BoundsAssumption DEF Typed, Game
<1>2. PICK s \in 0..(Len(g.players) - 1), d \in 0..(Len(g.players) - 1) :
        /\ Round(g, s, d) /\ Open(g, p) /\ p = SeatAt(g, s + d)
        /\ p \in Active(g) /\ p \in Player /\ (p # r => g.turn[r].done)
  BY <1>1, HandOf
<1>3. /\ left \in 0..Throws /\ left > 0 /\ ~g.turn[p].done
      /\ OneThrow(g) => Throws - left = 0
      /\ p # r => Throws - left < g.max_throws
      /\ g.max_throws \in 1..Throws
  <2>1. g.turn[p] \in Turn
    BY <1>1, <1>2
  <2> QED BY <1>2, <2>1 DEF Turn, Open, RollsUsed, Hand, Capped
<1>4. PICK n \in {first} \cup again : turn \in [rolls_left : {n}, rank : ranks(n), done : {TRUE}]
  BY DEF BotTurns
<1>5. turn.rolls_left = n /\ turn.done
  <2> HIDE DEF ranks, again, first
  <2> QED BY <1>4
<1>6. n \in 0..(Throws - 1) /\ (p # r => Throws - n <= g.max_throws)
  <2>1. CASE n = first
    BY <1>1, <1>3, <2>1
  <2>2. CASE n \in again
    <3>1. ThrowCap(g, p) = 1 \/ (p # r => ThrowCap(g, p) = g.max_throws)
      BY <1>1, <1>3 DEF ThrowCap
    <3>2. n \in 0..(first - 1) /\ Throws - n <= ThrowCap(g, p) /\ first <= Throws
      BY <1>1, <1>3, <2>2
    <3> HIDE DEF first, again
    <3>3. ThrowCap(g, p) = 1 => Throws - n <= g.max_throws
      BY <1>1, <1>3, <3>2
    <3>4. n <= Throws - 1 /\ n \in Nat
      <4>1. first \in Int
        BY <1>1, <1>3 DEF first
      <4> QED BY <1>1, <3>2, <4>1
    <3> QED BY <1>1, <3>1, <3>2, <3>3, <3>4
  <2> QED BY <1>4, <2>1, <2>2
<1>7. /\ k = [g EXCEPT !.turn = [g.turn EXCEPT ![p] = turn]]
      /\ k.turn = [g.turn EXCEPT ![p] = turn] /\ k.max_throws = g.max_throws
      /\ k.round_starter_id = r
  BY <1>1 DEF Game
<1>8. h = [g EXCEPT !.turn = k.turn, !.max_throws = cap]
  <2> HIDE DEF k
  <2>1. k.max_throws = g.max_throws => h = [k EXCEPT !.max_throws = cap]
    <3>1. CASE p # r
      <4>1. h = k /\ cap = g.max_throws
        BY <1>7, <3>1 DEF BotLocks
      <4> QED BY <1>1, <1>7, <4>1, ZenonT(60) DEF Game
    <3>2. CASE p = r
      BY <1>7, <3>2 DEF BotLocks
    <3> QED BY <3>1, <3>2
  <2> QED BY <1>1, <1>7, <2>1 DEF Game
<1>9. k.turn[p] = turn /\ \A q \in Player \ {p} : k.turn[q] = g.turn[q]
  BY <1>1, <1>2, <1>7
<1>10. RollsUsed(k, p) = Throws - n
  BY <1>5, <1>9 DEF RollsUsed
<1>11. cap \in 1..Throws /\ (p = r => cap <= Throws - n) /\ (p # r => cap = g.max_throws)
  BY <1>1, <1>3, <1>6, <1>10
<1> HIDE DEF k, cap, h, first, again, ranks
<1>12. TurnWritten(g, p, h) /\ h.turn[p] = turn /\ h.max_throws = cap /\ h.turn = k.turn
  <2>1. h.turn = k.turn /\ h.max_throws = cap
    BY <1>1, <1>8 DEF Game
  <2>2. /\ h.players = g.players /\ h.out_of_match = g.out_of_match
        /\ h.current_index = g.current_index /\ h.round_starter_id = g.round_starter_id
        /\ h.phase = g.phase /\ h.bank_rule = g.bank_rule
    BY <1>1, <1>8 DEF Game
  <2> QED BY <1>9, <2>1, <2>2 DEF TurnWritten
<1>13. Round(h, s, d) /\ SeatAt(h, s + d) = p /\ Active(h) = Active(g)
  BY <1>1, <1>2, <1>12, RoundGoesOn
<1>14. r \in Active(g) /\ r \in Player /\ Active(g) \subseteq Player /\ h.round_starter_id = r
  BY <1>1, <1>2, <1>12, SeatedArePlayers DEF Round, Active, TurnWritten
<1>15. RollsUsed(h, p) = Throws - n
  BY <1>5, <1>12 DEF RollsUsed
<1>16. h.turn[r].done => cap <= RollsUsed(h, r)
  <2>1. CASE p = r
    BY <1>11, <1>15, <2>1
  <2>2. CASE p # r
    <3>1. h.turn[r] = g.turn[r]
      BY <1>12, <1>14, <2>2 DEF TurnWritten
    <3> QED BY <1>11, <2>2, <3>1 DEF Hand, Capped, RollsUsed
  <2> QED BY <2>1, <2>2
<1>17. ASSUME NEW q \in Active(g) \ {r}, h.turn[q].rolls_left < Throws
       PROVE  h.turn[r].done /\ RollsUsed(h, q) <= cap
  <2>1. CASE q = p
    <3>1. h.turn[r] = g.turn[r] /\ g.turn[r].done
      BY <1>2, <1>12, <1>14, <2>1 DEF TurnWritten
    <3> QED BY <1>6, <1>11, <1>15, <2>1, <3>1
  <2>2. CASE q # p
    <3>1. h.turn[q] = g.turn[q]
      BY <1>12, <1>14, <2>2 DEF TurnWritten
    <3>2. g.turn[r].done /\ RollsUsed(g, q) <= g.max_throws
      BY <1>17, <3>1 DEF Hand, Capped
    <3>3. p # r
      BY <1>3, <3>2
    <3>4. h.turn[r] = g.turn[r]
      BY <1>12, <1>14, <3>3 DEF TurnWritten
    <3> QED BY <1>11, <3>1, <3>2, <3>3, <3>4 DEF RollsUsed
  <2> QED BY <2>1, <2>2
<1>18. Capped(h)
  BY <1>11, <1>12, <1>13, <1>14, <1>16, <1>17 DEF Capped
<1>19. h.turn[p].done /\ Len(h.players) = Len(g.players)
  BY <1>5, <1>12 DEF TurnWritten
<1>20. Hand(h, "turn")
  BY <1>13, <1>18, <1>19 DEF Hand
<1>21. SameHand(g, GivenBack(h, SnapOf(g, p), p))
  <2> DEFINE b == GivenBack(h, SnapOf(g, p), p)
             back == [h.turn EXCEPT ![p] = g.turn[p]]
             max == IF SnapOf(g, p).cap # 0 THEN SnapOf(g, p).cap ELSE h.max_throws
  <2>1. SnapOf(g, p).turn = g.turn[p] /\ SnapOf(g, p).cap = IF p = r THEN g.max_throws ELSE 0
    BY DEF SnapOf
  <2>2. max = g.max_throws
    BY <1>3, <1>11, <1>12, <2>1
  <2>3. back = g.turn
    <3>1. h.turn = [g.turn EXCEPT ![p] = turn]
      BY <1>7, <1>12 DEF k
    <3> QED BY <1>1, <1>2, <3>1
  <2>4. b = [h EXCEPT !.turn = back, !.max_throws = max]
    BY <1>1, <1>8, <2>1 DEF GivenBack, Game
  <2> HIDE DEF b, back, max
  <2>5. /\ b.turn = g.turn /\ b.max_throws = g.max_throws
        /\ b.phase = g.phase /\ b.players = g.players /\ b.out_of_match = g.out_of_match
        /\ b.current_index = g.current_index /\ b.round_starter_id = g.round_starter_id
        /\ b.bank_rule = g.bank_rule /\ b.tiebreak = g.tiebreak
        /\ b.partie_loser_id = g.partie_loser_id
    BY <1>1, <1>8, <2>2, <2>3, <2>4 DEF Game
  <2> QED BY <2>5 DEF SameHand, b
<1> QED BY <1>12, <1>19, <1>20, <1>21 DEF h, k

----------------------------------------------------------------------------
(* Timers.                                                                 *)

\* _cancel_afk, field by field.
LEMMA CancelWrites ==
  ASSUME NEW t \in TaskTable, NEW p \in Player
  PROVE  LET u == CancelAfk(t, p)
         IN  /\ u \in TaskTable
             /\ u.afk = [t.afk EXCEPT ![p] = "none"]
             /\ u.final = [t.final EXCEPT ![p] = IF t.final[p] = "tracked" THEN "none"
                                                 ELSE t.final[p]]
<1> DEFINE final == IF t.final[p] = "tracked" THEN "none" ELSE t.final[p]
           u == [t EXCEPT !.afk[p] = "none", !.snap[p] = NoSnapshot, !.final[p] = final]
<1>1. CancelAfk(t, p) = u
  BY DEF CancelAfk, TaskTable
<1>2. final \in {"none", "tracked", "orphan"}
  BY DEF TaskTable
<1> HIDE DEF final
<1>3. u.afk = [t.afk EXCEPT ![p] = "none"] /\ u.final = [t.final EXCEPT ![p] = final]
  BY DEF TaskTable
<1>4. u \in TaskTable
  BY <1>2, SnapshotTypes DEF TaskTable, AfkTask
<1> HIDE DEF u
<1> QED BY <1>1, <1>3, <1>4 DEF final

\* Cancelling the one task that could move the hand leaves none.
LEMMA CancelRests ==
  ASSUME NEW t \in TaskTable, NEW p \in Player, RestBut(t, p), t.final[p] # "orphan"
  PROVE  CancelAfk(t, p) \in TaskTable /\ AtRest(CancelAfk(t, p))
<1> DEFINE u == CancelAfk(t, p)
<1>1. /\ u \in TaskTable /\ u.afk = [t.afk EXCEPT ![p] = "none"]
      /\ u.final = [t.final EXCEPT ![p] = IF t.final[p] = "tracked" THEN "none" ELSE t.final[p]]
  BY CancelWrites
<1>2. t.afk \in [Player -> AfkTask] /\ t.final \in [Player -> {"none", "tracked", "orphan"}]
  BY DEF TaskTable
<1> HIDE DEF u
<1>3. \A q \in Player : Calm(u, q)
  BY <1>1, <1>2 DEF RestBut, Calm
<1> QED BY <1>1, <1>3 DEF AtRest, u

\* A timer that fits is its player's: where nobody plays, none is set.
LEMMA FitRests ==
  ASSUME NEW g, NEW t, TimersFit(g, t)
  PROVE  /\ ~(g.phase \in {"charge", "decharge"}) => AtRest(t)
         /\ \A p \in Player : Stand(g, p) => RestBut(t, p)
         /\ \A p \in Player : t.final[p] = "none" /\ ~(t.afk[p] \in {"played", "persisting"})
  BY DEF TimersFit, AtRest, RestBut, Calm, ToPlay, Stand

\* Rescheduling sets one timer, of the player the table waits for.
LEMMA Rescheduled ==
  ASSUME NEW g \in Game, NEW t \in TaskTable, AtRest(t), Turns(g, "none"), NEW self
  PROVE  LET u == ScheduleAfk(g, t, self) IN TimersFit(g, u) /\ Watched(g, u)
<1>1. CASE ~AfkBot
  <2>1. ScheduleAfk(g, t, self) = t
    BY <1>1 DEF ScheduleAfk
  <2> QED BY <1>1, <2>1 DEF AtRest, TimersFit, Watched
<1>2. CASE AfkBot /\ g.phase = "initial_roll"
  <2> DEFINE afk == [p \in Player |-> IF p \in ToRoll(g) \ {self} /\ t.afk[p] = "none"
                                      THEN "initial" ELSE t.afk[p]]
             u == [t EXCEPT !.afk = afk]
  <2>1. ScheduleAfk(g, t, self) = u
    BY <1>2 DEF ScheduleAfk
  <2>2. u.afk = afk /\ u.final = t.final
    BY DEF TaskTable
  <2>3. \A p \in Player : afk[p] \in {"initial", t.afk[p]}
    OBVIOUS
  <2> HIDE DEF u, afk
  <2>4. TimersFit(g, u)
    BY <2>2, <2>3 DEF AtRest, TimersFit, Calm
  <2>5. Watched(g, u)
    BY <1>2 DEF Watched, Awaited
  <2> QED BY <2>1, <2>4, <2>5
<1>3. CASE AfkBot /\ g.phase # "initial_roll" /\ Awaited(g) = NoPlayer
  <2>1. ScheduleAfk(g, t, self) = t
    BY <1>3 DEF ScheduleAfk
  <2> QED BY <1>3, <2>1 DEF AtRest, TimersFit, Watched
<1>4. CASE AfkBot /\ g.phase # "initial_roll" /\ Awaited(g) # NoPlayer
  <2> DEFINE p == Awaited(g)
             v == CancelAfk(t, p)
             kind == IF g.phase = "tiebreak" THEN "tiebreak" ELSE "turn"
             u == [v EXCEPT !.afk[p] = kind]
  <2>1. ScheduleAfk(g, t, self) = u
    BY <1>4 DEF ScheduleAfk
  <2>2. p \in Player
    BY <1>4, AwaitedType DEF MaybePlayer
  <2>3. v \in TaskTable /\ AtRest(v)
    BY <2>2, CancelRests DEF AtRest, RestBut, Calm
  <2> HIDE DEF v
  <2>4. u.afk = [v.afk EXCEPT ![p] = kind] /\ u.final = v.final
    BY <2>3 DEF TaskTable
  <2>5. u.afk[p] = kind /\ \A q \in Player \ {p} : u.afk[q] = v.afk[q]
    BY <2>2, <2>3, <2>4 DEF TaskTable
  <2>6. g.phase # "tiebreak" => ToPlay(g, p)
    <3> SUFFICES ASSUME g.phase # "tiebreak" PROVE ToPlay(g, p)
      OBVIOUS
    <3>1. g.phase \in {"charge", "decharge"} /\ p = CurrentPlayer(g)
      BY <1>4 DEF Awaited
    <3>2. Open(g, CurrentPlayer(g))
      BY <3>1, HandOf DEF Turns
    <3> QED BY <3>1, <3>2 DEF ToPlay, Stand, Open
  <2> HIDE DEF u
  <2>7. TimersFit(g, u)
    <3> SUFFICES ASSUME NEW q \in Player
                 PROVE  \/ Calm(u, q)
                        \/ u.afk[q] \in {"turn", "warned"} /\ u.final[q] = "none" /\ ToPlay(g, q)
      BY DEF TimersFit
    <3>1. Calm(v, q)
      BY <2>3 DEF AtRest
    <3> QED BY <2>4, <2>5, <2>6, <3>1 DEF Calm
  <2>8. Watched(g, u)
    BY <2>5 DEF Watched
  <2> QED BY <2>1, <2>7, <2>8
<1> QED BY <1>1, <1>2, <1>3, <1>4

\* A timer that fires when it is not its player who is awaited.
LEMMA FiredFits ==
  ASSUME NEW g, NEW t \in TaskTable, NEW p \in Player, TimersFit(g, t)
  PROVE  LET u == [t EXCEPT !.afk[p] = "none"]
         IN  /\ TimersFit(g, u)
             /\ t.afk[p] = "initial" /\ Watched(g, t) => Watched(g, u)
             /\ Awaited(g) # p /\ Watched(g, t) => Watched(g, u)
             /\ AtRest(t) => AtRest(u)
             /\ \A q \in Player : RestBut(t, q) /\ q # p => u.afk[q] = t.afk[q] /\ RestBut(u, q)
<1> DEFINE u == [t EXCEPT !.afk[p] = "none"]
<1>1. u.afk = [t.afk EXCEPT ![p] = "none"] /\ u.final = t.final
  BY DEF TaskTable
<1>2. u.afk[p] = "none" /\ \A q \in Player \ {p} : u.afk[q] = t.afk[q]
  BY <1>1 DEF TaskTable
<1> HIDE DEF u
<1>3. TimersFit(g, u)
  BY <1>1, <1>2 DEF TimersFit, Calm
<1>4. AtRest(t) => AtRest(u)
  BY <1>1, <1>2 DEF AtRest, Calm
<1>5. \A q \in Player : RestBut(t, q) /\ q # p => u.afk[q] = t.afk[q] /\ RestBut(u, q)
  BY <1>1, <1>2 DEF RestBut, Calm
<1>6. Awaited(g) # p /\ Watched(g, t) => Watched(g, u)
  BY <1>1, <1>2 DEF Watched, TaskTable
<1>7. t.afk[p] = "initial" /\ Watched(g, t) => Watched(g, u)
  <2>1. CASE Awaited(g) = p
    BY <2>1 DEF Watched
  <2> QED BY <1>6, <2>1
<1> QED BY <1>3, <1>4, <1>5, <1>6, <1>7 DEF u

----------------------------------------------------------------------------
(* What a step of the room does to the game.                               *)

\* h follows g: scores and chips are in order and the match goes on by its rules.
Follows(g, h) == Sound(h) /\ Even(h) /\ MatchStep(g, h)

\* A step that touches neither seats nor chips nor phase nor tiebreak.
Same(g, h) == SameTable(g, h) /\ Idle(g, h)

LEMMA SameFollows ==
  ASSUME NEW g, Sound(g), Even(g), NEW h, Same(g, h)
  PROVE  Follows(g, h)
<1>1. Sound(h)
  BY SameTableIsSound DEF Same, Keeps
<1>2. Even(h)
  BY IdleEven DEF Same
<1>3. SameMatch(g, h)
  BY DEF Same, Idle, SameMatch, SameSeats
<1> QED BY <1>1, <1>2, <1>3 DEF Follows, MatchStep

LEMMA SameTwice ==
  ASSUME NEW f, NEW g, Same(f, g), NEW h, Same(g, h)
  PROVE  Same(f, h)
  BY DEF Same, SameTable, SameScores, Idle, SameSeats, Kept

LEMMA SameNothing ==
  ASSUME NEW g
  PROVE  Same(g, g)
  BY DEF Same, SameTable, SameScores, Idle, SameSeats, Kept

\* Writing turns and the cap is one.
LEMMA TurnAndCapAreSame ==
  ASSUME NEW g \in Game, NEW turns, NEW cap
  PROVE  Same(g, [g EXCEPT !.turn = turns, !.max_throws = cap])
  BY DEF Same, SameTable, SameScores, Idle, SameSeats, Kept, Game

\* Throws and validations, the bot's turn and its handback are such steps.
LEMMA TurnsAreSame ==
  ASSUME NEW g \in Game, NEW p
  PROVE  /\ \A rank : Same(g, Throw(g, p, rank))
         /\ Same(g, Validate(g, p))
         /\ \A rule : Same(g, QueueRule(g, rule))
         /\ \A s : Same(g, GivenBack(g, s, p))
         /\ \A turn : Same(g, BotLocks([g EXCEPT !.turn[p] = turn], p))
<1>1. \A rank : Same(g, Throw(g, p, rank))
  BY ThrowFields, ThrowIdle DEF Same
<1>2. Same(g, Validate(g, p))
  BY ThrowFields, ThrowIdle DEF Same
<1>3. \A rule : Same(g, QueueRule(g, rule))
  BY JoinGameFields, ThrowIdle DEF Same
<1>4. \A s : Same(g, GivenBack(g, s, p))
  BY TurnAndCapAreSame DEF GivenBack, Game
<1>5. ASSUME NEW turn
      PROVE  Same(g, BotLocks([g EXCEPT !.turn[p] = turn], p))
  <2> DEFINE turns == [g.turn EXCEPT ![p] = turn]
             k == [g EXCEPT !.turn[p] = turn]
             cap == IF OneThrow(k) THEN 1 ELSE IF RollsUsed(k, p) > 1 THEN RollsUsed(k, p) ELSE 1
  <2>1. k = [g EXCEPT !.turn = turns, !.max_throws = g.max_throws]
    BY DEF Game
  <2>2. BotLocks(k, p) = k \/ BotLocks(k, p) = [k EXCEPT !.max_throws = cap]
    BY DEF BotLocks
  <2> HIDE DEF turns, cap, k
  <2>3. [k EXCEPT !.max_throws = cap] = [g EXCEPT !.turn = turns, !.max_throws = cap]
    BY <2>1 DEF Game
  <2>4. /\ Same(g, [g EXCEPT !.turn = turns, !.max_throws = g.max_throws])
        /\ Same(g, [g EXCEPT !.turn = turns, !.max_throws = cap])
    BY TurnAndCapAreSame
  <2>5. Same(g, BotLocks(k, p))
    BY <2>1, <2>2, <2>3, <2>4
  <2> QED BY <2>5 DEF k
<1> QED BY <1>1, <1>2, <1>3, <1>4, <1>5

\* The end of a turn, a tiebreak throw and the end of a tiebreak.
LEMMA EndTurnFollows ==
  ASSUME NEW g, InCycle(g), Even(g)
  PROVE  Follows(g, EndTurn(g))
<1>1. Contested(g)
  BY DEF InCycle, Contested, InPlay
<1> QED BY <1>1, EndTurnSound, EndTurnEven DEF Follows, MatchStep, Keeps

LEMMA TiebreakFollows ==
  ASSUME NEW g, Typed(g), Sound(g), Even(g), g.phase = "tiebreak"
  PROVE  /\ Follows(g, ResolveTiebreak(g))
         /\ \A p \in Player, rank \in Rank :
              LET h == ThrowTiebreak(g, p, rank)
              IN  MayThrowTiebreak(g, p) =>
                    /\ Follows(g, h) /\ SameMatch(g, h) /\ Typed(h) /\ h.phase = "tiebreak"
                    /\ Follows(g, ResolveTiebreak(h))
<1>1. Contested(g)
  BY DEF Contested, InPlay
<1>2. Follows(g, ResolveTiebreak(g))
  BY <1>1, ResolveTiebreakSound, ResolveTiebreakEven DEF Follows, MatchStep, Keeps
<1>3. ASSUME NEW p \in Player, NEW rank \in Rank, MayThrowTiebreak(g, p)
      PROVE  LET h == ThrowTiebreak(g, p, rank)
             IN  /\ Follows(g, h) /\ SameMatch(g, h) /\ Typed(h) /\ h.phase = "tiebreak"
                 /\ Follows(g, ResolveTiebreak(h))
  <2> DEFINE h == ThrowTiebreak(g, p, rank)
  <2>1. Typed(h)
    BY ThrowTiebreakType
  <2>2. SameTable(g, h)
    BY ThrowTiebreakFields DEF Typed
  <2>3. Even(h) /\ SameSeats(g, h) /\ Kept(g, h)
    BY <1>3, ThrowTiebreakEven
  <2> HIDE DEF h
  <2>4. Sound(h) /\ h.phase = "tiebreak"
    BY <2>2, SameTableIsSound DEF Keeps, SameTable
  <2>5. SameMatch(g, h)
    BY <2>3 DEF SameMatch, SameSeats
  <2>6. Sound(ResolveTiebreak(h)) /\ Even(ResolveTiebreak(h)) /\ Settles(g, ResolveTiebreak(h))
    BY <2>1, <2>3, <2>4, <2>5, ResolveTiebreakSound, ResolveTiebreakEven, SameMatchSettles
       DEF Keeps
  <2> QED BY <1>1, <2>1, <2>3, <2>4, <2>5, <2>6 DEF Follows, MatchStep, h
<1> QED BY <1>2, <1>3

\* The next partie begins only after a lost one.
LEMMA StartNewPartieFollows ==
  ASSUME NEW g, Typed(g), Sound(g), Even(g), g.phase = "finished", g.partie_loser_id # NoPlayer
  PROVE  Follows(g, StartNewPartie(g)) /\ Turns(StartNewPartie(g), "none")
<1>1. \E p \in Player : g.round_points[p] = PointsToLose
  <2>1. g.partie_loser_id \in Player
    BY DEF Typed, Game, MaybePlayer
  <2> QED BY <2>1 DEF Sound, ScoresFit
<1>2. NewPartie(g, StartNewPartie(g)) /\ Even(StartNewPartie(g))
  BY <1>1, StartNewPartieEven DEF NewPartie
<1>3. Sound(StartNewPartie(g))
  BY StartNewPartieSound DEF Keeps, Typed
<1>4. Turns(StartNewPartie(g), "none")
  BY StartNewPartieHand DEF Turns
<1> QED BY <1>2, <1>3, <1>4 DEF Follows, MatchStep

\* A partie that ends is one that a player has lost in this very step.
LEMMA FinishedEndsPartie ==
  ASSUME NEW g, Typed(g), Sound(g), g.phase # "finished",
         NEW h, Typed(h), Sound(h), Turns(h, "none")
  PROVE  EndsPartie(g, h) <=> h.phase = "finished"
<1> SUFFICES ASSUME h.phase = "finished" PROVE h.round_points # g.round_points
  BY DEF EndsPartie
<1>1. h.partie_loser_id \in Player /\ g.partie_loser_id = NoPlayer
  BY DEF Turns, Typed, Game, MaybePlayer, Sound
<1>2. h.round_points[h.partie_loser_id] = PointsToLose
  BY <1>1 DEF Sound, ScoresFit
<1>3. g.round_points[h.partie_loser_id] # PointsToLose
  BY <1>1, PlayerAssumption DEF Sound, ScoresFit
<1> QED BY <1>2, <1>3

----------------------------------------------------------------------------
(* From stage to stage.                                                    *)

\* What the invariant says of a room nobody goes from.
LEMMA RoomTurnFacts ==
  ASSUME Exits = {}, RoomTurnInv
  PROVE  /\ game \in Game /\ Typed(game) /\ Sound(game) /\ Even(game)
         /\ Once(game.players) /\ (game.phase # "waiting" => game.players # <<>>)
         /\ tasks \in TaskTable /\ \A p \in Player : tasks.afk[p] # "evicting"
         /\ holds \in [Player -> {"none", "turn", "tiebreak"}]
         /\ persists \in [Afterwards -> Nat] /\ persists["nothing"] = 0
         /\ Known(game) \subseteq used /\ used = link /\ Stage
<1>1. /\ game \in Game /\ Typed(game) /\ Sound(game) /\ Even(game) /\ Stage
      /\ tasks \in TaskTable /\ Timed(tasks)
      /\ holds \in [Player -> {"none", "turn", "tiebreak"}]
      /\ persists \in [Afterwards -> Nat] /\ persists["nothing"] = 0
      /\ Known(game) \subseteq used /\ used = link
  BY DEF RoomTurnInv, RoomInv, TypeOK, Tidy, Steady
<1>2. Once(game.players) /\ (game.phase # "waiting" => game.players # <<>>)
  <2>1. Len(<<>>) = 0
    OBVIOUS
  <2> QED BY <1>1, <2>1 DEF Even, Apart, Opening
<1>3. \A p \in Player : tasks.afk[p] # "evicting"
  BY <1>1 DEF Timed, Tasked
<1> QED BY <1>1, <1>2, <1>3

\* The hand depends on the seats and the index alone.
LEMMA SameCurrent ==
  ASSUME NEW g, NEW h, h.players = g.players, h.out_of_match = g.out_of_match,
         h.current_index = g.current_index
  PROVE  CurrentPlayer(h) = CurrentPlayer(g)
<1>1. Active(h) = Active(g) /\ \A k : SeatAt(h, k) = SeatAt(g, k)
  BY DEF Active, Seated, SeatAt
<1>2. \A k : StepsToActive(h, k) = StepsToActive(g, k)
  BY <1>1 DEF StepsToActive
<1> QED BY <1>1, <1>2 DEF CurrentPlayer

\* Whoever ends a handler by rescheduling frees the table.
LEMMA ScheduledFree ==
  ASSUME game' \in Game, Turns(game', "none"), NEW t \in TaskTable, AtRest(t), NEW self,
         tasks' = ScheduleAfk(game', t, self), NoWrite', Awake'
  PROVE  Stage'
  BY Rescheduled DEF Stage, Free

\* A turn or a tiebreak that is settled frees the table or ends the partie.
LEMMA Concluded ==
  ASSUME Typed(game), Sound(game), game.phase # "finished",
         persists \in [Afterwards -> Nat], persists["nothing"] = 0, NoWrite, Awake',
         NEW h, Typed(h), Follows(game, h), Turns(h, "none"), NEW t \in TaskTable, AtRest(t),
         Conclude(game, h, t, "schedule", NoPlayer)
  PROVE  game' = h /\ persists'["nothing"] = 0 /\ Stage'
<1>1. game' = h
  BY DEF Conclude
<1>2. EndsPartie(game, h) <=> h.phase = "finished"
  BY FinishedEndsPartie DEF Follows
<1>3. CASE h.phase = "finished"
  <2>1. tasks' = t /\ persists' = [persists EXCEPT !["schedule"] = @ + 1]
    BY <1>2, <1>3 DEF Conclude
  <2>2. persists'["schedule"] = 1 /\ persists'["nothing"] = 0
    BY <2>1 DEF NoWrite, Afterwards
  <2>3. Writing'
    BY <1>1, <1>3, <2>1, <2>2 DEF Writing, Turns
  <2> QED BY <1>1, <2>2, <2>3 DEF Stage
<1>4. CASE h.phase # "finished"
  <2>1. tasks' = ScheduleAfk(h, t, NoPlayer) /\ persists' = persists
    BY <1>2, <1>4 DEF Conclude
  <2>2. NoWrite' /\ game' \in Game
    BY <1>1, <2>1 DEF NoWrite, Typed
  <2>3. Stage'
    BY <1>1, <2>1, <2>2, ScheduledFree
  <2> QED BY <1>1, <2>1, <2>3
<1> QED BY <1>3, <1>4

\* A change of the game that touches neither hand nor tiebreak leaves the room
\* in its stage.
LEMMA SameHandStage ==
  ASSUME game \in Game, Stage, SameHand(game, game'), tasks' = tasks, holds' = holds,
         persists' = persists, \A s : \A p \in Player : SameHand(GivenBack(game, s, p), GivenBack(game', s, p))
  PROVE  Stage'
<1>1. CurrentPlayer(game') = CurrentPlayer(game) /\ game'.phase = game.phase
  BY SameCurrent DEF SameHand
<1>2. /\ NoWrite' = NoWrite /\ Awake' = Awake /\ \A p \in Player : AwakeBut(p)' = AwakeBut(p)
      /\ AtRest(tasks)' = AtRest(tasks)
      /\ \A p \in Player : RestBut(tasks, p)' = RestBut(tasks, p)
  BY DEF NoWrite, Awake, AwakeBut, AtRest, RestBut
<1>3. CASE Free
  <2>1. TimersFit(game', tasks')
    BY <1>1, <1>3 DEF Free, TimersFit, ToPlay, Stand, SameHand
  <2>2. Watched(game', tasks')
    <3>1. Awaited(game') = Awaited(game)
      BY <1>1 DEF Awaited, SameHand
    <3> QED BY <1>1, <1>3, <3>1 DEF Free, Watched
  <2>3. Turns(game', "none")
    BY <1>3, SameHandKeeps DEF Free
  <2> QED BY <1>2, <1>3, <2>1, <2>2, <2>3 DEF Free, Stage
<1>4. CASE Writing
  <2>1. Writing'
    BY <1>4 DEF Writing, SameHand, Awake, AtRest, RestBut, NoWrite, Calm
  <2> QED BY <2>1 DEF Stage
<1>5. ASSUME NEW p \in Player, Ending(p)
      PROVE  Ending(p)'
  <2> DEFINE b == GivenBack(game, tasks.snap[p], p)
             c == GivenBack(game', tasks.snap[p], p)
  <2>1. Stand(game', p) /\ game'.turn[p].done
    BY <1>1, <1>5 DEF Ending, Stand, SameHand
  <2>2. Turns(game, "turn")
    BY <1>5 DEF Ending, Turns, Stand
  <2>3. Hand(game', "turn")
    BY <2>1, <2>2, SameHandKeeps DEF Turns, Stand
  <2>4. Hand(b, "none") => Hand(c, "none")
    <3>1. SameHand(b, c)
      OBVIOUS
    <3>2. b.phase \in {"charge", "decharge"}
      <4>1. b.phase = game.phase
        BY DEF GivenBack, Game
      <4> QED BY <1>5, <4>1 DEF Ending, Stand
    <3> HIDE DEF b, c
    <3>3. Hand(b, "none") => Turns(b, "none")
      BY <3>2 DEF Turns
    <3>4. Turns(c, "none") => Hand(c, "none")
      BY <3>1, <3>2 DEF Turns, SameHand
    <3> QED BY <3>1, <3>3, <3>4, SameHandKeeps
  <2>5. HandlerSleeps(p) => HandlerSleeps(p)'
    BY DEF HandlerSleeps
  <2>6. BotCommits(p) => BotCommits(p)'
    BY <2>4 DEF BotCommits
  <2> QED BY <1>2, <1>5, <2>1, <2>3, <2>5, <2>6 DEF Ending
<1>6. ASSUME NEW p \in Player, Tying(p)
      PROVE  Tying(p)'
  <2>1. TieHand(game', "tiebreak")
    <3>1. Turns(game, "tiebreak") /\ game.phase = "tiebreak"
      BY <1>6 DEF Tying, Turns
    <3> QED BY <1>1, <3>1, SameHandKeeps DEF Turns
  <2> QED BY <1>1, <1>2, <1>6, <2>1 DEF Tying
<1> QED BY <1>3, <1>4, <1>5, <1>6 DEF Stage

----------------------------------------------------------------------------
(* The timers, the bot and the sleepers.                                   *)

\* What a step from here must show.
Goes == Follows(game, game') /\ Steady' /\ Stage'

\* A timer that finds nothing to do leaves the room in its stage.
LEMMA IdleTimer ==
  ASSUME Exits = {}, RoomTurnInv, NEW p \in Player, tasks.afk[p] \in {"initial", "tiebreak"},
         game.phase = "tiebreak" /\ tasks.afk[p] = "tiebreak" => Awaited(game) # p,
         game' = game, tasks' = Fired(p), holds' = holds, persists' = persists
  PROVE  Stage'
<1>1. tasks \in TaskTable /\ Stage
  BY RoomTurnFacts
<1>2. tasks'.afk = [tasks.afk EXCEPT ![p] = "none"] /\ tasks'.final = tasks.final
      /\ tasks'.snap = tasks.snap
  BY <1>1 DEF Fired, TaskTable
<1>3. tasks'.afk[p] = "none" /\ \A q \in Player \ {p} : tasks'.afk[q] = tasks.afk[q]
  BY <1>1, <1>2 DEF TaskTable
<1>4. AtRest(tasks) => AtRest(tasks')
  BY <1>2, <1>3 DEF AtRest, Calm
<1>5. \A q \in Player : RestBut(tasks, q) => RestBut(tasks', q)
  BY <1>2, <1>3 DEF RestBut, Calm
<1>6. CASE Free
  <2>1. TimersFit(game', tasks')
    BY <1>2, <1>3, <1>6 DEF Free, TimersFit, Calm
  <2>2. Watched(game', tasks')
    <3>1. CASE Awaited(game) # p
      <4>1. Awaited(game) \in MaybePlayer
        BY RoomTurnFacts, AwaitedType
      <4> QED BY <1>3, <1>6, <3>1, <4>1 DEF Free, Watched, MaybePlayer
    <3>2. CASE Awaited(game) = p
      BY <1>6, <3>2 DEF Free, Watched
    <3> QED BY <3>1, <3>2
  <2>3. NoWrite' /\ Awake' /\ Turns(game', "none")
    BY <1>6 DEF Free, NoWrite, Awake
  <2> QED BY <2>1, <2>2, <2>3 DEF Free, Stage
<1>7. CASE Writing
  <2>1. ASSUME NEW q \in Player, tasks.afk[q] = "persisting"
        PROVE  tasks'.afk[q] = "persisting"
    BY <1>3, <2>1
  <2>2. Writing'
    BY <1>2, <1>4, <1>5, <1>7, <2>1 DEF Writing, Awake, NoWrite
  <2> QED BY <2>2 DEF Stage
<1>8. ASSUME NEW q \in Player, Ending(q)
      PROVE  Ending(q)'
  <2>1. HandlerSleeps(q) => HandlerSleeps(q)'
    BY <1>2, <1>3 DEF HandlerSleeps, Calm
  <2>2. BotCommits(q) => BotCommits(q)'
    BY <1>2, <1>3 DEF BotCommits
  <2> QED BY <1>5, <1>8, <2>1, <2>2 DEF Ending, NoWrite, AwakeBut
<1>9. ASSUME NEW q \in Player, Tying(q)
      PROVE  Tying(q)'
  BY <1>4, <1>9 DEF Tying, NoWrite, AwakeBut
<1> QED BY <1>1, <1>6, <1>7, <1>8, <1>9 DEF Stage

\* In an initial roll the table is free and no timer can move the hand.
LEMMA OpeningRests ==
  ASSUME Exits = {}, RoomTurnInv, game.phase \in {"waiting", "initial_roll"}
  PROVE  NoWrite /\ Awake /\ AtRest(tasks)
<1>1. Free
  BY RoomTurnFacts DEF Stage, Writing, Ending, Stand, Tying
<1> QED BY <1>1, FitRests DEF Free

\* The timer of a player who owes an initial roll.
LEMMA AfkInitialGoes ==
  ASSUME Exits = {}, RoomTurnInv, RoomInv', NEW p \in Player, AfkInitial(p)
  PROVE  Goes
<1> USE RoomTurnFacts
<1>1. Steady'
  BY DEF AfkInitial, RoomTurnInv, Steady
<1>2. CASE game.phase = "initial_roll" /\ p \in ToRoll(game)
  <2>1. PICK d \in Die : game' \in RollInitial(game, p, d)
    BY <1>2 DEF AfkInitial
  <2>2. Sound(game') /\ Even(game') /\ SameMatch(game, game')
    BY <1>2, <2>1, RollInitialSound, RollInitialEven DEF Keeps
  <2>3. Turns(game', "none")
    BY <1>2, <2>1, RollInitialHand DEF Turns
  <2>4. Fired(p) \in TaskTable /\ AtRest(Fired(p))
    <3>1. Fired(p) \in TaskTable
      BY DEF Fired, TaskTable, AfkTask
    <3>2. Fired(p).afk = [tasks.afk EXCEPT ![p] = "none"] /\ Fired(p).final = tasks.final
      BY DEF Fired, TaskTable
    <3>3. \A q \in Player : Fired(p).afk[q] \in {"none", tasks.afk[q]}
      BY <3>2 DEF TaskTable
    <3> QED BY <1>2, <3>1, <3>2, <3>3, OpeningRests DEF AtRest, Calm
  <2>5. tasks' = ScheduleAfk(game', Fired(p), p)
    BY <1>2 DEF AfkInitial
  <2>6. NoWrite' /\ Awake' /\ game' \in Game
    BY <1>2, OpeningRests DEF AfkInitial, NoWrite, Awake, RoomInv, TypeOK
  <2>7. Stage'
    BY <2>3, <2>4, <2>5, <2>6, ScheduledFree
  <2> QED BY <1>1, <2>2, <2>7 DEF Goes, Follows, MatchStep
<1>3. CASE ~(game.phase = "initial_roll" /\ p \in ToRoll(game))
  <2>1. game' = game /\ tasks' = Fired(p)
    BY <1>3 DEF AfkInitial
  <2>2. tasks.afk[p] = "initial" /\ holds' = holds /\ persists' = persists
    BY DEF AfkInitial, AfkMayFire
  <2>3. Stage'
    BY <2>1, <2>2, IdleTimer
  <2>4. Follows(game, game')
    BY <2>1, SameNothing, SameFollows
  <2> QED BY <1>1, <2>3, <2>4 DEF Goes
<1> QED BY <1>2, <1>3

\* The timer of a tied player throws, and settles the tiebreak with the last throw.
LEMMA AfkTiebreakGoes ==
  ASSUME Exits = {}, RoomTurnInv, RoomInv', NEW p \in Player, AfkTiebreak(p)
  PROVE  Goes
<1> USE RoomTurnFacts
<1>1. Steady' /\ tasks.afk[p] = "tiebreak"
  BY DEF AfkTiebreak, AfkMayFire, RoomTurnInv, Steady
<1>2. Fired(p) \in TaskTable /\ (AtRest(tasks) => AtRest(Fired(p)))
  <2>1. Fired(p) \in TaskTable
    BY DEF Fired, TaskTable, AfkTask
  <2>2. Fired(p).afk = [tasks.afk EXCEPT ![p] = "none"] /\ Fired(p).final = tasks.final
    BY DEF Fired, TaskTable
  <2>3. \A q \in Player : Fired(p).afk[q] \in {"none", tasks.afk[q]}
    BY <2>2 DEF TaskTable
  <2> QED BY <2>1, <2>2, <2>3 DEF AtRest, Calm
<1>3. CASE MayThrowTiebreak(game, p) /\ p \in Seated(game)
  <2>1. PICK rank \in Rank :
          LET g == ThrowTiebreak(game, p, rank)
              last == g.tiebreak.next_pid = NoPlayer
              h == IF last THEN ResolveTiebreak(g) ELSE g
          IN  /\ game' = h
              /\ tasks' = IF last /\ TiebreakRaises(g) THEN Fired(p)
                          ELSE IF EndsPartie(g, h) THEN [tasks EXCEPT !.afk[p] = "persisting"]
                          ELSE ScheduleAfk(h, Fired(p), NoPlayer)
    BY <1>3 DEF AfkTiebreak
  <2> DEFINE g == ThrowTiebreak(game, p, rank)
             last == g.tiebreak.next_pid = NoPlayer
             h == IF last THEN ResolveTiebreak(g) ELSE g
  <2>2. game.phase = "tiebreak" /\ game.tiebreak.next_pid = p
    BY <1>3 DEF MayThrowTiebreak
  <2>3. Free
    BY <2>2, PlayerAssumption DEF Stage, Writing, Ending, Stand, Tying, TieHand
  <2>4. AtRest(tasks) /\ TieHand(game, "none")
    BY <2>2, <2>3, FitRests DEF Free, Turns
  <2>5. /\ Follows(game, g) /\ Typed(g) /\ g.phase = "tiebreak"
        /\ Follows(game, ResolveTiebreak(g))
    BY <1>3, <2>2, TiebreakFollows
  <2>6. TieHand(g, IF last THEN "tiebreak" ELSE "none")
    BY <1>3, <2>4, ThrowTiebreakHand
  <2>7. last => ~TiebreakRaises(g) /\ Turns(ResolveTiebreak(g), "none")
    BY <2>5, <2>6, ResolveTiebreakHand DEF Follows
  <2>8. Turns(h, "none") /\ Follows(game, h) /\ Typed(h)
    <3>1. CASE last
      BY <2>5, <2>7, <3>1, ResolveTiebreakType
    <3>2. CASE ~last
      BY <2>5, <2>6, <3>2 DEF Turns
    <3> QED BY <3>1, <3>2
  <2>9. NoWrite' /\ Awake'
    BY <2>3 DEF AfkTiebreak, Free, NoWrite, Awake
  <2> HIDE DEF g, h
  <2>10. game' = h
    BY <2>1 DEF g, h
  <2>11. CASE EndsPartie(g, h)
    <3>1. tasks' = [tasks EXCEPT !.afk[p] = "persisting"]
      BY <2>1, <2>7, <2>11 DEF g, h
    <3>2. tasks'.afk[p] = "persisting" /\ tasks'.final = tasks.final
          /\ \A q \in Player \ {p} : tasks'.afk[q] = tasks.afk[q]
      BY <3>1 DEF TaskTable
    <3>3. game'.phase = "finished" /\ game'.partie_loser_id # NoPlayer
      BY <2>8, <2>10, <2>11 DEF EndsPartie, Turns
    <3>4. tasks'.final[p] = "none" /\ RestBut(tasks', p)
      BY <2>4, <3>2 DEF AtRest, RestBut, Calm
    <3>5. Writing'
      BY <2>9, <3>2, <3>3, <3>4 DEF Writing
    <3> QED BY <1>1, <2>8, <2>10, <3>5 DEF Goes, Stage
  <2>12. CASE ~EndsPartie(g, h)
    <3>1. tasks' = ScheduleAfk(h, Fired(p), NoPlayer)
      BY <2>1, <2>7, <2>12 DEF g, h
    <3>2. Stage'
      BY <1>2, <2>4, <2>8, <2>9, <2>10, <3>1, ScheduledFree DEF Typed
    <3> QED BY <1>1, <2>8, <2>10, <3>2 DEF Goes
  <2> QED BY <2>11, <2>12
<1>4. CASE ~(MayThrowTiebreak(game, p) /\ p \in Seated(game))
  <2>1. game' = game /\ tasks' = Fired(p) /\ holds' = holds /\ persists' = persists
    BY <1>4 DEF AfkTiebreak
  <2>2. game.phase = "tiebreak" => Awaited(game) # p
    <3> SUFFICES ASSUME game.phase = "tiebreak", game.tiebreak.next_pid = p PROVE FALSE
      BY DEF Awaited
    <3>1. p \in Seated(game)
      BY PlayerAssumption DEF Even, TiedPlay, Active
    <3> QED BY <1>4, <3>1 DEF MayThrowTiebreak
  <2>3. Stage'
    BY <1>1, <2>1, <2>2, IdleTimer
  <2>4. Follows(game, game')
    BY <2>1, SameNothing, SameFollows
  <2> QED BY <1>1, <2>3, <2>4 DEF Goes
<1> QED BY <1>3, <1>4

\* A timer with which a turn can be played is that of the player who has yet to
\* play it, and the table is free.
LEMMA TurnTimerFits ==
  ASSUME Exits = {}, RoomTurnInv, NEW p \in Player, tasks.afk[p] \in {"turn", "warned"}
  PROVE  Free /\ ToPlay(game, p)
<1>1. Free
  BY RoomTurnFacts DEF Stage, Writing, AtRest, Ending, HandlerSleeps, BotCommits, Tying, RestBut,
     Calm
<1> QED BY <1>1 DEF Free, TimersFit, Calm

\* The bot plays the turn, and will commit it.
LEMMA BotPlaysGoes ==
  ASSUME Exits = {}, RoomTurnInv, NEW p \in Player, Free, ToPlay(game, p), BotPlays(p),
         holds' = holds, persists' = persists, Steady'
  PROVE  Goes
<1> USE RoomTurnFacts
<1>1. /\ game.phase \in {"charge", "decharge"} /\ p = CurrentPlayer(game)
      /\ Hand(game, "none") /\ RestBut(tasks, p) /\ tasks.final[p] = "none"
  BY FitRests DEF Free, ToPlay, Stand, Turns
<1>2. PICK turn \in BotTurns(game, p) :
        game' = BotLocks([game EXCEPT !.turn[p] = turn], p)
  BY DEF BotPlays
<1>3. /\ Hand(game', "turn") /\ TurnWritten(game, p, game') /\ game'.turn[p].done
      /\ SameHand(game, GivenBack(game', SnapOf(game, p), p))
  BY <1>1, <1>2, BotHand
<1>4. tasks' = [tasks EXCEPT !.afk[p] = "played", !.snap[p] = SnapOf(game, p)]
  BY DEF BotPlays, SnapOf
<1>5. /\ tasks'.afk[p] = "played" /\ tasks'.snap[p] = SnapOf(game, p)
      /\ tasks'.final = tasks.final
      /\ \A q \in Player \ {p} : tasks'.afk[q] = tasks.afk[q]
  BY <1>4 DEF TaskTable
<1>6. tasks'.snap[p].turn # NoTurn
  <2>1. tasks'.snap[p].turn = game.turn[p]
    BY <1>5 DEF SnapOf
  <2>2. Open(game, p)
    BY <1>1, HandOf
  <2> QED BY <2>1, <2>2 DEF Open, NoTurn
<1>7. Hand(GivenBack(game', tasks'.snap[p], p), "none")
  <2>1. Turns(GivenBack(game', SnapOf(game, p), p), "none")
    BY <1>3, SameHandKeeps DEF Free
  <2> QED BY <1>1, <1>3, <1>5, <2>1 DEF Turns, SameHand
<1>8. Stand(game', p) /\ RestBut(tasks', p)
  <2>1. CurrentPlayer(game') = p
    BY <1>1, <1>3, SameCurrent DEF TurnWritten
  <2> QED BY <1>1, <1>3, <1>5, <2>1 DEF Stand, TurnWritten, RestBut, Calm
<1>9. NoWrite' /\ AwakeBut(p)' /\ holds'[p] = "none"
  BY DEF Free, NoWrite, Awake, AwakeBut
<1>10. Ending(p)'
  BY <1>1, <1>3, <1>5, <1>6, <1>7, <1>8, <1>9 DEF Ending, BotCommits
<1>11. Follows(game, game')
  BY <1>2, TurnsAreSame, SameFollows
<1> QED BY <1>10, <1>11 DEF Goes, Stage

\* The timer of a turn warns the player or has the bot play.
LEMMA AfkTurnGoes ==
  ASSUME Exits = {}, RoomTurnInv, NEW p \in Player, AfkTurn(p) \/ AfkWarned(p)
  PROVE  Goes
<1> USE RoomTurnFacts
<1>1. Steady' /\ holds' = holds /\ persists' = persists
  BY DEF AfkTurn, AfkWarned, RoomTurnInv, Steady
<1>2. Free /\ ToPlay(game, p)
  BY TurnTimerFits DEF AfkTurn, AfkMayFire, AfkWarned
<1>3. /\ p \in Seated(game) /\ game.turn[p] # NoTurn /\ ~game.turn[p].done
      /\ CurrentPlayer(game) = p
  <2>1. /\ Hand(game, "none") /\ CurrentPlayer(game) = p
    BY <1>2 DEF Free, ToPlay, Stand, Turns
  <2>2. Open(game, p) /\ p \in Active(game)
    BY <2>1, HandOf
  <2> QED BY <2>1, <2>2 DEF Open, NoTurn, Active
<1>4. CASE BotPlays(p)
  BY <1>1, <1>2, <1>4, BotPlaysGoes
<1>5. CASE game' = game /\ tasks.afk[p] = "turn" /\ tasks' = [tasks EXCEPT !.afk[p] = "warned"]
  <2>1. /\ tasks'.afk[p] = "warned" /\ tasks'.final = tasks.final
        /\ \A q \in Player \ {p} : tasks'.afk[q] = tasks.afk[q]
    BY <1>5 DEF TaskTable
  <2>2. TimersFit(game', tasks')
    BY <1>2, <1>5, <2>1 DEF Free, TimersFit, Calm
  <2>3. Watched(game', tasks')
    <3>1. Awaited(game) = p
      BY <1>2 DEF ToPlay, Stand, Awaited
    <3> QED BY <1>2, <1>5, <2>1, <3>1 DEF ToPlay, Stand, Watched
  <2>4. Free'
    BY <1>1, <1>2, <1>5, <2>2, <2>3 DEF Free, NoWrite, Awake
  <2>5. Follows(game, game')
    BY <1>5, SameNothing, SameFollows
  <2> QED BY <1>1, <2>4, <2>5 DEF Goes, Stage
<1>6. \/ BotPlays(p)
      \/ game' = game /\ tasks.afk[p] = "turn" /\ tasks' = [tasks EXCEPT !.afk[p] = "warned"]
  BY <1>3 DEF AfkTurn, AfkWarned, AfkMayFire, Departs
<1> QED BY <1>4, <1>5, <1>6

\* The task that will commit the bot's turn starts.
LEMMA AfkHandoffGoes ==
  ASSUME Exits = {}, RoomTurnInv, NEW p \in Player, AfkHandoff(p)
  PROVE  Goes
<1> USE RoomTurnFacts
<1>1. Steady' /\ game' = game /\ holds' = holds /\ persists' = persists
  BY DEF AfkHandoff, RoomTurnInv, Steady
<1>2. tasks.afk[p] = "played"
  BY DEF AfkHandoff
<1>3. Ending(p) /\ BotCommits(p)
  BY <1>2 DEF Stage, Free, TimersFit, Writing, AtRest, Ending, HandlerSleeps, Tying, RestBut, Calm
<1>4. tasks' = [tasks EXCEPT !.afk[p] = "none", !.final[p] = "tracked"]
  BY DEF AfkHandoff
<1>5. /\ tasks'.afk[p] = "none" /\ tasks'.final[p] = "tracked" /\ tasks'.snap = tasks.snap
      /\ \A q \in Player \ {p} : tasks'.afk[q] = tasks.afk[q] /\ tasks'.final[q] = tasks.final[q]
  BY <1>4 DEF TaskTable
<1>6. RestBut(tasks', p)
  BY <1>3, <1>5 DEF Ending, RestBut, Calm
<1>7. Ending(p)'
  BY <1>1, <1>3, <1>5, <1>6 DEF Ending, BotCommits, NoWrite, AwakeBut
<1>8. Follows(game, game')
  BY <1>1, SameNothing, SameFollows
<1> QED BY <1>1, <1>7, <1>8 DEF Goes, Stage

\* A turn that ends is committed: by the handler that wakes up or by the bot.
LEMMA TurnEndsGoes ==
  ASSUME Exits = {}, RoomTurnInv, NEW p \in Player, ResumeTurn(p) \/ FinalizeBot(p)
  PROVE  Goes /\ Ending(p) /\ game' = EndTurn(game)
<1> USE RoomTurnFacts
<1>1. Ending(p) /\ (ResumeTurn(p) => HandlerSleeps(p))
      /\ (FinalizeBot(p) => BotCommits(p) /\ tasks.final[p] = "tracked")
  BY DEF ResumeTurn, FinalizeBot, Stage, Free, Awake, TimersFit, Writing, AtRest, Ending,
         HandlerSleeps, BotCommits, Tying, AwakeBut, RestBut, Calm
<1>2. game.phase \in {"charge", "decharge"} /\ Hand(game, "turn") /\ InCycle(game) /\ NoWrite
  BY <1>1 DEF Ending, Stand, InCycle
<1>3. /\ Typed(EndTurn(game)) /\ Follows(game, EndTurn(game)) /\ Turns(EndTurn(game), "none")
  BY <1>2, EndTurnType, EndTurnFollows, EndTurnHand
<1>4. PICK t \in TaskTable :
        AtRest(t) /\ Conclude(game, EndTurn(game), t, "schedule", NoPlayer) /\ Awake'
  <2>1. CASE ResumeTurn(p)
    <3>1. AtRest(tasks)
      BY <1>1, <2>1 DEF Ending, HandlerSleeps, AtRest, RestBut
    <3>2. Awake'
      BY <1>1, <2>1 DEF Ending, ResumeTurn, Awake, AwakeBut
    <3> QED BY <2>1, <3>1, <3>2 DEF ResumeTurn
  <2>2. CASE FinalizeBot(p)
    <3> DEFINE t == [tasks EXCEPT !.final[p] = "none", !.snap[p] = NoSnapshot]
    <3>1. t \in TaskTable
      BY SnapshotTypes DEF TaskTable
    <3>2. /\ t.afk = tasks.afk /\ t.final = [tasks.final EXCEPT ![p] = "none"]
      BY DEF TaskTable
    <3>3. AtRest(t)
      <4> HIDE DEF t
      <4>1. tasks.final \in [Player -> {"none", "tracked", "orphan"}]
        BY DEF TaskTable
      <4> QED BY <1>1, <2>2, <3>2, <4>1 DEF Ending, BotCommits, AtRest, RestBut, Calm
    <3>4. Awake'
      BY <1>1, <2>2 DEF Ending, BotCommits, FinalizeBot, Awake, AwakeBut
    <3>5. Conclude(game, EndTurn(game), t, "schedule", NoPlayer)
      BY <2>2 DEF FinalizeBot
    <3> HIDE DEF t
    <3> QED BY <3>1, <3>3, <3>4, <3>5
  <2> QED BY <2>1, <2>2
<1>5. game' = EndTurn(game) /\ persists'["nothing"] = 0 /\ Stage'
  BY <1>2, <1>3, <1>4, Concluded
<1>6. Steady'
  BY <1>5 DEF ResumeTurn, FinalizeBot, RoomTurnInv, Steady
<1> QED BY <1>1, <1>3, <1>5, <1>6 DEF Goes

\* The tiebreak is settled when the handler of its last throw wakes up.
LEMMA TiebreakEndsGoes ==
  ASSUME Exits = {}, RoomTurnInv, NEW p \in Player, ResumeTiebreak(p)
  PROVE  Goes
<1> USE RoomTurnFacts
<1>1. Tying(p)
  BY DEF ResumeTiebreak, Stage, Free, Awake, Writing, Ending, HandlerSleeps, BotCommits, Tying,
         AwakeBut
<1>2. game.phase = "tiebreak" /\ TieHand(game, "tiebreak") /\ NoWrite /\ AtRest(tasks)
  BY <1>1 DEF Tying
<1>3. ~TiebreakRaises(game) /\ Turns(ResolveTiebreak(game), "none")
  BY <1>2, ResolveTiebreakHand
<1>4. Typed(ResolveTiebreak(game)) /\ Follows(game, ResolveTiebreak(game))
  BY <1>2, ResolveTiebreakType, TiebreakFollows
<1>5. Awake'
  BY <1>1 DEF Tying, ResumeTiebreak, Awake, AwakeBut
<1>6. Conclude(game, ResolveTiebreak(game), tasks, "schedule", NoPlayer)
  BY <1>3 DEF ResumeTiebreak
<1>7. game' = ResolveTiebreak(game) /\ persists'["nothing"] = 0 /\ Stage'
  BY <1>2, <1>3, <1>4, <1>5, <1>6, Concluded
<1>8. Steady'
  BY <1>7 DEF ResumeTiebreak, RoomTurnInv, Steady
<1> QED BY <1>4, <1>7, <1>8 DEF Goes

\* The next partie begins when the write is done, for the handler and for the
\* timer task that waits for it.
LEMMA PartieGoes ==
  ASSUME Exits = {}, RoomTurnInv, RoomInv',
         \/ \E then \in Afterwards : ResumePartie(then)
         \/ \E p \in Player : AfkPartie(p)
  PROVE  Goes
<1> USE RoomTurnFacts
<1>1. Writing /\ game' = StartNewPartie(game) /\ holds' = holds
  BY DEF ResumePartie, AfkPartie, Stage, Free, NoWrite, TimersFit, Calm, Ending, HandlerSleeps,
         BotCommits, Tying, AtRest, RestBut, Afterwards
<1>2. Follows(game, game') /\ Turns(game', "none")
  BY <1>1, StartNewPartieFollows DEF Writing
<1>3. PICK t \in TaskTable :
        AtRest(t) /\ tasks' = ScheduleAfk(game', t, NoPlayer) /\ NoWrite' /\ Steady'
  <2>1. CASE \E then \in Afterwards : ResumePartie(then)
    <3>1. PICK then \in Afterwards : ResumePartie(then)
      BY <2>1
    <3>2. then = "schedule" /\ persists["schedule"] > 0
      BY <3>1 DEF ResumePartie, Afterwards
    <3>3. persists["schedule"] = 1 /\ AtRest(tasks)
      BY <1>1, <3>2 DEF Writing, NoWrite
    <3>4. persists' = [persists EXCEPT !["schedule"] = @ - 1]
      BY <3>1, <3>2 DEF ResumePartie
    <3>5. NoWrite' /\ persists'["nothing"] = 0
      BY <3>3, <3>4 DEF NoWrite, Afterwards
    <3> QED BY <3>1, <3>2, <3>3, <3>5 DEF ResumePartie, RoomTurnInv, Steady
  <2>2. CASE \E p \in Player : AfkPartie(p)
    <3>1. PICK p \in Player : AfkPartie(p)
      BY <2>2
    <3>2. NoWrite /\ RestBut(tasks, p) /\ tasks.final[p] = "none"
      BY <1>1, <3>1 DEF AfkPartie, Writing, AtRest, RestBut, Calm
    <3>3. Fired(p) \in TaskTable
      BY DEF Fired, TaskTable, AfkTask
    <3>4. Fired(p).afk = [tasks.afk EXCEPT ![p] = "none"] /\ Fired(p).final = tasks.final
      BY DEF Fired, TaskTable
    <3>5. AtRest(Fired(p))
      BY <3>2, <3>4 DEF AtRest, RestBut, Calm, TaskTable
    <3> QED BY <3>1, <3>2, <3>3, <3>5 DEF AfkPartie, NoWrite, RoomTurnInv, Steady
  <2> QED BY <2>1, <2>2
<1>4. Awake' /\ game' \in Game
  BY <1>1 DEF Writing, Awake, RoomInv, TypeOK
<1>5. Stage'
  BY <1>2, <1>3, <1>4, ScheduledFree
<1> QED BY <1>2, <1>3, <1>5 DEF Goes

----------------------------------------------------------------------------
(* The players' messages.                                                  *)

\* A turn that is taken back is as it was, and no task is left that would move
\* the hand.
LEMMA TakesBack ==
  ASSUME Exits = {}, RoomTurnInv, NEW p \in Player, Plays(p), Reclaims(p)
  PROVE  /\ Ending(p) /\ BotCommits(p) /\ Returns
         /\ Same(game, GameFor(p)) /\ Typed(GameFor(p)) /\ Hand(GameFor(p), "none")
         /\ GameFor(p).players = game.players
         /\ TasksFor(p) \in TaskTable /\ AtRest(TasksFor(p))
<1> USE RoomTurnFacts
<1>1. tasks.final[p] = "tracked" /\ Returns /\ holds[p] = "none"
  BY DEF Plays, Reclaims, Listens
<1>2. Ending(p) /\ BotCommits(p)
  BY <1>1 DEF Stage, Free, TimersFit, Writing, AtRest, Ending, HandlerSleeps, Tying, RestBut, Calm
<1>3. p \in Seated(game)
  <2>1. CurrentPlayer(game) = p /\ Hand(game, "turn")
    BY <1>2 DEF Ending, Stand
  <2>2. PICK s, d \in 0..(Len(game.players) - 1) : Round(game, s, d)
    BY <2>1 DEF Hand
  <2> QED BY <2>1, <2>2, RoundHand DEF Active
<1>4. Abortable(tasks, p)
  BY <1>1, <1>2 DEF BotCommits, Abortable, NoSnapshot
<1>5. GameFor(p) = GivenBack(game, tasks.snap[p], p)
  BY <1>1, <1>3, <1>4 DEF GameFor, Reclaims, AbortGame, GivenBack
<1>6. Same(game, GameFor(p)) /\ GameFor(p).players = game.players
  <2>1. Same(game, GameFor(p))
    BY <1>5, TurnsAreSame
  <2> QED BY <2>1 DEF Same, Idle, SameSeats
<1>7. Typed(GameFor(p))
  BY Reclaimed DEF RoomTurnInv, Tidy
<1>8. TasksFor(p) \in TaskTable
  BY Reclaimed DEF RoomTurnInv, Timed
<1>9. AtRest(TasksFor(p))
  <2>1. TasksFor(p) = [tasks EXCEPT !.snap[p] = NoSnapshot, !.final[p] = "none"]
    BY <1>1, <1>4 DEF TasksFor, Reclaims, AbortTasks, TaskTable
  <2>2. /\ TasksFor(p).afk = tasks.afk
        /\ TasksFor(p).final = [tasks.final EXCEPT ![p] = "none"]
    BY <2>1 DEF TaskTable
  <2>3. tasks.final \in [Player -> {"none", "tracked", "orphan"}]
    BY DEF TaskTable
  <2> QED BY <1>1, <1>2, <2>2, <2>3 DEF Ending, BotCommits, AtRest, RestBut, Calm
<1> QED BY <1>1, <1>2, <1>5, <1>6, <1>7, <1>8, <1>9 DEF BotCommits

\* Whoever may play, on its own turn or on one it takes back, finds the table
\* free for it.
LEMMA OnTurn ==
  ASSUME Exits = {}, RoomTurnInv, NEW p \in Player, Plays(p),
         GameFor(p).phase \in {"charge", "decharge"}, p = CurrentPlayer(GameFor(p)),
         ~GameFor(p).turn[p].done
  PROVE  /\ Same(game, GameFor(p)) /\ Typed(GameFor(p)) /\ Hand(GameFor(p), "none")
         /\ Once(GameFor(p).players) /\ GameFor(p).players # <<>>
         /\ CancelAfk(TasksFor(p), p) \in TaskTable /\ AtRest(CancelAfk(TasksFor(p), p))
         /\ NoWrite /\ Awake
<1> USE RoomTurnFacts
<1>1. CASE Reclaims(p)
  <2>1. /\ Ending(p) /\ BotCommits(p) /\ Same(game, GameFor(p)) /\ Typed(GameFor(p))
        /\ Hand(GameFor(p), "none") /\ GameFor(p).players = game.players
        /\ TasksFor(p) \in TaskTable /\ AtRest(TasksFor(p))
    BY <1>1, TakesBack
  <2>2. NoWrite /\ Awake /\ game.phase # "waiting"
    BY <2>1 DEF Ending, Stand, BotCommits, Awake, AwakeBut
  <2>3. CancelAfk(TasksFor(p), p) \in TaskTable /\ AtRest(CancelAfk(TasksFor(p), p))
    BY <2>1, CancelRests DEF AtRest, RestBut, Calm
  <2> QED BY <2>1, <2>2, <2>3
<1>2. CASE ~Reclaims(p)
  <2>1. GameFor(p) = game /\ TasksFor(p) = tasks
    BY <1>2 DEF GameFor, TasksFor
  <2>2. Free
    BY <2>1 DEF Stage, Writing, Ending, Stand, Tying
  <2>3. Hand(game, "none") /\ NoWrite /\ Awake /\ RestBut(tasks, p) /\ tasks.final[p] = "none"
    BY <2>1, <2>2, FitRests DEF Free, Turns, Stand
  <2>4. CancelAfk(tasks, p) \in TaskTable /\ AtRest(CancelAfk(tasks, p))
    BY <2>3, CancelRests
  <2> QED BY <2>1, <2>3, <2>4, SameNothing
<1> QED BY <1>1, <1>2

\* p's turn has been validated and its handler goes to sleep.
LEMMA GoesToSleep ==
  ASSUME NEW p \in Player, NoWrite', tasks' \in TaskTable, AtRest(tasks)',
         AwakeBut(p)', holds'[p] = "turn",
         Stand(game', p), game'.turn[p].done, Hand(game', "turn")
  PROVE  Stage'
<1>1. RestBut(tasks', p) /\ Calm(tasks', p)
  BY DEF AtRest, RestBut
<1>2. Ending(p)'
  BY <1>1 DEF Ending, HandlerSleeps
<1> QED BY <1>2 DEF Stage

\* A throw.
LEMMA RollGoes ==
  ASSUME Exits = {}, RoomTurnInv, RoomInv', NEW p \in Player, Roll(p)
  PROVE  Goes
<1> USE RoomTurnFacts
<1> DEFINE g == GameFor(p)
           t == CancelAfk(TasksFor(p), p)
<1>1. /\ Plays(p) /\ MayRoll(g, p) /\ g.phase \in {"charge", "decharge"}
      /\ p = CurrentPlayer(g) /\ ~g.turn[p].done
  BY DEF Roll, MayRoll
<1>2. /\ Same(game, g) /\ Typed(g) /\ Hand(g, "none") /\ Once(g.players) /\ g.players # <<>>
      /\ t \in TaskTable /\ AtRest(t) /\ NoWrite /\ Awake
  BY <1>1, OnTurn
<1> HIDE DEF g, t
<1>3. PICK rank \in Rank : game' = Throw(g, p, rank)
  BY DEF Roll, g
<1>4. Hand(game', IF game'.turn[p].done THEN "turn" ELSE "none")
  BY <1>1, <1>2, <1>3, ThrowHand
<1>5. game'.phase = g.phase /\ CurrentPlayer(game') = p
  <2>1. /\ game'.phase = g.phase /\ game'.players = g.players
        /\ game'.out_of_match = g.out_of_match /\ game'.current_index = g.current_index
    BY <1>2, <1>3 DEF Throw, Typed, Game
  <2> QED BY <1>1, <2>1, SameCurrent
<1>6. Follows(game, game')
  <2>1. Same(g, game')
    BY <1>2, <1>3, TurnsAreSame DEF Typed
  <2> QED BY <1>2, <2>1, SameTwice, SameFollows
<1>7. Steady' /\ NoWrite'
  BY <1>2 DEF Roll, RoomTurnInv, Steady, NoWrite
<1>8. CASE game'.turn[p].done
  <2>1. tasks' = t /\ holds' = [holds EXCEPT ![p] = "turn"]
    BY <1>8 DEF Roll, t
  <2>2. AwakeBut(p)' /\ holds'[p] = "turn"
    BY <1>2, <2>1 DEF Awake, AwakeBut
  <2>3. Stand(game', p)
    BY <1>1, <1>5 DEF Stand
  <2>4. Stage'
    BY <1>2, <1>4, <1>7, <1>8, <2>1, <2>2, <2>3, GoesToSleep
  <2> QED BY <1>6, <1>7, <2>4 DEF Goes
<1>9. CASE ~game'.turn[p].done
  <2>1. tasks' = ScheduleAfk(game', t, NoPlayer) /\ holds' = holds
    BY <1>9 DEF Roll, t
  <2>2. Turns(game', "none") /\ Awake' /\ game' \in Game
    BY <1>1, <1>2, <1>4, <1>5, <1>9, <2>1 DEF Turns, Awake, RoomInv, TypeOK
  <2>3. Stage'
    BY <1>2, <1>7, <2>1, <2>2, ScheduledFree
  <2> QED BY <1>6, <1>7, <2>3 DEF Goes
<1> QED BY <1>8, <1>9

\* Dice kept or released.
LEMMA KeepGoes ==
  ASSUME Exits = {}, RoomTurnInv, RoomInv', NEW p \in Player, Keep(p)
  PROVE  Goes
<1> USE RoomTurnFacts
<1> DEFINE g == GameFor(p)
           t == CancelAfk(TasksFor(p), p)
<1>1. /\ Plays(p) /\ g.phase \in {"charge", "decharge"}
      /\ p = CurrentPlayer(g) /\ ~g.turn[p].done
  BY DEF Keep, MayValidate
<1>2. /\ Same(game, g) /\ Typed(g) /\ Hand(g, "none")
      /\ t \in TaskTable /\ AtRest(t) /\ NoWrite /\ Awake
  BY <1>1, OnTurn
<1>3. game' = g /\ tasks' = ScheduleAfk(g, t, NoPlayer)
  BY DEF Keep
<1> HIDE DEF g, t
<1>4. Follows(game, game')
  BY <1>2, <1>3, SameFollows
<1>5. Steady' /\ NoWrite' /\ Awake'
  BY <1>2 DEF Keep, RoomTurnInv, Steady, NoWrite, Awake
<1>6. Turns(game', "none") /\ game' \in Game
  BY <1>1, <1>2, <1>3 DEF Turns, Typed
<1>7. Stage'
  BY <1>2, <1>3, <1>5, <1>6, ScheduledFree
<1> QED BY <1>4, <1>5, <1>7 DEF Goes

\* A validation, also of a turn the bot has just played and not committed.
LEMMA DoneGoes ==
  ASSUME Exits = {}, RoomTurnInv, RoomInv', NEW p \in Player, Done(p)
  PROVE  Goes
<1> USE RoomTurnFacts
<1> DEFINE g == GameFor(p)
           t == CancelAfk(TasksFor(p), p)
<1>1. /\ Plays(p) /\ MayValidate(g, p) /\ g.phase \in {"charge", "decharge"}
      /\ p = CurrentPlayer(g) /\ game' = Validate(g, p) /\ tasks' = t
      /\ holds' = [holds EXCEPT ![p] = "turn"]
  BY DEF Done, MayValidate
<1>2. /\ Same(game, g) /\ Typed(g) /\ t \in TaskTable /\ AtRest(t) /\ NoWrite /\ AwakeBut(p)
      /\ Hand(game', "turn") /\ game'.turn[p].done
  <2>1. CASE ~g.turn[p].done
    <3>1. /\ Same(game, g) /\ Typed(g) /\ Hand(g, "none") /\ Once(g.players) /\ g.players # <<>>
          /\ t \in TaskTable /\ AtRest(t) /\ NoWrite /\ Awake
      BY <1>1, <2>1, OnTurn
    <3> HIDE DEF g, t
    <3>2. Hand(game', "turn")
      BY <1>1, <3>1, ValidateHand
    <3>3. game'.turn[p].done
      BY <1>1, <3>1 DEF Validate, Typed, Game, Turn
    <3> QED BY <3>1, <3>2, <3>3 DEF Awake, AwakeBut
  <2>2. CASE g.turn[p].done
    <3>1. ~Reclaims(p)
      <4> SUFFICES ASSUME Reclaims(p) PROVE FALSE
        OBVIOUS
      <4>1. Typed(g) /\ Hand(g, "none")
        BY <1>1, TakesBack
      <4> HIDE DEF g
      <4>2. Open(g, p)
        BY <1>1, <4>1, HandOf DEF Typed
      <4> QED BY <2>2, <4>2 DEF Open
    <3>2. g = game /\ t = CancelAfk(tasks, p) /\ tasks.final[p] # "tracked" /\ holds[p] = "none"
      BY <1>1, <3>1 DEF GameFor, TasksFor, Reclaims, Plays, Listens
    <3>3. Ending(p)
      <4>1. ~Free
        <5> SUFFICES ASSUME Free PROVE FALSE
          OBVIOUS
        <5>1. Open(game, p)
          BY <1>1, <3>2, HandOf DEF Free, Turns
        <5> QED BY <2>2, <3>2, <5>1 DEF Open
      <4> QED BY <1>1, <3>2, <4>1 DEF Stage, Writing, Ending, Stand, Tying
    <3>4. /\ Hand(game, "turn") /\ RestBut(tasks, p) /\ NoWrite /\ AwakeBut(p)
          /\ tasks.final[p] # "orphan"
      BY <3>2, <3>3 DEF Ending, HandlerSleeps, BotCommits
    <3>5. t \in TaskTable /\ AtRest(t)
      BY <3>2, <3>4, CancelRests
    <3>6. Hand(Validate(game, p), "turn") /\ Validate(game, p).turn[p].done
      <4>1. MayValidate(game, p) /\ game.phase # "waiting"
        BY <1>1, <3>2
      <4> QED BY <3>4, <4>1, ValidateAgain
    <3> HIDE DEF g, t
    <3> QED BY <1>1, <3>2, <3>4, <3>5, <3>6, SameNothing
  <2> QED BY <2>1, <2>2
<1> HIDE DEF g, t
<1>3. Stand(game', p)
  <2>1. /\ game'.phase = g.phase /\ game'.players = g.players
        /\ game'.out_of_match = g.out_of_match /\ game'.current_index = g.current_index
    BY <1>1, <1>2 DEF Validate, Typed, Game
  <2> QED BY <1>1, <2>1, SameCurrent DEF Stand
<1>4. Follows(game, game')
  <2>1. Same(g, game')
    BY <1>1, <1>2, TurnsAreSame DEF Typed
  <2> QED BY <1>2, <2>1, SameTwice, SameFollows
<1>5. Steady' /\ NoWrite'
  BY <1>2 DEF Done, RoomTurnInv, Steady, NoWrite
<1>6. AwakeBut(p)' /\ holds'[p] = "turn"
  BY <1>1, <1>2 DEF AwakeBut
<1>7. Stage'
  BY <1>1, <1>2, <1>3, <1>5, <1>6, GoesToSleep
<1> QED BY <1>4, <1>5, <1>7 DEF Goes

\* A refused message takes the turn back all the same.
LEMMA ReclaimGoes ==
  ASSUME Exits = {}, RoomTurnInv, NEW p \in Player, Reclaim(p)
  PROVE  Goes
<1> USE RoomTurnFacts
<1>1. /\ Ending(p) /\ BotCommits(p) /\ Returns
      /\ Same(game, game') /\ Typed(game') /\ Hand(game', "none")
      /\ tasks' \in TaskTable /\ AtRest(tasks')
  BY TakesBack DEF Reclaim
<1>2. Steady' /\ NoWrite' /\ Awake'
  BY <1>1 DEF Reclaim, RoomTurnInv, Steady, Ending, BotCommits, NoWrite, Awake, AwakeBut
<1>3. Follows(game, game')
  BY <1>1, SameFollows
<1>4. Turns(game', "none")
  BY <1>1 DEF Ending, Stand, Turns, Same, Idle
<1>5. TimersFit(game', tasks') /\ Watched(game', tasks')
  BY <1>1 DEF AtRest, TimersFit, Watched
<1> QED BY <1>2, <1>3, <1>4, <1>5 DEF Goes, Stage, Free

\* A throw of a tiebreak.
LEMMA TiebreakRollGoes ==
  ASSUME Exits = {}, RoomTurnInv, RoomInv', NEW p \in Player, TiebreakRoll(p)
  PROVE  Goes
<1> USE RoomTurnFacts
<1>1. Plays(p) /\ MayThrowTiebreak(GameFor(p), p)
  BY DEF TiebreakRoll
<1>2. ~Reclaims(p)
  <2> SUFFICES ASSUME Reclaims(p) PROVE FALSE
    OBVIOUS
  <2>1. Ending(p) /\ Same(game, GameFor(p))
    BY <1>1, TakesBack
  <2> QED BY <1>1, <2>1 DEF Ending, Stand, Same, Idle, MayThrowTiebreak
<1>3. /\ MayThrowTiebreak(game, p) /\ game.phase = "tiebreak" /\ game.tiebreak.next_pid = p
      /\ TasksFor(p) = tasks /\ GameFor(p) = game
  BY <1>1, <1>2 DEF GameFor, TasksFor, MayThrowTiebreak
<1>4. Free
  BY <1>3, PlayerAssumption DEF Stage, Writing, Ending, Stand, Tying, TieHand
<1>5. AtRest(tasks) /\ TieHand(game, "none") /\ NoWrite /\ Awake
  BY <1>3, <1>4, FitRests DEF Free, Turns
<1> DEFINE t == CancelAfk(tasks, p)
<1>6. t \in TaskTable /\ AtRest(t)
  BY <1>5, CancelRests DEF AtRest, RestBut, Calm
<1>7. PICK rank \in Rank : game' = ThrowTiebreak(game, p, rank)
  BY <1>3 DEF TiebreakRoll
<1>8. Follows(game, game') /\ game'.phase = "tiebreak"
  BY <1>3, <1>7, TiebreakFollows
<1>9. TieHand(game', IF game'.tiebreak.next_pid = NoPlayer THEN "tiebreak" ELSE "none")
  BY <1>3, <1>5, <1>7, ThrowTiebreakHand
<1>10. Steady' /\ NoWrite'
  BY <1>5 DEF TiebreakRoll, RoomTurnInv, Steady, NoWrite
<1>11. CASE game'.tiebreak.next_pid = NoPlayer
  <2>1. tasks' = t /\ holds' = [holds EXCEPT ![p] = "tiebreak"]
    BY <1>3, <1>11 DEF TiebreakRoll
  <2>2. AwakeBut(p)' /\ holds'[p] = "tiebreak"
    BY <1>5, <2>1 DEF Awake, AwakeBut
  <2>3. Tying(p)'
    BY <1>6, <1>8, <1>9, <1>10, <1>11, <2>1, <2>2 DEF Tying
  <2> QED BY <1>8, <1>10, <2>3 DEF Goes, Stage
<1>12. CASE game'.tiebreak.next_pid # NoPlayer
  <2>1. tasks' = ScheduleAfk(game', t, NoPlayer) /\ holds' = holds
    BY <1>3, <1>12 DEF TiebreakRoll
  <2>2. Turns(game', "none") /\ Awake' /\ game' \in Game
    BY <1>5, <1>8, <1>9, <1>12, <2>1 DEF Turns, Awake, RoomInv, TypeOK
  <2>3. Stage'
    BY <1>6, <1>10, <2>1, <2>2, ScheduledFree
  <2> QED BY <1>8, <1>10, <2>3 DEF Goes
<1> QED BY <1>11, <1>12

\* The opening: the start and the initial rolls.
LEMMA OpeningGoes ==
  ASSUME Exits = {}, RoomTurnInv, RoomInv', NEW p \in Player, Start(p) \/ InitialRoll(p)
  PROVE  Goes
<1> USE RoomTurnFacts
<1>1. game.phase \in {"waiting", "initial_roll"} /\ holds' = holds /\ persists' = persists
  BY DEF Start, InitialRoll
<1>2. NoWrite /\ Awake /\ AtRest(tasks)
  BY <1>1, OpeningRests
<1>3. Steady' /\ NoWrite' /\ Awake' /\ game' \in Game
  BY <1>1, <1>2 DEF Start, InitialRoll, RoomTurnInv, Steady, NoWrite, Awake, RoomInv, TypeOK
<1>4. CancelAfk(tasks, p) \in TaskTable /\ AtRest(CancelAfk(tasks, p))
  BY <1>2, CancelRests DEF AtRest, RestBut, Calm
<1>5. CASE Start(p)
  <2>1. /\ game' = StartInitialRoll(game) /\ game.phase = "waiting" /\ Len(game.players) >= 2
        /\ tasks' = ScheduleAfk(game', tasks, NoPlayer)
    BY <1>5 DEF Start
  <2>2. Even(game') /\ SameMatch(game, game')
    BY <2>1, StartInitialRollEven
  <2>3. game'.phase = "initial_roll" /\ SameScores(game, game')
    <3> DEFINE rolls == [q \in Player |-> IF q \in Seated(game) THEN Unrolled ELSE Unasked]
    <3>1. game' = [game EXCEPT !.phase = "initial_roll", !.initial_rolls = rolls]
      BY <2>1 DEF StartInitialRoll
    <3> HIDE DEF rolls
    <3> QED BY <3>1 DEF SameScores, Game
  <2>4. Sound(game')
    BY <2>1, <2>3 DEF Sound, SameScores, PoolFitsPhase, InPlay, ScoresFit
  <2>5. Stage'
    BY <1>2, <1>3, <2>1, <2>3, ScheduledFree DEF Turns
  <2> QED BY <1>3, <2>2, <2>4, <2>5 DEF Goes, Follows, MatchStep
<1>6. CASE InitialRoll(p)
  <2>1. game.phase = "initial_roll" /\ tasks' = ScheduleAfk(game', CancelAfk(tasks, p), NoPlayer)
    BY <1>6 DEF InitialRoll
  <2>2. PICK d \in Die : game' \in RollInitial(game, p, d)
    BY <1>6 DEF InitialRoll
  <2>3. Sound(game') /\ Even(game') /\ SameMatch(game, game')
    BY <2>1, <2>2, RollInitialSound, RollInitialEven DEF Keeps
  <2>4. Turns(game', "none")
    BY <2>1, <2>2, RollInitialHand DEF Turns
  <2>5. Stage'
    BY <1>3, <1>4, <2>1, <2>4, ScheduledFree
  <2> QED BY <1>3, <2>3, <2>5 DEF Goes, Follows, MatchStep
<1> QED BY <1>5, <1>6

\* Newcomers and queued rules.
LEMMA LobbyGoes ==
  ASSUME Exits = {}, RoomTurnInv, NEW p \in Player, Join(p) \/ UpdateRoomRules(p)
  PROVE  Goes
<1> USE RoomTurnFacts
<1>1. tasks' = tasks /\ holds' = holds /\ persists' = persists
  BY DEF Join, UpdateRoomRules
<1>2. Steady'
  BY <1>1 DEF Join, UpdateRoomRules, RoomTurnInv, Steady
<1>3. ASSUME SameHand(game, game'), \A s, q : SameHand(GivenBack(game, s, q), GivenBack(game', s, q))
      PROVE  Stage'
  BY <1>1, <1>3, SameHandStage
<1>4. CASE UpdateRoomRules(p)
  <2>1. PICK rule : game' = QueueRule(game, rule)
    BY <1>4 DEF UpdateRoomRules
  <2> DEFINE pending == IF rule = game.bank_rule THEN "none" ELSE rule
  <2>2. game' = [game EXCEPT !.pending_rule = pending]
    BY <2>1 DEF QueueRule
  <2> HIDE DEF pending
  <2>3. SameHand(game, game')
    BY <2>2 DEF SameHand, Game
  <2>4. \A s, q : SameHand(GivenBack(game, s, q), GivenBack(game', s, q))
    BY <2>2 DEF SameHand, GivenBack, Game
  <2>5. Follows(game, game')
    BY <2>1, TurnsAreSame, SameFollows
  <2> QED BY <1>2, <1>3, <2>3, <2>4, <2>5 DEF Goes
<1>5. CASE Join(p)
  <2>1. game' = JoinGame(game, p) /\ MayJoin(game, p)
    BY <1>5 DEF Join
  <2>2. Follows(game, game')
    <3>1. Sound(game')
      BY <2>1, JoinGameFields, SameTableIsSound DEF Keeps
    <3> QED BY <2>1, <3>1, JoinGameEven DEF Follows, MatchStep
  <2>3. CASE game.phase \in {"waiting", "initial_roll"}
    <3>1. game'.phase = game.phase
      BY <2>1, <2>3 DEF JoinGame, Game
    <3>2. NoWrite /\ Awake /\ AtRest(tasks)
      BY <2>3, OpeningRests
    <3>3. Awaited(game') = NoPlayer /\ Turns(game', "none")
      BY <2>3, <3>1 DEF Awaited, Turns
    <3>4. Free'
      BY <1>1, <3>2, <3>3 DEF Free, NoWrite, Awake, AtRest, TimersFit, Watched
    <3> QED BY <1>2, <2>2, <3>4 DEF Goes, Stage
  <2>4. CASE ~(game.phase \in {"waiting", "initial_roll"})
    <3> DEFINE waiting == Append(game.waiting_players, p)
    <3>1. game' = [game EXCEPT !.waiting_players = waiting]
      BY <2>1, <2>4 DEF JoinGame
    <3> HIDE DEF waiting
    <3>2. SameHand(game, game')
      BY <3>1 DEF SameHand, Game
    <3>3. \A s, q : SameHand(GivenBack(game, s, q), GivenBack(game', s, q))
      BY <3>1 DEF SameHand, GivenBack, Game
    <3> QED BY <1>2, <1>3, <2>2, <3>2, <3>3 DEF Goes
  <2> QED BY <2>3, <2>4
<1> QED BY <1>4, <1>5

\* Nobody goes, so nobody comes back, and no seat is given up.
LEMMA NobodyGoes ==
  ASSUME Exits = {}, RoomTurnInv, NEW p \in Player
  PROVE  /\ ~Connect(p) /\ ~Disconnect(p) /\ ~Leave(p) /\ ~AdminKick(p) /\ ~AfkEvict(p)
         /\ \A host \in Player : ~Kick(host, p)
<1>1. ~Disconnect(p) /\ ~Leave(p) /\ ~AdminKick(p) /\ \A host \in Player : ~Kick(host, p)
  BY DEF Disconnect, Leave, AdminKick, Kick, Departs
<1>2. ~AfkEvict(p) /\ ~Connect(p)
  BY RoomTurnFacts DEF AfkEvict, Connect
<1> QED BY <1>1, <1>2

\* Every step of a room nobody goes from keeps the invariant, and is a step of
\* a match.
LEMMA NextRoomTurn ==
  ASSUME Exits = {}, RoomTurnInv, [Next]_vars
  PROVE  RoomTurnInv' /\ MatchStep(game, game')
<1>1. RoomInv'
  BY NextRoom DEF RoomTurnInv
<1>2. SUFFICES Goes
  BY <1>1 DEF Goes, Follows, RoomTurnInv
<1>3. ASSUME game' = game, tasks' = tasks, holds' = holds, persists' = persists, used' = used,
             link' = link
      PROVE  Goes
  <2>1. Stage' /\ Steady'
    BY <1>3 DEF RoomTurnInv, Stage, Steady, Free, NoWrite, Awake, Writing, Ending, AwakeBut,
                HandlerSleeps, BotCommits, Tying
  <2>2. Follows(game, game')
    BY <1>3, RoomTurnFacts, SameNothing, SameFollows
  <2> QED BY <2>1, <2>2 DEF Goes
<1>4. CASE UNCHANGED vars \/ Closed \/ Dissolve
  BY <1>3, <1>4 DEF vars, Closed, Dissolve
<1>5. CASE \E then \in Afterwards : ResumePartie(then)
  BY <1>1, <1>5, PartieGoes
<1>6. ASSUME NEW p \in Player, Timer(p) \/ Wake(p) \/ FinalizeBot(p)
      PROVE  Goes
  BY <1>1, <1>6, AfkInitialGoes, AfkTiebreakGoes, PartieGoes, AfkTurnGoes, AfkHandoffGoes,
     NobodyGoes, TurnEndsGoes, TiebreakEndsGoes DEF Timer, Wake
<1>7. ASSUME NEW p \in Player,
             \/ Join(p) \/ Connect(p) \/ Disconnect(p) \/ Start(p) \/ InitialRoll(p)
             \/ Roll(p) \/ Keep(p) \/ Done(p) \/ TiebreakRoll(p) \/ Reclaim(p)
             \/ UpdateRoomRules(p) \/ Leave(p) \/ AdminKick(p)
             \/ \E host \in Player : Kick(host, p)
      PROVE  Goes
  BY <1>1, <1>7, LobbyGoes, OpeningGoes, RollGoes, KeepGoes, DoneGoes, TiebreakRollGoes,
     ReclaimGoes, NobodyGoes
<1> QED BY <1>4, <1>5, <1>6, <1>7 DEF Next, Due

----------------------------------------------------------------------------
(* Theorems.                                                               *)

\* A new room is free, and its bank is full.
LEMMA InitRoomTurn ==
  ASSUME Init
  PROVE  RoomTurnInv
<1>1. PICK rule \in {"sec", "free"} : game = NewGame(rule)
  BY DEF Init
<1>2. /\ game.phase = "waiting" /\ game.players = <<>> /\ game.waiting_players = <<>>
      /\ game.pool = Chips /\ game.partie_loser_id = NoPlayer
      /\ \A p \in Player : /\ game.tokens[p] = 0 /\ game.match_losses[p] = 0
                            /\ game.round_points[p] = 0
  BY <1>1 DEF NewGame
<1>3. Sound(game)
  BY <1>2, PlayerAssumption, BoundsAssumption DEF Sound, PoolFitsPhase, InPlay, ScoresFit
<1>4. Even(game)
  <2>1. Once(<<>>) /\ Members(<<>>) = {}
    BY DEF Once, Members
  <2>2. Apart(game) /\ Opening(game)
    BY <1>2, <2>1 DEF Apart, Opening, Seated
  <2> QED BY <1>2, <2>2 DEF Even, Shared, TiedPlay, ConservesChips, DuelGoesOn, InPlay
<1>5. tasks = NoTasks /\ holds = [p \in Player |-> "none"] /\ used = {} /\ link = {}
      /\ persists = [then \in Afterwards |-> 0]
  BY DEF Init, Afterwards
<1>6. Steady /\ NoWrite
  BY <1>5 DEF Steady, NoWrite, Afterwards
<1>7. AtRest(tasks) /\ Awake
  BY <1>5 DEF AtRest, Calm, NoTasks, Awake
<1>8. Free
  BY <1>2, <1>6, <1>7 DEF Free, AtRest, TimersFit, Watched, Awaited, Turns
<1> QED BY <1>3, <1>4, <1>6, <1>8, InitRoom DEF RoomTurnInv, Stage

\* What is proved below of a room nobody goes from rests on this invariant.
THEOREM RoomTurnInvariance ==
  ASSUME Exits = {}
  PROVE  Spec => []RoomTurnInv
<1>1. Init => RoomTurnInv
  BY InitRoomTurn
<1>2. RoomTurnInv /\ [Next]_vars => RoomTurnInv'
  BY NextRoomTurn
<1> QED BY <1>1, <1>2, PTL DEF Spec

\* A turn that ends while somebody has yet to throw passes the hand to such a
\* player, and changes nothing else.
LEMMA TurnEndsPasses ==
  ASSUME NEW g \in Game, Once(g.players), g.players # <<>>, Hand(g, "turn"), Unplayed(g) # {}
  PROVE  /\ EndTurn(g) = [g EXCEPT !.current_index = EndTurn(g).current_index]
         /\ CurrentPlayer(EndTurn(g)) \in Unplayed(g)
<1> DEFINE h == Advance(g)
<1>1. PICK q \in Active(g) : ~g.turn[q].done
  BY DEF Unplayed
<1>2. h = [g EXCEPT !.current_index = (g.current_index + StepsToActive(g, 1)) % Len(g.players)]
  BY <1>1 DEF Advance
<1>3. /\ h.players = g.players /\ h.out_of_match = g.out_of_match /\ h.turn = g.turn
      /\ h = [g EXCEPT !.current_index = h.current_index]
  <2> DEFINE i == (g.current_index + StepsToActive(g, 1)) % Len(g.players)
  <2>1. h = [g EXCEPT !.current_index = i]
    BY <1>2
  <2> HIDE DEF i, h
  <2> QED BY <2>1 DEF Game
<1>4. Active(h) = Active(g)
  BY <1>3 DEF Active, Seated
<1> HIDE DEF h
<1>5. ~AllDone(g)
  BY <1>1 DEF AllDone, Active
<1>6. ~AllDone(h)
  BY <1>1, <1>3, <1>4 DEF AllDone, Active
<1>7. EndTurn(g) = h
  BY <1>6 DEF EndTurn, h
<1>8. Hand(h, "none") /\ h \in Game
  BY <1>5, AdvanceHand, AdvanceType DEF h
<1>9. CurrentPlayer(h) \in Active(h) /\ ~h.turn[CurrentPlayer(h)].done
  BY <1>8, HandOf DEF Open
<1> QED BY <1>3, <1>4, <1>7, <1>9 DEF Unplayed

\* As long as nobody goes, a handler that wakes up and a task that commits a bot
\* turn end the turn they went to sleep on, whatever the other players send and
\* however often turns are taken back meanwhile: the current player they read
\* after the sleep is the one of before it, its turn is validated, and while
\* somebody has yet to throw, the hand passes to such a player and that is all.
THEOREM WakesOnOwnTurn ==
  ASSUME Exits = {}
  PROVE  Spec => WakesOnItsOwnTurn
<1>1. ASSUME RoomTurnInv, NEW p \in Player, ResumeTurn(p) \/ FinalizeBot(p)
      PROVE  /\ CurrentPlayer(game) = p /\ game.turn[p].done
             /\ Unplayed(game) # {} =>
                  /\ CurrentPlayer(game') \in Unplayed(game)
                  /\ game' = [game EXCEPT !.current_index = game'.current_index]
  <2>1. Ending(p) /\ game' = EndTurn(game)
    BY <1>1, TurnEndsGoes
  <2>2. CurrentPlayer(game) = p /\ game.turn[p].done /\ Hand(game, "turn")
    BY <2>1 DEF Ending, Stand
  <2>3. game \in Game /\ Once(game.players) /\ game.players # <<>>
    BY <1>1, <2>1, RoomTurnFacts DEF Ending, Stand
  <2> QED BY <2>1, <2>2, <2>3, TurnEndsPasses
<1>2. RoomTurnInv /\ [Next]_vars =>
        [\A p \in Player :
           ResumeTurn(p) \/ FinalizeBot(p) =>
             /\ CurrentPlayer(game) = p /\ game.turn[p].done
             /\ Unplayed(game) # {} =>
                  /\ CurrentPlayer(game') \in Unplayed(game)
                  /\ game' = [game EXCEPT !.current_index = game'.current_index]]_vars
  BY <1>1
<1> QED BY <1>2, RoomTurnInvariance, PTL DEF Spec, WakesOnItsOwnTurn

\* As long as nobody goes, the starter of a cycle throws before the others and
\* nobody throws more often than it did, also when the bot plays its turn and
\* the turn, with the cap it locked, is taken back.
THEOREM StarterLeadsTheRoom ==
  ASSUME Exits = {}
  PROVE  Spec => []StarterSetsTheRhythm
<1>1. ASSUME RoomTurnInv, game.phase \in {"charge", "decharge"}
      PROVE  Hand(game, "none") \/ Hand(game, "turn")
  BY <1>1, RoomTurnFacts DEF Stage, Free, Turns, Writing, Ending, Tying
<1>2. RoomTurnInv => StarterSetsTheRhythm
  BY <1>1, HandLeads, RoomTurnFacts DEF StarterSetsTheRhythm, StarterLeads
<1> QED BY <1>2, RoomTurnInvariance, PTL

\* With the bot and without turns taken back, the player the table waits for has
\* a timer, or somebody is about to move the table on.
THEOREM AwaitedIsTimed ==
  ASSUME Exits = {}, AfkBot, ~Returns
  PROVE  Spec => []SomeoneIsTimed
<1>1. ASSUME RoomTurnInv
      PROVE  SomeoneIsTimed
  <2> SUFFICES ASSUME Awaited(game) # NoPlayer
               PROVE  \/ tasks.afk[Awaited(game)] # "none" \/ tasks.final[Awaited(game)] # "none"
                      \/ \E p \in Player : holds[p] # "none"
                      \/ \E then \in Afterwards : persists[then] > 0
    BY DEF SomeoneIsTimed, Awaited
  <2>1. CASE Free
    BY <2>1 DEF Free, Watched
  <2>2. CASE Writing
    BY <2>2 DEF Writing, Awaited
  <2>3. ASSUME NEW p \in Player, Ending(p)
        PROVE  holds[p] # "none" \/ tasks.afk[Awaited(game)] # "none"
               \/ tasks.final[Awaited(game)] # "none"
    <3>1. Awaited(game) = p
      BY <2>3 DEF Ending, Stand, Awaited
    <3> QED BY <2>3, <3>1 DEF Ending, HandlerSleeps, BotCommits
  <2>4. ASSUME NEW p \in Player, Tying(p)
        PROVE  holds[p] # "none"
    BY <2>4 DEF Tying
  <2> QED BY <1>1, <2>1, <2>2, <2>3, <2>4, RoomTurnFacts DEF Stage
<1> QED BY <1>1, RoomTurnInvariance, PTL

----------------------------------------------------------------------------
(* The room implements Match.                                              *)

\* A new room is a new match.
LEMMA RoomInitImplements ==
  ASSUME Init
  PROVE  MatchRules!Init
<1>1. PICK rule \in {"sec", "free"} : game = NewGame(rule)
  BY DEF Init
<1>2. /\ game.pool = Chips /\ game.tokens = Nobody
      /\ game.match_losses = Nobody /\ game.round_points = Nobody
  BY <1>1 DEF NewGame, Nobody
<1> QED BY <1>2 DEF MatchRules!Init, MatchRules!Nobody, Nobody

\* Closing a cycle is the Score of Match.tla.
LEMMA RoomScoresImplement ==
  ASSUME NEW k, k.match_losses = game.match_losses, k.round_points = game.round_points,
         Scores(k, game')
  PROVE  MatchRules!Score(k.pool, k.tokens)
<1>1. Nobody = MatchRules!Nobody
  BY DEF Nobody, MatchRules!Nobody
<1>2. CASE /\ \A p \in Player : k.tokens[p] < Chips
           /\ game'.pool = k.pool /\ game'.tokens = k.tokens
           /\ game'.match_losses = k.match_losses /\ game'.round_points = k.round_points
  BY <1>2 DEF MatchRules!Score
<1>3. CASE \E p \in Player :
             /\ k.tokens[p] = Chips
             /\ IF k.match_losses[p] = 0
                THEN /\ game'.match_losses = [k.match_losses EXCEPT ![p] = 1]
                     /\ game'.round_points = k.round_points
                     /\ game'.pool = Chips /\ game'.tokens = Nobody
                ELSE /\ game'.match_losses = Nobody
                     /\ game'.round_points = [k.round_points EXCEPT ![p] = @ + 1]
                     /\ IF k.round_points[p] + 1 < PointsToLose
                        THEN game'.pool = Chips /\ game'.tokens = Nobody
                        ELSE game'.pool = k.pool /\ game'.tokens = k.tokens
  BY <1>1, <1>3 DEF MatchRules!Score
<1> QED BY <1>2, <1>3 DEF Scores

\* Every step of the room is a step of a match or changes nothing of it.
LEMMA RoomNextImplements ==
  ASSUME Exits = {}, RoomTurnInv, [Next]_vars
  PROVE  [MatchRules!Next]_MatchRules!vars
<1>1. game \in Game /\ Sound(game) /\ MatchStep(game, game')
  BY NextRoomTurn, RoomTurnFacts
<1>2. game.round_points \in [Player -> Nat] /\ PointsToLose \in Nat
  BY <1>1, BoundsAssumption DEF Game
<1>3. CASE SameMatch(game, game')
  BY <1>3 DEF MatchRules!vars, SameMatch, Kept
<1>4. CASE NewPartie(game, game')
  <2>1. ~MatchRules!InProgress
    BY <1>2, <1>4 DEF NewPartie, MatchRules!InProgress
  <2> QED BY <1>4, <2>1
          DEF NewPartie, MatchRules!Next, MatchRules!NewPartie, MatchRules!Nobody, Nobody
<1>5. CASE Contested(game) /\ Settles(game, game')
  <2>1. MatchRules!InProgress
    <3>1. game.partie_loser_id = NoPlayer
      BY <1>5, ContestedFacts
    <3>2. \A p \in Player : game.round_points[p] # PointsToLose
      BY <1>1, <3>1, PlayerAssumption DEF Sound, ScoresFit
    <3> QED BY <1>1, <1>2, <3>2 DEF Sound, ScoresFit, MatchRules!InProgress
  <2>2. PICK k : Transferred(game, k) /\ Scores(k, game')
    BY <1>5 DEF Settles
  <2>3. k.match_losses = game.match_losses /\ k.round_points = game.round_points
    BY <2>2 DEF Transferred
  <2>4. MatchRules!Score(k.pool, k.tokens)
    BY <2>2, <2>3, RoomScoresImplement
  <2>5. CASE FromBank(game, k)
    <3>1. PICK loser \in Player, n \in 1..Chips :
            /\ n <= game.pool /\ k.pool = game.pool - n
            /\ k.tokens = [game.tokens EXCEPT ![loser] = @ + n]
      BY <2>5 DEF FromBank
    <3>2. MatchRules!Charge(loser, n)
      BY <2>1, <2>4, <3>1 DEF MatchRules!Charge
    <3> QED BY <3>2 DEF MatchRules!Next
  <2>6. CASE FromWinner(game, k)
    <3>1. PICK loser \in Player, winner \in Player, n \in 1..Chips :
            /\ game.pool = 0 /\ winner # loser /\ n <= game.tokens[winner] /\ k.pool = 0
            /\ k.tokens = Moved(game.tokens, winner, loser, n)
      BY <2>6 DEF FromWinner
    <3>2. MatchRules!Decharge(winner, loser, n)
      BY <2>1, <2>4, <3>1 DEF MatchRules!Decharge, Moved
    <3> QED BY <3>2 DEF MatchRules!Next
  <2>7. CASE Kept(game, k)
    <3>1. \A p \in Player : game.tokens[p] < Chips /\ game.tokens[p] \in Nat
      BY <1>5, ContestedFacts
    <3>2. \A p \in Player : k.tokens[p] # Chips
      BY <2>7, <3>1, BoundsAssumption DEF Kept
    <3>3. SameMatch(game, game')
      BY <2>2, <2>3, <2>7, <3>2 DEF Scores, SameMatch, Kept
    <3> QED BY <1>3, <3>3 DEF MatchRules!vars, SameMatch, Kept
  <2> QED BY <2>2, <2>5, <2>6, <2>7 DEF Transferred
<1> QED BY <1>1, <1>3, <1>4, <1>5 DEF MatchStep

\* A room nobody goes from does to chips and scores what Match.tla allows, with
\* its sleeping handlers, its timers, its bot turns taken back or committed late
\* and its waits for the database: no turn is settled twice, and no partie starts
\* before the last one is lost.
THEOREM RoomImplementsMatch ==
  ASSUME Exits = {}
  PROVE  Spec => ImplementsMatch
<1>1. Init => MatchRules!Init
  BY RoomInitImplements
<1>2. RoomTurnInv /\ [Next]_vars => [MatchRules!Next]_MatchRules!vars
  BY RoomNextImplements
<1>3. MatchRules!Init /\ [][MatchRules!Next]_MatchRules!vars => MatchRules!Spec
  BY DEF MatchRules!Spec
<1> QED BY <1>1, <1>2, <1>3, RoomTurnInvariance, PTL DEF Spec, ImplementsMatch

----------------------------------------------------------------------------
(* Phase, bank and match when connections are lost.                        *)
(*                                                                         *)
(* Where connections are lost and come back, a turn may be ended twice and *)
(* a wake-up may come in any phase (the sleepers do not look again at the  *)
(* phase), so the stages above do not describe the room.  The bank still   *)
(* does: a wake-up that comes in a tiebreak or after a partie settles      *)
(* nothing as long as somebody has yet to play, and where nobody has it    *)
(* can only end once more the match that was ended.                        *)

\* p has yet to play, and no timer is about to play for it.
Owes(g, t, p) == p \in Active(g) /\ ~g.turn[p].done /\ t.afk[p] \notin {"turn", "warned"}
Unfinished(g, t) == \E p \in Player : Owes(g, t, p)

\* The cycle at the table ends the match, however often it is settled.
Over(g) == AllDone(g) /\ \E l \in Player : Lowest(g, l) /\ g.tokens[l] >= Chips

\* A wake-up that comes late settles nothing anew.
Settling(g, t) ==
  /\ g.phase = "tiebreak" => Unfinished(g, t)
  /\ g.phase = "finished" => Unfinished(g, t) \/ Over(g)

\* The tied players are in the match, and nobody else throws for the tie.
TieFits(g) ==
  LET tb == g.tiebreak
  IN  /\ tb.tied \subseteq Active(g) /\ tb.next_pid \in tb.tied \cup {NoPlayer}
      /\ \A p \in Player \ tb.tied : tb.throws[p] = 0

\* Two players have a seat.
TwoSit(g) == \E p, q \in Seated(g) : p # q

\* A turn timer, before and after its sleep.
TurnTimer == {"turn", "warned", "evicting"}

\* Who sits out has lost all chips, which happens in a décharge only; the others
\* have some left in it.
OutFits(g, phase) ==
  /\ SitOutEmpty(g)
  /\ phase = "charge" => g.out_of_match = {}
MatchFits(g) ==
  g.phase \in InPlay =>
    /\ OutFits(g, PlayPhase(g))
    /\ PlayPhase(g) = "decharge" => \A p \in Active(g) : g.tokens[p] > 0

\* What goes with phase and bank.
BankFits(g) ==
  /\ PoolFitsPhase(g) /\ MatchFits(g)
  /\ g.phase = "tiebreak" => TieFits(g)
  /\ g.phase # "tiebreak" => g.tiebreak = NoTiebreak
  /\ g.phase # "finished" => \A p \in Seated(g) : g.tokens[p] < Chips
  /\ g.phase # "waiting" => TwoSit(g)

\* A timer that has warned its player plays a turn that is not over, turn timers
\* are set for seated players and no handback is pending beside one, and a turn
\* that may be given back is one that was not over.
TimersKnow(g, t) ==
  \A p \in Player :
    /\ t.afk[p] = "warned" => ~g.turn[p].done
    /\ t.afk[p] \in TurnTimer => p \in Seated(g) /\ AfkBot
    /\ t.snap[p] # NoSnapshot => ~t.snap[p].turn.done /\ t.afk[p] \notin TurnTimer

\* Before the first match nobody has a turn to end.
Prelude == {"waiting", "initial_roll"}
Quiet ==
  /\ \A p \in Player : /\ holds[p] = "none" /\ tasks.final[p] = "none"
                       /\ tasks.afk[p] \in {"none", "initial"}
  /\ \A then \in Afterwards : persists[then] = 0

\* The tables and timers of a room from which connections may be lost.
InOrder(g, t) == BankFits(g) /\ TimersKnow(g, t) /\ Settling(g, t)
LinksInv == InOrder(game, tasks) /\ (game.phase \in Prelude => Quiet)

----------------------------------------------------------------------------
(* Timers that are cancelled or fire.                                      *)

\* No turn timer is set from t to u, and no snapshot taken.
Calmer(t, u) ==
  \A p \in Player :
    /\ u.afk[p] \in TurnTimer => u.afk[p] = t.afk[p]
    /\ u.snap[p] \in {t.snap[p], NoSnapshot}

LEMMA CalmerTwice ==
  ASSUME NEW s, NEW t, NEW u, Calmer(s, t), Calmer(t, u)
  PROVE  Calmer(s, u)
BY DEF Calmer

\* What the timers know stays true when turns are renewed or kept.
LEMMA CalmerKnows ==
  ASSUME NEW g, NEW t, TimersKnow(g, t), NEW h, Renewed(g, h), Seated(g) \subseteq Seated(h),
         NEW u, Calmer(t, u)
  PROVE  TimersKnow(h, u)
<1>1. ~NewTurn.done /\ ~NoTurn.done
  BY DEF NewTurn, NoTurn
<1>2. ASSUME NEW p \in Player
      PROVE  /\ u.afk[p] = "warned" => ~h.turn[p].done
             /\ u.afk[p] \in TurnTimer => p \in Seated(h) /\ AfkBot
             /\ u.snap[p] # NoSnapshot => ~u.snap[p].turn.done /\ u.afk[p] \notin TurnTimer
  <2>1. /\ t.afk[p] = "warned" => ~g.turn[p].done
        /\ t.afk[p] \in TurnTimer => p \in Seated(g) /\ AfkBot
        /\ t.snap[p] # NoSnapshot => ~t.snap[p].turn.done /\ t.afk[p] \notin TurnTimer
    BY DEF TimersKnow
  <2>2. /\ u.afk[p] \in TurnTimer => u.afk[p] = t.afk[p]
        /\ u.snap[p] \in {t.snap[p], NoSnapshot}
    BY DEF Calmer
  <2>3. h.turn[p] = g.turn[p] \/ ~h.turn[p].done
    BY <1>1 DEF Renewed
  <2> QED BY <2>1, <2>2, <2>3 DEF TurnTimer
<1> QED BY <1>2 DEF TimersKnow

LEMMA CalmerSettles ==
  ASSUME NEW g, NEW t, Settling(g, t), NEW u, Calmer(t, u)
  PROVE  Settling(g, u)
BY DEF Calmer, Settling, Unfinished, Owes, TurnTimer

\* The ways to stop a timer.
LEMMA StoppedIsCalmer ==
  ASSUME NEW t \in TaskTable, NEW p \in Player
  PROVE  /\ Calmer(t, t) /\ Calmer(t, CancelAfk(t, p)) /\ Calmer(t, AbortTasks(t, p))
         /\ \A afk \in AfkTask \ TurnTimer : Calmer(t, [t EXCEPT !.afk[p] = afk])
         /\ Calmer(t, [t EXCEPT !.final[p] = "none", !.snap[p] = NoSnapshot])
         /\ Calmer(t, [t EXCEPT !.afk[p] = "none", !.final[p] = "tracked"])
<1>1. /\ t.afk \in [Player -> AfkTask] /\ t.snap \in [Player -> Snapshot]
      /\ t.final \in [Player -> {"none", "tracked", "orphan"}]
      /\ t = [afk |-> t.afk, final |-> t.final, snap |-> t.snap]
  BY DEF TaskTable
<1>2. Calmer(t, t) /\ Calmer(t, CancelAfk(t, p))
  BY <1>1 DEF Calmer, CancelAfk, TaskTable, TurnTimer
<1>3. Calmer(t, AbortTasks(t, p))
  BY <1>1 DEF Calmer, AbortTasks, TaskTable
<1>4. \A afk \in AfkTask \ TurnTimer : Calmer(t, [t EXCEPT !.afk[p] = afk])
  BY <1>1 DEF Calmer, TaskTable
<1>5. /\ Calmer(t, [t EXCEPT !.final[p] = "none", !.snap[p] = NoSnapshot])
      /\ Calmer(t, [t EXCEPT !.afk[p] = "none", !.final[p] = "tracked"])
  BY <1>1 DEF Calmer, TaskTable, TurnTimer
<1> QED BY <1>2, <1>3, <1>4, <1>5

\* A tie that has just begun: the first to throw has yet to play.
FreshTie(g) ==
  /\ g.phase = "tiebreak" /\ g.tiebreak.next_pid \in Active(g)
  /\ ~g.turn[g.tiebreak.next_pid].done

\* _schedule_afk sets a turn timer for a seated player, in charge and décharge
\* only; in a tiebreak the timer of the next to throw is not a turn timer.
LEMMA ScheduleSettles ==
  ASSUME NEW g \in Game, NEW t \in TaskTable, TimersKnow(g, t), Settling(g, t) \/ FreshTie(g),
         g.phase # "initial_roll", NEW self
  PROVE  LET u == ScheduleAfk(g, t, self) IN TimersKnow(g, u) /\ Settling(g, u)
<1> DEFINE p == Awaited(g)
           u == ScheduleAfk(g, t, self)
<1>1. Seated(g) \subseteq Player /\ Active(g) \subseteq Seated(g)
  BY SeatedArePlayers DEF Active
<1>2. FreshTie(g) => p = g.tiebreak.next_pid /\ p \in Player /\ p \in Active(g) /\ ~g.turn[p].done
  BY <1>1 DEF FreshTie, Awaited
<1>3. CASE ~AfkBot
  <2>1. u = t /\ \A q \in Player : t.afk[q] \notin {"turn", "warned"}
    BY <1>3 DEF ScheduleAfk, TimersKnow, TurnTimer
  <2>2. FreshTie(g) => Settling(g, t)
    <3> HIDE DEF p
    <3> QED BY <1>2, <2>1 DEF Settling, Unfinished, Owes, FreshTie
  <2> HIDE DEF u, p
  <2> QED BY <2>1, <2>2 DEF u
<1>4. CASE AfkBot /\ p = NoPlayer
  <2>1. u = t
    BY <1>4 DEF ScheduleAfk
  <2>2. ~FreshTie(g)
    BY <1>2, <1>4, PlayerAssumption
  <2> HIDE DEF u, p
  <2> QED BY <2>1, <2>2 DEF u
<1>5. CASE AfkBot /\ p # NoPlayer
  <2> DEFINE c == CancelAfk(t, p)
             kind == IF g.phase = "tiebreak" THEN "tiebreak" ELSE "turn"
  <2>1. p \in Player
    BY <1>5, AwaitedType DEF MaybePlayer
  <2>2. u = [c EXCEPT !.afk[p] = kind]
    BY <1>5 DEF ScheduleAfk
  <2>3. c \in TaskTable /\ Calmer(t, c) /\ c.snap[p] = NoSnapshot
    <3> HIDE DEF p
    <3>1. c \in TaskTable
      BY <2>1, CancelWrites
    <3>2. Calmer(t, c)
      BY <2>1, StoppedIsCalmer
    <3>3. c.snap[p] = NoSnapshot
      BY <2>1 DEF CancelAfk, TaskTable
    <3> QED BY <3>1, <3>2, <3>3
  <2>4. TimersKnow(g, c)
    <3>1. Renewed(g, g)
      BY DEF Renewed
    <3> HIDE DEF c
    <3> QED BY <2>3, <3>1, CalmerKnows
  <2> HIDE DEF c
  <2>5. g.phase # "tiebreak" => p \in Seated(g) /\ g.phase \in {"charge", "decharge"}
    <3>1. g.phase # "tiebreak" => p = CurrentPlayer(g) /\ g.phase \in {"charge", "decharge"}
      BY <1>5 DEF Awaited
    <3>2. CurrentPlayer(g) # NoPlayer => CurrentPlayer(g) \in Active(g)
      <4>1. CASE Active(g) = {}
        BY <4>1 DEF CurrentPlayer
      <4>2. CASE Active(g) # {}
        BY <4>2, StepsExist DEF CurrentPlayer
      <4> QED BY <4>1, <4>2
    <3> HIDE DEF p
    <3> QED BY <1>1, <1>5, <3>1, <3>2
  <2> HIDE DEF p
  <2>6. /\ u.snap = c.snap /\ u.afk[p] = kind
        /\ \A q \in Player \ {p} : u.afk[q] = c.afk[q]
    BY <2>1, <2>2, <2>3 DEF TaskTable
  <2> HIDE DEF u
  <2>7. TimersKnow(g, u)
    <3>1. kind = "tiebreak" \/ (kind = "turn" /\ g.phase # "tiebreak")
      OBVIOUS
    <3> HIDE DEF kind
    <3>2. ASSUME NEW q \in Player
          PROVE  /\ u.afk[q] = "warned" => ~g.turn[q].done
                 /\ u.afk[q] \in TurnTimer => q \in Seated(g) /\ AfkBot
                 /\ u.snap[q] # NoSnapshot => ~u.snap[q].turn.done /\ u.afk[q] \notin TurnTimer
      <4>1. CASE q = p
        BY <1>5, <2>3, <2>5, <2>6, <3>1, <4>1 DEF TurnTimer
      <4>2. CASE q # p
        BY <2>4, <2>6, <4>2 DEF TimersKnow
      <4> QED BY <4>1, <4>2
    <3> QED BY <3>2 DEF TimersKnow
  <2>8. Settling(g, u)
    <3>1. CASE g.phase = "tiebreak"
      <4>1. Calmer(c, u)
        BY <2>6, <3>1 DEF Calmer, TurnTimer
      <4>2. Settling(g, t) => Settling(g, u)
        BY <2>3, <4>1, CalmerTwice, CalmerSettles
      <4>3. FreshTie(g) => Owes(g, u, p)
        BY <1>2, <2>6, <3>1 DEF Owes
      <4> QED BY <2>1, <3>1, <4>2, <4>3 DEF Settling, Unfinished
    <3>2. CASE g.phase # "tiebreak"
      BY <2>5, <3>2 DEF Settling
    <3> QED BY <3>1, <3>2
  <2> QED BY <2>7, <2>8 DEF u
<1> QED BY <1>3, <1>4, <1>5

\* In the initial roll only initial timers are set.
LEMMA ScheduleOpening ==
  ASSUME NEW g \in Game, g.phase = "initial_roll", NEW t \in TaskTable, NEW self
  PROVE  LET u == ScheduleAfk(g, t, self)
         IN  /\ Calmer(t, u) /\ u.final = t.final
             /\ \A q \in Player : u.afk[q] \in {t.afk[q], "initial"}
<1> DEFINE u == ScheduleAfk(g, t, self)
           afk == [q \in Player |-> IF q \in ToRoll(g) \ {self} /\ t.afk[q] = "none"
                                    THEN "initial" ELSE t.afk[q]]
<1>1. u = t \/ u = [t EXCEPT !.afk = afk]
  BY DEF ScheduleAfk
<1>2. afk \in [Player -> AfkTask] /\ \A q \in Player : afk[q] \in {t.afk[q], "initial"}
  BY DEF TaskTable, AfkTask
<1> HIDE DEF u, afk
<1>3. /\ u.final = t.final /\ u.snap = t.snap
      /\ \A q \in Player : u.afk[q] \in {t.afk[q], "initial"}
  BY <1>1, <1>2 DEF TaskTable
<1> QED BY <1>3 DEF Calmer, u, TurnTimer

\* The end of a handler or task that settled a cycle.
LEMMA ConcludedInOrder ==
  ASSUME NEW g, NEW h \in Game, NEW t \in TaskTable, BankFits(h), TimersKnow(h, t),
         Settling(h, t) \/ FreshTie(h), h.phase \notin Prelude,
         Conclude(g, h, t, "schedule", NoPlayer)
  PROVE  InOrder(game', tasks') /\ game'.phase \notin Prelude
<1>1. game' = h
  BY DEF Conclude
<1>2. CASE EndsPartie(g, h)
  <2>1. tasks' = t
    BY <1>2 DEF Conclude
  <2>2. ~FreshTie(h)
    BY <1>2 DEF EndsPartie, FreshTie
  <2> QED BY <1>1, <2>1, <2>2 DEF InOrder
<1>3. CASE ~EndsPartie(g, h)
  <2>1. tasks' = ScheduleAfk(h, t, NoPlayer)
    BY <1>3 DEF Conclude
  <2>2. TimersKnow(h, tasks') /\ Settling(h, tasks')
    BY <2>1, ScheduleSettles DEF Prelude
  <2> QED BY <1>1, <2>2 DEF InOrder
<1> QED BY <1>2, <1>3

----------------------------------------------------------------------------
(* What the engine does to phase and bank.                                 *)

\* The players who waited for the end of g's match have seats in h, with a new
\* turn each; nobody else's turn has changed.
Ended(g, h) ==
  /\ Seated(g) \subseteq Seated(h) /\ h.out_of_match = g.out_of_match
  /\ \A p \in Player : h.turn[p] = IF p \in Seated(h) \ Seated(g) THEN NewTurn ELSE g.turn[p]

\* The match that loses the partie leaves the turns as they were.
LEMMA EndMatchEnds ==
  ASSUME NEW g, Tidy(g), NEW p \in Player, EndMatch(g, p).phase = "finished"
  PROVE  Ended(g, EndMatch(g, p))
<1> DEFINE count == g.match_losses[p] + 1
           f == [g EXCEPT !.match_losses[p] = count]
           h == AdmitWaiting(f)
           scored == LosePoint(h, p)
           next == ApplyPendingRules(scored)
           over == [scored EXCEPT !.partie_loser_id = p, !.phase = "finished"]
           new == Members(g.waiting_players)
<1>1. /\ Typed(f) /\ f.turn = g.turn /\ f.players = g.players
      /\ f.waiting_players = g.waiting_players /\ f.out_of_match = g.out_of_match
  <2>1. count \in Nat
    BY DEF Tidy, Typed, Game
  <2> HIDE DEF count
  <2>2. [g.match_losses EXCEPT ![p] = count] \in [Player -> Nat]
    BY <2>1 DEF Tidy, Typed, Game
  <2> QED BY <2>2 DEF Tidy, Typed, Game, RanksKnown
<1>2. h \in Game
  <2> HIDE DEF f
  <2> QED BY <1>1, AdmitWaitingType DEF Typed
<1>3. /\ h.players = g.players \o g.waiting_players /\ h.turn = FreshTurns(f, new)
      /\ h.out_of_match = g.out_of_match
  <2> HIDE DEF f
  <2> QED BY <1>1, AdmitWaitingWrites DEF Typed
<1>4. /\ scored \in Game /\ scored.turn = h.turn /\ scored.players = h.players
      /\ scored.out_of_match = h.out_of_match
  <2> DEFINE points == [h.round_points EXCEPT ![p] = h.round_points[p] + 1]
             clean  == [q \in Player |-> 0]
  <2>1. scored = [h EXCEPT !.round_points = points, !.match_losses = clean]
    <3> HIDE DEF h
    <3> QED BY DEF LosePoint
  <2> HIDE DEF h, scored
  <2>2. points \in [Player -> Nat] /\ clean \in [Player -> Nat]
    BY <1>2 DEF Game
  <2> HIDE DEF points, clean
  <2> QED BY <1>2, <2>1, <2>2 DEF Game
<1>5. next \in Game
  <2> HIDE DEF h, scored
  <2> QED BY <1>4 DEF ApplyPendingRules, Game
<1>6. EndMatch(g, p) \in {StartNewSet(h, p), StartNewSet(next, p), over}
  BY DEF EndMatch
<1>7. EndMatch(g, p) = over
  <2> HIDE DEF h, next, over
  <2>1. StartNewSet(h, p).phase = "charge" /\ StartNewSet(next, p).phase = "charge"
    BY <1>2, <1>5, StartNewSetWrites
  <2> QED BY <1>6, <2>1
<1>8. over.turn = h.turn /\ over.players = h.players /\ over.out_of_match = h.out_of_match
  <2> HIDE DEF h, scored
  <2> QED BY <1>4 DEF Game
<1> HIDE DEF over, h
<1>9. Seated(over) = Seated(g) \cup new /\ new \cap Seated(g) = {}
  <2>1. g.players \in Seq(Player) /\ g.waiting_players \in Seq(Player)
    BY DEF Tidy, Typed, Game
  <2> QED BY <1>3, <1>8, <2>1, OnceAppended DEF Tidy, Apart, Seated
<1>10. \A q \in Player : over.turn[q] = IF q \in new THEN NewTurn ELSE g.turn[q]
  BY <1>1, <1>3, <1>8 DEF FreshTurns
<1> HIDE DEF new, f
<1> QED BY <1>3, <1>7, <1>8, <1>9, <1>10 DEF Ended

\* A partie that ends is not settled anew where somebody has yet to play, or
\* where the cycle that ended it would end it again.
LEMMA EndedSettles ==
  ASSUME NEW g, NEW h \in Game, Ended(g, h), h.phase = "finished", NEW t, TimersKnow(g, t),
         \/ Unfinished(g, t)
         \/ AllDone(g) /\ \E l \in Player : Lowest(g, l) /\ h.tokens[l] >= Chips
  PROVE  Settling(h, t)
<1>1. Active(g) \subseteq Active(h) /\ ~NewTurn.done /\ Seated(h) \subseteq Player
  BY SeatedArePlayers DEF Ended, Active, NewTurn
<1>2. CASE Unfinished(g, t)
  <2>1. PICK p \in Player : Owes(g, t, p)
    BY <1>2 DEF Unfinished
  <2>2. Owes(h, t, p)
    BY <1>1, <2>1 DEF Owes, Ended
  <2> QED BY <2>2 DEF Settling, Unfinished
<1>3. CASE AllDone(g) /\ \E l \in Player : Lowest(g, l) /\ h.tokens[l] >= Chips
  <2>1. CASE \E p \in Seated(h) \ Seated(g) : p \notin h.out_of_match
    <3>1. PICK p \in Seated(h) \ Seated(g) : p \notin h.out_of_match
      BY <2>1
    <3>2. Owes(h, t, p)
      BY <1>1, <3>1 DEF Owes, Ended, Active, TimersKnow, TurnTimer
    <3> QED BY <1>1, <3>1, <3>2 DEF Settling, Unfinished
  <2>2. CASE \A p \in Seated(h) \ Seated(g) : p \in h.out_of_match
    <3>1. Active(h) = Active(g) /\ \A p \in Active(h) : p \in Player /\ h.turn[p] = g.turn[p]
      BY <1>1, <2>2 DEF Ended, Active
    <3>2. AllDone(h)
      BY <1>1, <1>3, <2>2 DEF AllDone, Ended
    <3>3. \A l : Lowest(g, l) => Lowest(h, l)
      BY <3>1 DEF Lowest
    <3> QED BY <1>3, <3>2, <3>3 DEF Settling, Over
  <2> QED BY <2>1, <2>2
<1> QED BY <1>2, <1>3

\* A game in which a turn or a tie has ended, before the next timer is set.
Played(g, t) ==
  /\ BankFits(g) /\ TimersKnow(g, t) /\ g.phase \notin Prelude
  /\ Settling(g, t) \/ FreshTie(g)

\* Phase and bank of a cycle that is about to be closed.
CycleFits(g) ==
  /\ Tidy(g) /\ PoolFitsPhase(g) /\ g.phase \in {"charge", "decharge", "finished"}
  /\ g.tiebreak = NoTiebreak /\ TwoSit(g)
  /\ g.phase # "finished" => OutFits(g, g.phase)
Full(g) == \E q \in Seated(g) : g.tokens[q] >= Chips

\* _finalize_cycle.
LEMMA FinalizeCycleFits ==
  ASSUME NEW g, CycleFits(g), g.phase = "finished" => Full(g), NEW starter \in MaybePlayer
  PROVE  LET h == FinalizeCycle(g, starter)
         IN  /\ BankFits(h)
             /\ \/ h.phase \in {"charge", "decharge"}
                \/ h.phase = "finished" /\ Ended(g, h) /\ Full(g) /\ h.tokens = g.tokens
<1> DEFINE full == {q \in Seated(g) : g.tokens[q] >= Chips}
           h == FinalizeCycle(g, starter)
<1>1. /\ g \in Game /\ Typed(g) /\ Apart(g) /\ Seated(g) \subseteq Player
      /\ g.tokens \in [Player -> Nat] /\ Chips \in Nat \ {0}
  BY SeatedArePlayers, BoundsAssumption DEF CycleFits, Tidy, Typed, Game
<1>2. TwoSit(h) /\ h \in Game
  <2>1. Upholds(g, h)
    BY FinalizeCycleUpholds DEF CycleFits
  <2> HIDE DEF h
  <2> QED BY <2>1 DEF Upholds, TwoSit, Tidy, Typed, CycleFits
<1>3. CASE full = {}
  <2> DEFINE n == NextCycle(SitOut(g), starter)
  <2>1. h = n
    BY <1>3 DEF FinalizeCycle
  <2>2. /\ n.players = g.players /\ n.tokens = g.tokens /\ n.pool = g.pool
        /\ n.phase = g.phase /\ n.tiebreak = g.tiebreak
        /\ n.out_of_match = IF g.phase = "decharge"
                            THEN g.out_of_match \cup {q \in Seated(g) : g.tokens[q] = 0}
                            ELSE g.out_of_match
    BY <1>1, NextCycleWrites, ZenonT(60)
  <2> HIDE DEF n, h
  <2>3. g.phase \in {"charge", "decharge"}
    BY <1>3 DEF CycleFits, Full
  <2>4. \A q \in Seated(h) : h.tokens[q] < Chips
    BY <1>1, <1>3, <2>1, <2>2 DEF Seated
  <2>5. PoolFitsPhase(h)
    BY <2>1, <2>2, <2>3 DEF CycleFits, PoolFitsPhase, PlayPhase
  <2>6. OutFits(h, h.phase)
    BY <2>1, <2>2, <2>3 DEF CycleFits, OutFits, SitOutEmpty
  <2>7. h.phase = "decharge" => \A q \in Active(h) : h.tokens[q] > 0
    BY <1>1, <2>1, <2>2 DEF Active, Seated
  <2>8. MatchFits(h)
    BY <2>1, <2>2, <2>3, <2>6, <2>7 DEF MatchFits, PlayPhase
  <2>9. BankFits(h)
    BY <1>2, <2>1, <2>2, <2>3, <2>4, <2>5, <2>8 DEF BankFits, CycleFits
  <2> QED BY <2>1, <2>2, <2>3, <2>9 DEF h
<1>4. CASE full # {}
  <2> DEFINE q == FirstSeated(g, full)
  <2>1. q \in full /\ q \in Seated(g) /\ q \in Player
    <3>1. PICK r \in full \cap Seated(g) : TRUE
      BY <1>4
    <3> HIDE DEF full
    <3> QED BY <1>1, <3>1, FirstSeatedType
  <2>2. h = EndMatch(g, q)
    BY <1>4 DEF FinalizeCycle
  <2>3. Full(g)
    BY <2>1 DEF Full
  <2> HIDE DEF q, full, h
  <2>4. MatchEnded(g, q, h)
    BY <1>1, <2>1, <2>2, EndMatchWrites
  <2>5. h.phase = "finished" => Ended(g, h)
    BY <2>1, <2>2, EndMatchEnds DEF CycleFits
  <2>6. CASE PartieLost(g, q)
    <3>1. h.phase = "finished" /\ h.tokens = g.tokens /\ h.tiebreak = NoTiebreak
      BY <2>4, <2>6 DEF MatchEnded, CycleFits
    <3>2. BankFits(h)
      BY <1>2, <3>1 DEF BankFits, PoolFitsPhase, MatchFits, InPlay
    <3> QED BY <2>3, <2>5, <3>1, <3>2 DEF h
  <2>7. CASE ~PartieLost(g, q)
    <3>1. /\ h.phase = "charge" /\ h.tokens = Nobody /\ h.tiebreak = NoTiebreak
          /\ h.pool = Chips /\ h.out_of_match = {}
      BY <2>4, <2>7 DEF MatchEnded, CycleFits
    <3>2. \A p \in Seated(h) : h.tokens[p] < Chips
      BY <1>1, <1>2, <3>1, SeatedArePlayers DEF Nobody
    <3>3. PoolFitsPhase(h) /\ MatchFits(h)
      BY <1>1, <3>1 DEF PoolFitsPhase, MatchFits, OutFits, SitOutEmpty, PlayPhase
    <3>4. BankFits(h)
      BY <1>2, <3>1, <3>2, <3>3 DEF BankFits
    <3> QED BY <3>1, <3>4 DEF h
  <2> QED BY <2>6, <2>7
<1> QED BY <1>3, <1>4

\* A tie that begins, or is thrown again.
LEMMA TieBegins ==
  ASSUME NEW g, Tidy(g), BankFits(g), g.phase \in InPlay,
         NEW tied \in SUBSET Active(g), tied # {}, NEW penalty, NEW winner
  PROVE  LET h == EnterTiebreak(g, tied, penalty, PlayPhase(g), winner)
         IN  BankFits(h) /\ FreshTie(h) /\ Renewed(g, h)
<1> DEFINE phase == PlayPhase(g)
           order == ReversePlayOrder(g)
           hand  == FirstTied(order, tied, 1)
           turns == FreshTurns(g, tied)
           clean == [p \in Player |-> 0]
           tb == [order |-> order, tied |-> tied, throws |-> clean, next_pid |-> hand,
                  penalty |-> penalty, return_phase |-> phase, original_winner_id |-> winner]
           h == [g EXCEPT !.phase = "tiebreak", !.turn = turns, !.tiebreak = tb]
<1>1. EnterTiebreak(g, tied, penalty, phase, winner) = h
  BY DEF EnterTiebreak
<1>2. /\ g \in Game /\ Typed(g) /\ Once(g.players) /\ Active(g) \subseteq Seated(g)
      /\ Seated(g) \subseteq Player
  BY SeatedArePlayers DEF Tidy, Typed, Apart, Active
<1>3. tied \in SUBSET Seated(g) /\ g.players # <<>>
  BY <1>2 DEF Seated, Members
<1>4. TieHand(h, "none")
  <2> HIDE DEF h, phase
  <2> QED BY <1>1, <1>2, <1>3, EnterTiebreakHand
<1>5. /\ tb.tied = tied /\ tb.next_pid = hand /\ tb.return_phase = phase
      /\ \A p \in Player : tb.throws[p] = 0
  OBVIOUS
<1>6. \A p \in tied : turns[p] = NewTurn
  BY <1>2, <1>3 DEF FreshTurns
<1>7. Renewed(g, h)
  <2> HIDE DEF h, phase
  <2> QED BY <1>1, <1>2, EnterTiebreakRenews
<1> HIDE DEF tb, turns, hand
<1>8. /\ h.phase = "tiebreak" /\ h.turn = turns /\ h.tiebreak = tb /\ h.players = g.players
      /\ h.out_of_match = g.out_of_match /\ h.pool = g.pool /\ h.tokens = g.tokens
  BY <1>2 DEF Game
<1> HIDE DEF h, phase
<1>9. hand \in tied
  BY <1>4, <1>5, <1>8 DEF TieHand
<1>10. Seated(h) = Seated(g) /\ Active(h) = Active(g)
  BY <1>8 DEF Seated, Active
<1>11. FreshTie(h)
  BY <1>5, <1>6, <1>8, <1>9, <1>10 DEF FreshTie, NewTurn
<1>12. TieFits(h)
  BY <1>5, <1>8, <1>9, <1>10 DEF TieFits
<1>13. PoolFitsPhase(h) /\ MatchFits(h)
  <2>1. PlayPhase(h) = phase /\ h.phase \in InPlay
    BY <1>5, <1>8 DEF PlayPhase, InPlay
  <2> QED BY <1>8, <1>10, <2>1 DEF BankFits, PoolFitsPhase, MatchFits, OutFits, SitOutEmpty, phase
<1>14. BankFits(h)
  BY <1>8, <1>10, <1>12, <1>13 DEF BankFits, TwoSit, InPlay
<1> QED BY <1>1, <1>7, <1>11, <1>14 DEF phase

\* Chips go to the loser, and to nobody else; seats, turns and tie stay.
Charged(g, loser, k) ==
  /\ Tidy(k) /\ SameSeats(g, k) /\ k.turn = g.turn /\ k.tiebreak = g.tiebreak
  /\ \A q \in Player \ {loser} : k.tokens[q] <= g.tokens[q]
  /\ k.tokens[loser] >= g.tokens[loser]

\* Who sits out, without chips, still has none.
LEMMA ChargedOut ==
  ASSUME NEW g, Tidy(g), SitOutEmpty(g), g.out_of_match \subseteq Player,
         NEW loser, loser \notin g.out_of_match, NEW k, Charged(g, loser, k)
  PROVE  SitOutEmpty(k)
<1>1. g.tokens \in [Player -> Nat] /\ k.tokens \in [Player -> Nat]
  BY DEF Charged, Tidy, Typed, Game
<1>2. k.out_of_match = g.out_of_match
  BY DEF Charged, SameSeats
<1>3. ASSUME NEW p \in g.out_of_match
      PROVE  k.tokens[p] = 0
  <2>1. p \in Player \ {loser} /\ g.tokens[p] = 0
    BY DEF SitOutEmpty
  <2> QED BY <1>1, <2>1 DEF Charged
<1> QED BY <1>2, <1>3 DEF SitOutEmpty

LEMMA TakeFromBankCharges ==
  ASSUME NEW g, Tidy(g), NEW loser \in Seated(g), NEW penalty \in Nat
  PROVE  LET k == TakeFromBank(g, loser, penalty, "charge")
         IN  /\ Charged(g, loser, k) /\ PoolFitsPhase(k) /\ k.phase \in {"charge", "decharge"}
<1> DEFINE taken == Lesser(penalty, g.pool)
           chips == [g.tokens EXCEPT ![loser] = @ + taken]
           left  == g.pool - taken
           phase == IF left = 0 THEN "decharge" ELSE "charge"
           k     == TakeFromBank(g, loser, penalty, "charge")
<1>1. /\ g \in Game /\ Typed(g) /\ loser \in Player /\ g.pool \in Nat
      /\ g.tokens \in [Player -> Nat]
  BY SeatedArePlayers DEF Tidy, Typed, Game
<1>2. taken \in Nat /\ left \in Nat
  BY <1>1 DEF Lesser
<1>3. k = [g EXCEPT !.tokens = chips, !.pool = left, !.phase = phase]
  <2>1. k = [g EXCEPT !.tokens[loser] = @ + taken, !.pool = @ - taken, !.phase = phase]
    BY DEF TakeFromBank
  <2> HIDE DEF taken, k
  <2> QED BY <1>1, <2>1 DEF Game
<1>4. Tidy(k)
  BY TakeFromBankUpholds DEF Upholds
<1> HIDE DEF taken, k
<1>5. /\ \A q \in Player \ {loser} : chips[q] <= g.tokens[q]
      /\ chips[loser] >= g.tokens[loser]
  BY <1>1, <1>2
<1> HIDE DEF chips, left, phase
<1>6. /\ k.tokens = chips /\ k.pool = left /\ k.phase = phase /\ k.turn = g.turn
      /\ k.tiebreak = g.tiebreak /\ SameSeats(g, k)
  BY <1>1, <1>3 DEF Game, SameSeats
<1>7. PoolFitsPhase(k) /\ k.phase \in {"charge", "decharge"}
  BY <1>2, <1>6 DEF PoolFitsPhase, PlayPhase, phase
<1> QED BY <1>4, <1>5, <1>6, <1>7 DEF Charged, k

LEMMA GiveToLoserCharges ==
  ASSUME NEW g, Tidy(g), NEW winner \in MaybePlayer, NEW loser \in Seated(g), NEW penalty \in Nat
  PROVE  LET k == GiveToLoser(g, winner, loser, penalty)
         IN  Charged(g, loser, k) /\ k.phase = g.phase /\ k.pool = g.pool
<1> DEFINE given == Lesser(penalty, g.tokens[winner])
           k == GiveToLoser(g, winner, loser, penalty)
<1>1. /\ g \in Game /\ loser \in Player /\ Seated(g) \subseteq Player
      /\ g.tokens \in [Player -> Nat]
  BY SeatedArePlayers DEF Tidy, Typed, Game
<1>2. Tidy(k) /\ k.phase = g.phase /\ k.pool = g.pool /\ k.turn = g.turn
  <2>1. Upholds(g, k)
    BY GiveToLoserUpholds
  <2> HIDE DEF k
  <2> QED BY <1>1, <2>1, GiveToLoserFields, TransfersKeepTurns DEF Upholds, k
<1>3. k.tiebreak = g.tiebreak
  BY <1>1 DEF GiveToLoser, Game
<1>4. /\ SameSeats(g, k)
      /\ winner \notin Seated(g) => k.tokens = g.tokens
      /\ winner \in Seated(g) => k.tokens = Moved(g.tokens, winner, loser, given)
  BY <1>1, GiveToLoserWrites
<1> HIDE DEF k
<1>5. CASE winner \notin Seated(g)
  <2>1. \A q \in Player : k.tokens[q] <= g.tokens[q] /\ k.tokens[q] >= g.tokens[q]
    BY <1>1, <1>4, <1>5
  <2> QED BY <1>1, <1>2, <1>3, <1>4, <2>1 DEF Charged, k
<1>6. CASE winner \in Seated(g)
  <2>1. given \in Nat /\ given <= g.tokens[winner]
    BY <1>1, <1>6 DEF Lesser
  <2> HIDE DEF given
  <2>2. /\ \A q \in Player \ {loser} : k.tokens[q] <= g.tokens[q]
        /\ k.tokens[loser] >= g.tokens[loser]
    BY <1>1, <1>4, <1>6, <2>1 DEF Moved
  <2> QED BY <1>2, <1>3, <1>4, <2>2 DEF Charged, k
<1> QED BY <1>5, <1>6

LEMMA ChargedEnds ==
  ASSUME NEW g, NEW loser, NEW k, Charged(g, loser, k), NEW h, Ended(k, h)
  PROVE  Ended(g, h)
BY DEF Charged, SameSeats, Seated, Ended

\* _resolve_round, where the cycle is settled for the first time, or ends once
\* more the match that it ended.
LEMMA ResolveRoundFits ==
  ASSUME NEW g, Tidy(g), BankFits(g), AllDone(g),
         g.phase \in {"charge", "decharge"} \/ (g.phase = "finished" /\ Over(g))
  PROVE  LET h == ResolveRound(g)
         IN  /\ BankFits(h)
             /\ \/ FreshTie(h) \/ h.phase \in {"charge", "decharge"}
                \/ /\ h.phase = "finished" /\ Ended(g, h)
                   /\ \E l \in Player : Lowest(g, l) /\ h.tokens[l] >= Chips
<1> DEFINE h == ResolveRound(g)
<1>1. /\ g \in Game /\ Typed(g) /\ Apart(g) /\ Seated(g) \subseteq Player
      /\ Active(g) \subseteq Seated(g) /\ NoPlayer \in MaybePlayer
      /\ g.tokens \in [Player -> Nat] /\ Chips \in Nat
  BY SeatedArePlayers, BoundsAssumption DEF Tidy, Typed, Active, MaybePlayer, Game
<1>2. /\ TwoSit(g) /\ g.tiebreak = NoTiebreak /\ PoolFitsPhase(g)
      /\ g.phase # "finished" => /\ \A q \in Seated(g) : g.tokens[q] < Chips
                                 /\ OutFits(g, g.phase) /\ g.out_of_match \subseteq Player
  BY <1>1 DEF BankFits, MatchFits, PlayPhase, InPlay, Game
<1>3. g.phase = "finished" =>
        \E l \in Player : Lowest(g, l) /\ l \in Seated(g) /\ g.tokens[l] >= Chips
  BY <1>1 DEF Over, Lowest
<1>4. Len(g.players) # 1
  BY <1>1, <1>2 DEF TwoSit, Seated, Members
<1>5. CASE h = FinalizeCycle(g, NoPlayer)
  <2>1. CycleFits(g) /\ (g.phase = "finished" => Full(g))
    BY <1>2, <1>3 DEF CycleFits, Full
  <2> HIDE DEF h
  <2>2. /\ BankFits(h)
        /\ \/ h.phase \in {"charge", "decharge"}
           \/ h.phase = "finished" /\ Ended(g, h) /\ Full(g) /\ h.tokens = g.tokens
    BY <1>1, <1>5, <2>1, FinalizeCycleFits
  <2>3. Full(g) => g.phase = "finished"
    BY <1>1, <1>2 DEF Full
  <2> QED BY <1>3, <2>2, <2>3 DEF h
<1>6. ASSUME NEW loser \in Active(g) \cap Player, NEW k, Charged(g, loser, k),
             PoolFitsPhase(k), k.phase \in {"charge", "decharge", "finished"},
             k.phase = "finished" => g.phase = "finished",
             k.phase # "finished" => OutFits(k, k.phase),
             Lowest(g, loser), h = FinalizeCycle(k, loser)
      PROVE  /\ BankFits(h)
             /\ \/ h.phase \in {"charge", "decharge"}
                \/ /\ h.phase = "finished" /\ Ended(g, h)
                   /\ \E l \in Player : Lowest(g, l) /\ h.tokens[l] >= Chips
  <2> HIDE DEF h
  <2>1. Seated(k) = Seated(g) /\ loser \in MaybePlayer /\ k.tokens \in [Player -> Nat]
    BY <1>6 DEF Charged, SameSeats, Seated, MaybePlayer, Tidy, Typed, Game
  <2>2. g.phase = "finished" => k.tokens[loser] >= Chips
    <3>1. ASSUME g.phase = "finished"
          PROVE  g.tokens[loser] >= Chips
      <4>1. PICK l \in Player : Lowest(g, l) /\ g.tokens[l] >= Chips
        BY <1>3, <3>1
      <4>2. g.turn[l].rank \in Nat /\ g.turn[loser].rank \in Nat
        BY <1>1 DEF Game, Turn, Rank
      <4>3. l = loser
        BY <1>6, <4>1, <4>2 DEF Lowest
      <4> QED BY <4>1, <4>3
    <3> QED BY <1>1, <1>6, <2>1, <3>1 DEF Charged
  <2>3. CycleFits(k)
    <3>1. k.phase # "finished" => OutFits(k, k.phase)
      BY <1>6
    <3> QED BY <1>2, <1>6, <2>1, <3>1 DEF CycleFits, Charged, TwoSit
  <2>4. k.phase = "finished" => Full(k)
    BY <1>1, <1>6, <2>1, <2>2 DEF Full
  <2>5. /\ BankFits(h)
        /\ \/ h.phase \in {"charge", "decharge"}
           \/ h.phase = "finished" /\ Ended(k, h) /\ Full(k) /\ h.tokens = k.tokens
    BY <1>6, <2>1, <2>3, <2>4, FinalizeCycleFits
  <2>6. Full(k) => k.tokens[loser] >= Chips
    <3>1. CASE g.phase = "finished"
      BY <2>2, <3>1
    <3>2. ASSUME g.phase # "finished", NEW q \in Seated(k), k.tokens[q] >= Chips
          PROVE  q = loser
      <4>1. q \in Player /\ g.tokens[q] < Chips
        BY <1>1, <1>2, <2>1, <3>2
      <4>2. q # loser => k.tokens[q] <= g.tokens[q]
        BY <1>6, <4>1 DEF Charged
      <4> QED BY <1>1, <2>1, <3>2, <4>1, <4>2
    <3> QED BY <3>1, <3>2 DEF Full
  <2> QED BY <1>6, <2>5, <2>6, ChargedEnds
<1>7. ASSUME NEW low \in SUBSET (Active(g) \cap Player), NEW loser \in low,
             NEW winner \in MaybePlayer \ low, NEW penalty \in Nat \ {0},
             \/ /\ h = EnterTiebreak(g, low, penalty, g.phase, winner)
                /\ \A l : ~Lowest(g, l)
             \/ /\ g.phase = "charge" /\ Lowest(g, loser)
                /\ h = FinalizeCycle(TakeFromBank(g, loser, penalty, "charge"), loser)
             \/ /\ g.phase # "charge" /\ Lowest(g, loser)
                /\ h = FinalizeCycle(GiveToLoser(g, winner, loser, penalty), loser)
      PROVE  /\ BankFits(h)
             /\ \/ FreshTie(h) \/ h.phase \in {"charge", "decharge"}
                \/ /\ h.phase = "finished" /\ Ended(g, h)
                   /\ \E l \in Player : Lowest(g, l) /\ h.tokens[l] >= Chips
  <2> HIDE DEF h
  <2>1. loser \in Seated(g) /\ loser \in Active(g) \cap Player
    BY <1>1
  <2>2. CASE h = EnterTiebreak(g, low, penalty, g.phase, winner) /\ \A l : ~Lowest(g, l)
    <3>1. g.phase \in {"charge", "decharge"}
      BY <1>3, <2>2
    <3>2. PlayPhase(g) = g.phase /\ g.phase \in InPlay
      BY <3>1 DEF PlayPhase, InPlay
    <3>3. low \in SUBSET Active(g) /\ low # {}
      OBVIOUS
    <3> QED BY <2>2, <3>2, <3>3, TieBegins
  <2>3. CASE /\ g.phase = "charge" /\ Lowest(g, loser)
             /\ h = FinalizeCycle(TakeFromBank(g, loser, penalty, "charge"), loser)
    <3> DEFINE k == TakeFromBank(g, loser, penalty, "charge")
    <3>1. Charged(g, loser, k) /\ PoolFitsPhase(k) /\ k.phase \in {"charge", "decharge"}
      BY <2>1, TakeFromBankCharges
    <3> HIDE DEF k
    <3>2. h = FinalizeCycle(k, loser)
      BY <2>3 DEF k
    <3>3. OutFits(k, k.phase)
      BY <1>1, <1>2, <2>1, <2>3, <3>1, ChargedOut DEF OutFits, Active, Charged, SameSeats
    <3> QED BY <1>6, <2>1, <2>3, <3>1, <3>2, <3>3 DEF h
  <2>4. CASE /\ g.phase # "charge" /\ Lowest(g, loser)
             /\ h = FinalizeCycle(GiveToLoser(g, winner, loser, penalty), loser)
    <3> DEFINE k == GiveToLoser(g, winner, loser, penalty)
    <3>1. Charged(g, loser, k) /\ k.phase = g.phase /\ k.pool = g.pool
      BY <2>1, GiveToLoserCharges
    <3> HIDE DEF k
    <3>2. PoolFitsPhase(k)
      BY <1>2, <2>4, <3>1 DEF PoolFitsPhase, PlayPhase, InPlay
    <3>3. h = FinalizeCycle(k, loser)
      BY <2>4 DEF k
    <3>4. k.phase # "finished" => OutFits(k, k.phase)
      BY <1>1, <1>2, <2>1, <2>4, <3>1, ChargedOut DEF OutFits, Active, Charged, SameSeats
    <3> QED BY <1>6, <2>1, <2>4, <3>1, <3>2, <3>3, <3>4 DEF h
  <2> QED BY <1>7, <2>2, <2>3, <2>4
<1>8. \/ Len(g.players) = 1 /\ h = Disband(g)
      \/ /\ h = FinalizeCycle(g, NoPlayer)
         /\ \A p, q \in Active(g) : g.turn[p] # NoTurn /\ g.turn[q] # NoTurn => p = q
      \/ \E low \in SUBSET (Active(g) \cap Player) : \E loser \in low :
           \E winner \in MaybePlayer \ low, penalty \in Nat \ {0} :
             \/ /\ h = EnterTiebreak(g, low, penalty, g.phase, winner)
                /\ \A l : ~Lowest(g, l)
             \/ /\ g.phase = "charge" /\ Lowest(g, loser)
                /\ h = FinalizeCycle(TakeFromBank(g, loser, penalty, "charge"), loser)
             \/ /\ g.phase # "charge" /\ Lowest(g, loser)
                /\ h = FinalizeCycle(GiveToLoser(g, winner, loser, penalty), loser)
  BY <1>1, ResolveRoundRanks
<1> HIDE DEF h
<1>9. CASE h = FinalizeCycle(g, NoPlayer)
  BY <1>5, <1>9 DEF h
<1> QED BY <1>4, <1>7, <1>8, <1>9, Zenon DEF h

\* What happens to turns and seats leaves what the timers know true.
LEMMA KnownAfter ==
  ASSUME NEW g, NEW t, TimersKnow(g, t), NEW h, Renewed(g, h), Upholds(g, h)
  PROVE  TimersKnow(h, t)
<1>1. Calmer(t, t)
  BY DEF Calmer
<1> QED BY <1>1, CalmerKnows DEF Upholds

\* The end of a turn, also one that comes late.
LEMMA EndTurnFits ==
  ASSUME NEW g, Tidy(g), NEW t, InOrder(g, t), g.phase \notin Prelude
  PROVE  Played(EndTurn(g), t)
<1> DEFINE k == Advance(g)
           index == (g.current_index + StepsToActive(g, 1)) % Len(g.players)
           h == EndTurn(g)
<1>1. k = g \/ k = [g EXCEPT !.current_index = index]
  BY DEF Advance
<1>2. k \in Game /\ g \in Game /\ Typed(g) /\ Apart(g)
  BY AdvanceType DEF Tidy, Typed
<1>3. h = IF AllDone(k) THEN ResolveRound(k) ELSE k
  BY DEF EndTurn
<1>4. Renewed(g, h) /\ Upholds(g, h)
  BY EndTurnRenews, EndTurnUpholds DEF Tidy
<1>5. TimersKnow(h, t)
  <2> HIDE DEF h
  <2> QED BY <1>4, KnownAfter DEF InOrder
<1>6. /\ k.players = g.players /\ k.waiting_players = g.waiting_players
      /\ k.out_of_match = g.out_of_match /\ k.turn = g.turn /\ k.phase = g.phase
      /\ k.pool = g.pool /\ k.tokens = g.tokens /\ k.match_losses = g.match_losses
      /\ k.tiebreak = g.tiebreak
  <2> HIDE DEF k, index
  <2> QED BY <1>1, <1>2 DEF Game
<1> HIDE DEF k, h
<1>7. /\ Seated(k) = Seated(g) /\ Active(k) = Active(g) /\ Tidy(k)
      /\ Unfinished(k, t) = Unfinished(g, t)
  <2>1. Seated(k) = Seated(g) /\ Active(k) = Active(g)
    BY <1>6 DEF Seated, Active
  <2>2. Apart(k)
    BY <1>2, <1>6, <2>1 DEF Apart
  <2>3. Typed(k)
    BY <1>2, <1>6 DEF Typed, RanksKnown
  <2>4. \A p : Owes(k, t, p) <=> Owes(g, t, p)
    BY <1>6, <2>1 DEF Owes
  <2> QED BY <2>1, <2>2, <2>3, <2>4 DEF Tidy, Unfinished
<1>8. BankFits(k)
  BY <1>6, <1>7 DEF InOrder, BankFits, TieFits, TwoSit, PoolFitsPhase, PlayPhase, MatchFits,
                    OutFits, SitOutEmpty
<1>9. CASE ~AllDone(k)
  <2>1. h = k
    BY <1>3, <1>9
  <2>2. ~AllDone(g)
    BY <1>6, <1>7, <1>9 DEF AllDone
  <2>3. Settling(k, t)
    BY <1>6, <1>7, <2>2 DEF InOrder, Settling, Over
  <2> QED BY <1>5, <1>6, <1>8, <2>1, <2>3 DEF Played, h
<1>10. CASE AllDone(k)
  <2>1. h = ResolveRound(k) /\ AllDone(g)
    BY <1>3, <1>6, <1>7, <1>10 DEF AllDone
  <2>2. ~Unfinished(g, t)
    BY <2>1 DEF AllDone, Unfinished, Owes, Active
  <2>3. g.phase # "tiebreak" /\ (g.phase = "finished" => Over(g))
    BY <2>2 DEF InOrder, Settling
  <2>4. g.phase \in {"charge", "decharge"} \/ (g.phase = "finished" /\ Over(g))
    BY <1>2, <2>3 DEF Game, Phase, Prelude
  <2>5. \A l : Lowest(k, l) <=> Lowest(g, l)
    BY <1>6, <1>7 DEF Lowest
  <2>6. k.phase \in {"charge", "decharge"} \/ (k.phase = "finished" /\ Over(k))
    BY <1>6, <1>10, <2>4, <2>5 DEF Over
  <2>7. /\ BankFits(h)
        /\ \/ FreshTie(h) \/ h.phase \in {"charge", "decharge"}
           \/ /\ h.phase = "finished" /\ Ended(k, h)
              /\ \E l \in Player : Lowest(k, l) /\ h.tokens[l] >= Chips
    BY <1>7, <1>8, <1>10, <2>1, <2>6, ResolveRoundFits
  <2>8. CASE FreshTie(h)
    BY <1>5, <2>7, <2>8 DEF Played, FreshTie, Prelude, h
  <2>9. CASE h.phase \in {"charge", "decharge"}
    BY <1>5, <2>7, <2>9 DEF Played, Settling, Prelude, h
  <2>10. CASE /\ h.phase = "finished" /\ Ended(k, h)
              /\ \E l \in Player : Lowest(k, l) /\ h.tokens[l] >= Chips
    <3>1. Ended(g, h) /\ h \in Game
      BY <1>4, <1>6, <1>7, <2>10 DEF Ended, Upholds, Tidy, Typed
    <3>2. \E l \in Player : Lowest(g, l) /\ h.tokens[l] >= Chips
      BY <2>5, <2>10
    <3>3. Settling(h, t)
      BY <2>1, <2>10, <3>1, <3>2, EndedSettles DEF InOrder
    <3> QED BY <1>5, <2>7, <2>10, <3>3 DEF Played, Prelude, h
  <2> QED BY <2>7, <2>8, <2>9, <2>10
<1> QED BY <1>9, <1>10

\* The loser of a tie has paid, and the tie is forgotten.
LEMMA ClearedFits ==
  ASSUME NEW g, Tidy(g), BankFits(g), g.phase = "tiebreak", NEW loser \in Active(g)
  PROVE  LET k == Cleared(g, loser)
         IN  /\ CycleFits(k) /\ k.phase \in {"charge", "decharge"}
             /\ \A h : Ended(k, h) => Ended(g, h)
<1> DEFINE tb == g.tiebreak
           charged == TakeFromBank(g, loser, tb.penalty, "charge")
           given == GiveToLoser(g, tb.original_winner_id, loser, tb.penalty)
           k == Cleared(g, loser)
<1>1. /\ g \in Game /\ Typed(g) /\ loser \in Player /\ NoTiebreak \in Tiebreak
      /\ tb.penalty \in Nat /\ tb.original_winner_id \in MaybePlayer
      /\ loser \in Seated(g) /\ loser \notin g.out_of_match /\ g.out_of_match \subseteq Player
  <2>1. /\ g \in Game /\ Typed(g) /\ loser \in Player
        /\ loser \in Seated(g) /\ loser \notin g.out_of_match /\ g.out_of_match \subseteq Player
    BY SeatedArePlayers DEF Tidy, Typed, Active, Game
  <2>2. NoTiebreak \in Tiebreak
    BY DEF NoTiebreak, Tiebreak, MaybePlayer, Phase
  <2>3. tb.penalty \in Nat /\ tb.original_winner_id \in MaybePlayer
    BY <2>1 DEF Game, Tiebreak
  <2> QED BY <2>1, <2>2, <2>3
<1>2. /\ tb.return_phase \in {"charge", "decharge"} /\ TwoSit(g)
      /\ tb.return_phase = "charge" <=> g.pool > 0
  BY DEF BankFits, PoolFitsPhase, PlayPhase, InPlay
<1>3. Charged(g, loser, charged) /\ PoolFitsPhase(charged) /\ charged.phase \in {"charge", "decharge"}
  <2> HIDE DEF tb
  <2> QED BY <1>1, TakeFromBankCharges
<1>4. Charged(g, loser, given) /\ given.pool = g.pool
  <2> HIDE DEF tb
  <2> QED BY <1>1, GiveToLoserCharges
<1>5. k = IF tb.return_phase = "charge" THEN [charged EXCEPT !.tiebreak = NoTiebreak]
          ELSE [[given EXCEPT !.phase = "decharge"] EXCEPT !.tiebreak = NoTiebreak]
  BY DEF Cleared, Paid
<1>6. Typed(k)
  BY <1>1, ClearedType
<1> HIDE DEF charged, given, k
<1>7. ASSUME tb.return_phase = "charge"
      PROVE  /\ k.phase = charged.phase /\ k.pool = charged.pool /\ k.turn = charged.turn
             /\ SameSeats(charged, k) /\ k.tokens = charged.tokens /\ k.tiebreak = NoTiebreak
  BY <1>1, <1>3, <1>5, <1>7 DEF Charged, Tidy, Typed, Game, SameSeats
<1>8. ASSUME tb.return_phase # "charge"
      PROVE  /\ k.phase = "decharge" /\ k.pool = given.pool /\ k.turn = given.turn
             /\ SameSeats(given, k) /\ k.tokens = given.tokens /\ k.tiebreak = NoTiebreak
  BY <1>1, <1>4, <1>5, <1>8 DEF Charged, Tidy, Typed, Game, SameSeats
<1>9. PICK c : /\ Charged(g, loser, c) /\ SameSeats(c, k) /\ k.tokens = c.tokens /\ k.turn = c.turn
               /\ k.tiebreak = NoTiebreak
  BY <1>3, <1>4, <1>7, <1>8
<1>10. SameSeats(g, k) /\ k.turn = g.turn
  BY <1>9 DEF Charged, SameSeats
<1>11. Apart(k)
  BY <1>9 DEF Charged, Tidy, Apart, SameSeats, Seated
<1>12. PoolFitsPhase(k) /\ k.phase \in {"charge", "decharge"}
  <2>1. CASE tb.return_phase = "charge"
    BY <1>3, <1>7, <2>1 DEF PoolFitsPhase, PlayPhase
  <2>2. CASE tb.return_phase # "charge"
    <3>1. k.pool = g.pool /\ k.phase = "decharge"
      BY <1>4, <1>8, <2>2
    <3> QED BY <1>2, <2>2, <3>1 DEF PoolFitsPhase, PlayPhase
  <2> QED BY <2>1, <2>2
<1>13. TwoSit(k) /\ Tidy(k)
  BY <1>2, <1>6, <1>10, <1>11 DEF TwoSit, SameSeats, Seated, Tidy
<1>14. \A h : Ended(k, h) => Ended(g, h)
  BY <1>10 DEF Ended, SameSeats, Seated
<1>15. OutFits(k, k.phase)
  <2>1. OutFits(g, tb.return_phase)
    BY DEF BankFits, MatchFits, PlayPhase, InPlay
  <2>2. SitOutEmpty(k)
    BY <1>1, <1>9, <2>1, ChargedOut DEF OutFits, SitOutEmpty, SameSeats
  <2>3. k.phase = "charge" => tb.return_phase = "charge"
    BY <1>8
  <2> QED BY <1>10, <2>1, <2>2, <2>3 DEF OutFits, SameSeats
<1> QED BY <1>9, <1>12, <1>13, <1>14, <1>15 DEF CycleFits, k

\* _resolve_tiebreak, in a tiebreak and where there is none.
LEMMA ResolveTiebreakFits ==
  ASSUME NEW g, Tidy(g), NEW t, InOrder(g, t), g.phase \notin Prelude
  PROVE  Played(ResolveTiebreak(g), t)
<1> DEFINE tb == g.tiebreak
           low == LowestThrows(g)
           h == ResolveTiebreak(g)
<1>1. /\ g \in Game /\ Typed(g) /\ BankFits(g) /\ Active(g) \subseteq Seated(g)
      /\ Seated(g) \subseteq Player
  BY SeatedArePlayers DEF InOrder, Tidy, Typed, Active
<1>2. Renewed(g, h) /\ Upholds(g, h)
  BY <1>1, ResolveTiebreakRenews, ResolveTiebreakUpholds
<1>3. TimersKnow(h, t) /\ h \in Game
  <2> HIDE DEF h
  <2> QED BY <1>2, KnownAfter DEF InOrder, Upholds, Tidy, Typed
<1>4. \/ h = g
      \/ /\ h = EnterTiebreak(g, low, tb.penalty, tb.return_phase, tb.original_winner_id)
         /\ ~TiebreakRaises(g) /\ tb # NoTiebreak
      \/ /\ tb # NoTiebreak
         /\ \E loser \in low : h = FinalizeCycle(Cleared(g, loser), loser)
  <2>1. tb = NoTiebreak => h = g
    BY DEF ResolveTiebreak
  <2> HIDE DEF h
  <2> QED BY <2>1, ResolveTiebreakCases DEF h
<1>5. CASE h = g
  BY <1>5 DEF InOrder, Played
<1>6. ASSUME tb # NoTiebreak
      PROVE  g.phase = "tiebreak" /\ TieFits(g) /\ low \subseteq Active(g) /\ Unfinished(g, t)
  <2>1. g.phase = "tiebreak" /\ TieFits(g)
    BY <1>1, <1>6 DEF BankFits
  <2>2. low \subseteq Active(g)
    BY <2>1 DEF TieFits, LowestThrows, Threw
  <2> QED BY <2>1, <2>2 DEF InOrder, Settling
<1>7. ~TiebreakRaises(g) /\ tb # NoTiebreak => low # {}
  <2> SUFFICES ASSUME ~TiebreakRaises(g), tb # NoTiebreak
               PROVE  low # {}
    OBVIOUS
  <2>1. Threw(g) # {}
    BY DEF TiebreakRaises
  <2>2. \A p \in Player : tb.throws[p] \in Nat
    BY <1>1 DEF Game, Tiebreak, Rank
  <2>3. Threw(g) \subseteq Player
    BY DEF Threw
  <2>4. [p \in Threw(g) |-> tb.throws[p]] \in [Threw(g) -> Nat]
    BY <2>2, <2>3
  <2>5. PICK p \in Threw(g) : \A q \in Threw(g) :
          [r \in Threw(g) |-> tb.throws[r]][p] <= [r \in Threw(g) |-> tb.throws[r]][q]
    BY <2>1, <2>4, LeastExists
  <2> QED BY <2>5 DEF LowestThrows
<1>8. CASE /\ h = EnterTiebreak(g, low, tb.penalty, tb.return_phase, tb.original_winner_id)
           /\ ~TiebreakRaises(g) /\ tb # NoTiebreak
  <2>1. tb.return_phase = PlayPhase(g) /\ g.phase \in InPlay
    BY <1>6, <1>8 DEF PlayPhase, InPlay
  <2>2. low \in SUBSET Active(g) /\ low # {}
    BY <1>6, <1>7, <1>8
  <2> HIDE DEF h, low
  <2>3. BankFits(h) /\ FreshTie(h)
    BY <1>1, <1>8, <2>1, <2>2, TieBegins
  <2> QED BY <1>3, <2>3 DEF Played, FreshTie, Prelude, h
<1>9. ASSUME tb # NoTiebreak, NEW loser \in low, h = FinalizeCycle(Cleared(g, loser), loser)
      PROVE  Played(h, t)
  <2> DEFINE k == Cleared(g, loser)
  <2>1. loser \in Active(g) /\ loser \in MaybePlayer
    BY <1>1, <1>6, <1>9 DEF MaybePlayer
  <2>2. CycleFits(k) /\ k.phase \in {"charge", "decharge"} /\ \A x : Ended(k, x) => Ended(g, x)
    BY <1>1, <1>6, <1>9, <2>1, ClearedFits
  <2> HIDE DEF k, h
  <2>3. h = FinalizeCycle(k, loser)
    BY <1>9 DEF k
  <2>4. /\ BankFits(h)
        /\ \/ h.phase \in {"charge", "decharge"}
           \/ h.phase = "finished" /\ Ended(k, h)
    BY <2>1, <2>2, <2>3, FinalizeCycleFits
  <2>5. CASE h.phase \in {"charge", "decharge"}
    BY <1>3, <2>4, <2>5 DEF Played, Settling, Prelude
  <2>6. CASE h.phase = "finished" /\ Ended(k, h)
    <3>1. Settling(h, t)
      BY <1>3, <1>6, <1>9, <2>2, <2>6, EndedSettles DEF InOrder
    <3> QED BY <1>3, <2>4, <2>6, <3>1 DEF Played, Prelude
  <2> QED BY <2>4, <2>5, <2>6
<1> HIDE DEF h
<1> QED BY <1>4, <1>5, <1>8, <1>9 DEF h

\* _start_new_partie, in any phase.
LEMMA StartNewPartieFits ==
  ASSUME NEW g, Tidy(g), NEW t, InOrder(g, t), g.phase \notin Prelude
  PROVE  Played(StartNewPartie(g), t)
<1> DEFINE h == StartNewPartie(g)
<1>1. g \in Game /\ TwoSit(g) /\ \A p \in Player : p \notin Seated(g) => g.tokens[p] = 0
  BY DEF Tidy, Typed, Apart, InOrder, BankFits, Prelude
<1>2. /\ h.players = g.players /\ h.tokens = NoChips(g) /\ h.pool = Chips /\ h.phase = "charge"
      /\ h.tiebreak = NoTiebreak /\ h.turn = FreshTurns(g, Seated(g)) /\ h.out_of_match = {}
  BY <1>1, StartNewPartieWrites
<1>3. NoChips(g) = Nobody
  BY <1>1, NoChipsIsNobody
<1>4. Upholds(g, h)
  BY StartNewPartieUpholds
<1> HIDE DEF h
<1>5. Renewed(g, h)
  BY <1>2 DEF Renewed, FreshTurns
<1>6. TimersKnow(h, t)
  BY <1>4, <1>5, KnownAfter DEF InOrder
<1>7. PoolFitsPhase(h) /\ MatchFits(h)
  BY <1>2, BoundsAssumption DEF PoolFitsPhase, MatchFits, OutFits, SitOutEmpty, PlayPhase
<1>8. \A p \in Seated(h) : h.tokens[p] < Chips
  <2>1. Seated(h) \subseteq Player
    BY <1>4, SeatedArePlayers DEF Upholds, Tidy, Typed
  <2> QED BY <1>2, <1>3, <2>1, BoundsAssumption DEF Nobody
<1>9. BankFits(h)
  BY <1>1, <1>2, <1>7, <1>8 DEF BankFits, TwoSit, Seated
<1> QED BY <1>2, <1>6, <1>9 DEF Played, Settling, Prelude, h

----------------------------------------------------------------------------
(* What handlers and timers do to phase and bank.                          *)

\* Turns and rules are not the bank's affair.
LEMMA IdleFits ==
  ASSUME NEW g, BankFits(g), NEW h, Idle(g, h)
  PROVE  BankFits(h) /\ Seated(h) = Seated(g) /\ Active(h) = Active(g)
<1>1. Seated(h) = Seated(g) /\ Active(h) = Active(g)
  BY DEF Idle, SameSeats, Seated, Active
<1> QED BY <1>1 DEF Idle, Kept, SameSeats, BankFits, PoolFitsPhase, MatchFits, OutFits, SitOutEmpty,
                    PlayPhase, TieFits, TwoSit

\* Timers that stop disturb nothing.
LEMMA CalmerInOrder ==
  ASSUME NEW g, NEW t, InOrder(g, t), NEW u, Calmer(t, u)
  PROVE  InOrder(g, u)
<1>1. Renewed(g, g)
  BY DEF Renewed
<1> QED BY <1>1, CalmerKnows, CalmerSettles DEF InOrder

LEMMA CalmerPlayed ==
  ASSUME NEW g, NEW t, Played(g, t), NEW u, Calmer(t, u)
  PROVE  Played(g, u)
<1>1. Renewed(g, g)
  BY DEF Renewed
<1> QED BY <1>1, CalmerKnows, CalmerSettles DEF Played

\* A turn is written that no timer is set for: one of charge or décharge, one
\* that is not over, or one that nobody waits for.
LEMMA TurnInOrder ==
  ASSUME NEW g, NEW t, InOrder(g, t), NEW p \in Player, NEW h, Idle(g, h),
         \A q \in Player \ {p} : h.turn[q] = g.turn[q], NEW u, Calmer(t, u),
         u.afk[p] \notin {"turn", "warned"},
         g.phase \in {"charge", "decharge"} \/ ~h.turn[p].done \/ t.afk[p] \in {"turn", "warned"},
         g.turn[p].done => ~h.turn[p].done \/ g.phase \in {"charge", "decharge"},
         Seated(g) \subseteq Player
  PROVE  InOrder(h, u)
<1>1. BankFits(h) /\ Seated(h) = Seated(g) /\ Active(h) = Active(g) /\ h.phase = g.phase
  BY IdleFits DEF InOrder, Idle
<1>2. TimersKnow(g, u)
  BY CalmerInOrder DEF InOrder
<1>3. TimersKnow(h, u)
  BY <1>1, <1>2 DEF TimersKnow
<1>4. CASE g.phase \in {"charge", "decharge"}
  BY <1>1, <1>3, <1>4 DEF InOrder, Settling
<1>5. CASE g.phase \notin {"charge", "decharge"}
  <2>1. Settling(g, u)
    BY CalmerInOrder DEF InOrder
  <2>2. ASSUME NEW q \in Player, Owes(g, t, q)
        PROVE  Owes(h, u, q)
    <3>1. Owes(g, u, q)
      BY <2>2 DEF Owes, Calmer, TurnTimer
    <3>2. CASE q = p
      BY <1>1, <1>5, <2>2, <3>1, <3>2 DEF Owes
    <3>3. CASE q # p
      BY <1>1, <3>1, <3>3 DEF Owes
    <3> QED BY <3>2, <3>3
  <2>3. Unfinished(g, t) => Unfinished(h, u)
    BY <2>2 DEF Unfinished
  <2>4. ASSUME Over(g)
        PROVE  Over(h) \/ Unfinished(h, u)
    <3>1. CASE p \in Active(g)
      <4>1. ~h.turn[p].done
        BY <1>5, <2>4, <3>1 DEF Over, AllDone, Active
      <4> QED BY <1>1, <3>1, <4>1 DEF Unfinished, Owes
    <3>2. CASE p \notin Active(g)
      <4>1. \A q \in Active(g) : h.turn[q] = g.turn[q]
        BY <3>2 DEF Active
      <4>2. h.out_of_match = g.out_of_match /\ h.tokens = g.tokens
        BY DEF Idle, SameSeats, Kept
      <4>3. AllDone(h)
        BY <1>1, <2>4, <4>1, <4>2 DEF Over, AllDone, Active
      <4>4. \A l : Lowest(g, l) => Lowest(h, l)
        BY <1>1, <4>1 DEF Lowest
      <4> QED BY <2>4, <4>2, <4>3, <4>4 DEF Over
    <3> QED BY <3>1, <3>2
  <2> QED BY <1>1, <1>3, <2>3, <2>4 DEF InOrder, Settling
<1> QED BY <1>4, <1>5

\* The handback gives back a turn that was not over.
LEMMA AbortInOrder ==
  ASSUME NEW g, Tidy(g), NEW t \in TaskTable, InOrder(g, t), NEW p \in Player
  PROVE  /\ InOrder(AbortGame(g, t, p), AbortTasks(t, p))
         /\ Idle(g, AbortGame(g, t, p)) /\ Calmer(t, AbortTasks(t, p))
<1> DEFINE h == AbortGame(g, t, p)
           u == AbortTasks(t, p)
           cap == IF t.snap[p].cap # 0 THEN t.snap[p].cap ELSE g.max_throws
           turns == [g.turn EXCEPT ![p] = IF p \in Seated(g) THEN t.snap[p].turn ELSE g.turn[p]]
<1>1. g \in Game /\ Seated(g) \subseteq Player /\ g.turn \in [Player -> Turn]
  BY SeatedArePlayers DEF Tidy, Typed, Game
<1>2. Calmer(t, u)
  BY StoppedIsCalmer
<1>3. CASE ~Abortable(t, p)
  <2>1. h = g
    BY <1>3 DEF AbortGame
  <2>2. Idle(g, g)
    BY DEF Idle, SameSeats, Kept
  <2> HIDE DEF h, u
  <2>3. InOrder(g, u)
    BY <1>2, CalmerInOrder
  <2> QED BY <1>2, <2>1, <2>2, <2>3 DEF h, u
<1>4. CASE Abortable(t, p)
  <2>1. ~t.snap[p].turn.done /\ t.afk[p] \notin {"turn", "warned"}
    BY <1>4 DEF Abortable, InOrder, TimersKnow, TurnTimer
  <2>2. h = [g EXCEPT !.turn = turns, !.max_throws = cap]
    BY <1>1, <1>4 DEF AbortGame, Game
  <2>3. Same(g, [g EXCEPT !.turn = turns, !.max_throws = cap])
    <3> HIDE DEF turns, cap
    <3> QED BY <1>1, TurnAndCapAreSame
  <2>4. Idle(g, h)
    BY <2>2, <2>3 DEF Same
  <2>5. h.turn = turns
    <3> HIDE DEF turns, cap, h
    <3> QED BY <1>1, <2>2 DEF Game
  <2>6. /\ \A q \in Player \ {p} : turns[q] = g.turn[q]
        /\ turns[p] = IF p \in Seated(g) THEN t.snap[p].turn ELSE g.turn[p]
    BY <1>1
  <2> HIDE DEF turns, cap, h, u
  <2>7. u.afk[p] \notin {"turn", "warned"}
    BY <1>2, <2>1 DEF Calmer, TurnTimer
  <2>8. CASE p \in Seated(g)
    <3>1. ~h.turn[p].done
      BY <2>1, <2>5, <2>6, <2>8
    <3>2. InOrder(h, u)
      BY <1>1, <1>2, <2>4, <2>5, <2>6, <2>7, <3>1, TurnInOrder
    <3> QED BY <1>2, <2>4, <3>2 DEF h, u
  <2>9. CASE p \notin Seated(g)
    <3>1. \A q \in Player : h.turn[q] = g.turn[q]
      BY <2>5, <2>6, <2>9
    <3>2. InOrder(g, u)
      BY <1>2, CalmerInOrder
    <3>3. Seated(h) = Seated(g) /\ Active(h) = Active(g) /\ BankFits(h)
      BY <2>4, IdleFits DEF InOrder
    <3>4. TimersKnow(h, u)
      BY <3>1, <3>2, <3>3 DEF InOrder, TimersKnow
    <3>5. Settling(h, u)
      <4>1. /\ \A q \in Player : Owes(g, u, q) => Owes(h, u, q)
            /\ \A l : Lowest(g, l) => Lowest(h, l)
            /\ AllDone(g) => AllDone(h)
            /\ h.tokens = g.tokens /\ h.phase = g.phase
        BY <1>1, <2>4, <3>1, <3>3 DEF Owes, Lowest, AllDone, Idle, SameSeats, Kept, Active
      <4> QED BY <3>2, <4>1 DEF InOrder, Settling, Unfinished, Over
    <3> QED BY <1>2, <2>4, <3>3, <3>4, <3>5 DEF InOrder, h, u
  <2> QED BY <2>8, <2>9
<1> QED BY <1>3, <1>4

\* The next timer, after a turn or a tie, and where nothing was played.
LEMMA ScheduledInOrder ==
  ASSUME NEW g \in Game, NEW t \in TaskTable, Played(g, t)
  PROVE  InOrder(g, ScheduleAfk(g, t, NoPlayer))
<1>1. g.phase # "initial_roll"
  BY DEF Played, Prelude
<1> QED BY <1>1, ScheduleSettles DEF Played, InOrder

----------------------------------------------------------------------------
(* No step disturbs phase and bank.                                        *)

\* A room from which connections may be lost and nobody has gone yet.
Linked == "leave" \notin Exits /\ RoomInv /\ LinksInv

LEMMA LinkedFacts ==
  ASSUME Linked
  PROVE  /\ game \in Game /\ Typed(game) /\ Tidy(game) /\ Seated(game) \subseteq Player
         /\ tasks \in TaskTable /\ Timed(tasks) /\ InOrder(game, tasks)
         /\ holds \in [Player -> {"none", "turn", "tiebreak"}]
         /\ persists \in [Afterwards -> Nat]
<1>1. game \in Game /\ Typed(game) /\ Tidy(game) /\ Timed(tasks)
  BY DEF Linked, RoomInv, Tidy, Typed
<1>2. Seated(game) \subseteq Player
  BY <1>1, SeatedArePlayers
<1> QED BY <1>1, <1>2 DEF Linked, RoomInv, TypeOK, Timed, LinksInv

\* Whoever sleeps or waits does so in a match.
LEMMA SleepersPlay ==
  ASSUME Linked, NEW p \in Player, NEW then \in Afterwards,
         \/ holds[p] # "none" \/ tasks.final[p] # "none" \/ persists[then] > 0
         \/ tasks.afk[p] \notin {"none", "initial"}
  PROVE  game.phase \notin Prelude
BY DEF Linked, LinksInv, Quiet

LEMMA ConcludedLinked ==
  ASSUME NEW g, NEW h \in Game, NEW t \in TaskTable, Played(h, t),
         Conclude(g, h, t, "schedule", NoPlayer)
  PROVE  LinksInv'
<1>1. InOrder(game', tasks') /\ game'.phase \notin Prelude
  BY ConcludedInOrder DEF Played
<1> QED BY <1>1 DEF LinksInv

\* Nothing but timers is touched, and those stop.
LEMMA StoppedLinked ==
  ASSUME Linked, game' = game, Calmer(tasks, tasks'), game.phase \notin Prelude \/ Quiet'
  PROVE  LinksInv'
<1>1. InOrder(game, tasks')
  BY LinkedFacts, CalmerInOrder
<1> QED BY <1>1 DEF LinksInv

\* A turn ends, at the end of a sleep.
LEMMA TurnEndsLinked ==
  ASSUME Linked, NEW p \in Player, ResumeTurn(p) \/ FinalizeBot(p)
  PROVE  LinksInv'
<1>1. game.phase \notin Prelude
  <2>1. holds[p] # "none" \/ tasks.final[p] # "none"
    BY DEF ResumeTurn, FinalizeBot
  <2> QED BY <2>1, SleepersPlay DEF Afterwards
<1> DEFINE over == [tasks EXCEPT !.final[p] = "none", !.snap[p] = NoSnapshot]
<1>2. /\ tasks \in TaskTable /\ Calmer(tasks, tasks)
      /\ over \in TaskTable /\ Calmer(tasks, over)
  <2>1. Timed(tasks)
    BY LinkedFacts
  <2>2. over = [[tasks EXCEPT !.final[p] = "none"] EXCEPT !.snap[p] = NoSnapshot]
    BY DEF Timed, TaskTable
  <2>3. Timed(over)
    BY <2>1, <2>2, FinalWritten, SnapWritten, SnapshotTypes
  <2> QED BY <2>1, <2>3, StoppedIsCalmer DEF Timed, TurnTimer
<1>3. PICK t \in {tasks, over} : Conclude(game, EndTurn(game), t, "schedule", NoPlayer)
  BY DEF ResumeTurn, FinalizeBot
<1> HIDE DEF over
<1>4. EndTurn(game) \in Game
  BY LinkedFacts, EndTurnUpholds DEF Upholds, Tidy, Typed
<1>5. Played(EndTurn(game), tasks)
  BY <1>1, LinkedFacts, EndTurnFits
<1>6. Played(EndTurn(game), t)
  BY <1>2, <1>3, <1>5, CalmerPlayed
<1> QED BY <1>2, <1>3, <1>4, <1>6, ConcludedLinked

\* The handler of the last throw of a tie ends.
LEMMA TieEndsLinked ==
  ASSUME Linked, NEW p \in Player, ResumeTiebreak(p)
  PROVE  LinksInv'
<1>1. game.phase \notin Prelude
  <2>1. holds[p] # "none"
    BY DEF ResumeTiebreak
  <2> QED BY <2>1, SleepersPlay DEF Afterwards
<1>2. CASE TiebreakRaises(game)
  <2>1. game' = game /\ tasks' = tasks
    BY <1>2 DEF ResumeTiebreak
  <2> QED BY <1>1, <2>1, LinkedFacts DEF LinksInv
<1>3. CASE ~TiebreakRaises(game)
  <2>1. Conclude(game, ResolveTiebreak(game), tasks, "schedule", NoPlayer)
    BY <1>3 DEF ResumeTiebreak
  <2>2. ResolveTiebreak(game) \in Game
    BY LinkedFacts, ResolveTiebreakUpholds DEF Upholds, Tidy, Typed
  <2>3. Played(ResolveTiebreak(game), tasks)
    BY <1>1, LinkedFacts, ResolveTiebreakFits
  <2> QED BY <2>1, <2>2, <2>3, LinkedFacts, ConcludedLinked
<1> QED BY <1>2, <1>3

\* The partie is written, and the next one begins.
LEMMA PartieLinked ==
  ASSUME Linked,
         (\E then \in Afterwards : ResumePartie(then)) \/ (\E p \in Player : AfkPartie(p))
  PROVE  LinksInv'
<1> DEFINE h == StartNewPartie(game)
<1>1. game.phase \notin Prelude
  <2>1. CASE \E then \in Afterwards : ResumePartie(then)
    <3>1. \E then \in Afterwards : persists[then] > 0
      BY <2>1 DEF ResumePartie
    <3> QED BY <3>1 DEF Linked, LinksInv, Quiet
  <2>2. CASE \E p \in Player : AfkPartie(p)
    <3>1. \E p \in Player : tasks.afk[p] = "persisting"
      BY <2>2 DEF AfkPartie
    <3> QED BY <3>1 DEF Linked, LinksInv, Quiet
  <2> QED BY <2>1, <2>2
<1>2. h \in Game
  BY LinkedFacts, StartNewPartieUpholds DEF Upholds, Tidy, Typed
<1>3. Played(h, tasks)
  BY <1>1, LinkedFacts, StartNewPartieFits
<1>4. h.phase = "charge"
  BY LinkedFacts DEF StartNewPartie, Game
<1>5. game' = h
  BY DEF ResumePartie, AfkPartie
<1>6. PICK t \in TaskTable : Played(h, t) /\ (tasks' = t \/ tasks' = ScheduleAfk(h, t, NoPlayer))
  <2>1. CASE \E then \in Afterwards : ResumePartie(then)
    BY <1>3, <1>5, <2>1, LinkedFacts DEF ResumePartie
  <2>2. CASE \E p \in Player : AfkPartie(p)
    <3>1. PICK p \in Player : AfkPartie(p)
      BY <2>2
    <3>2. tasks' = ScheduleAfk(h, Fired(p), NoPlayer)
      BY <1>5, <3>1 DEF AfkPartie
    <3>3. Fired(p) \in TaskTable /\ Calmer(tasks, Fired(p))
      BY LinkedFacts, StoppedIsCalmer, AfkWritten DEF Fired, Timed, Tasked, AfkTask, TurnTimer
    <3> QED BY <1>3, <3>2, <3>3, CalmerPlayed
  <2> QED BY <2>1, <2>2
<1> HIDE DEF h
<1>7. InOrder(h, tasks')
  <2>1. ~FreshTie(h)
    BY <1>4 DEF FreshTie
  <2> QED BY <1>2, <1>6, <2>1, ScheduledInOrder DEF Played, InOrder
<1> QED BY <1>4, <1>5, <1>7 DEF LinksInv, Prelude

\* A throw in a tie leaves the tied players, the bank and all turns alone.
LEMMA ThrowTiebreakFits ==
  ASSUME NEW g, Tidy(g), NEW t, InOrder(g, t), NEW p \in Player, MayThrowTiebreak(g, p),
         NEW rank \in Rank
  PROVE  LET h == ThrowTiebreak(g, p, rank)
         IN  InOrder(h, t) /\ h.phase = "tiebreak" /\ Tidy(h)
<1> DEFINE tb == g.tiebreak
           at == Smallest({k \in DOMAIN tb.order : tb.order[k] = p})
           hand == FirstTied(tb.order, tb.tied, at + 1)
           throws == [tb.throws EXCEPT ![p] = rank]
           next == [tb EXCEPT !.throws = throws, !.next_pid = hand]
           h == ThrowTiebreak(g, p, rank)
<1>1. /\ tb \in Tiebreak /\ g \in Game /\ g.phase = "tiebreak" /\ tb.next_pid = p
      /\ tb.order \in Seq(Player) /\ tb.throws \in [Player -> Rank \cup {0}]
  BY DEF Tidy, Typed, Game, Tiebreak, MayThrowTiebreak
<1>2. h = [g EXCEPT !.tiebreak = next]
  <2>1. h = [g EXCEPT !.tiebreak.throws[p] = rank, !.tiebreak.next_pid = hand]
    BY DEF ThrowTiebreak
  <2> HIDE DEF hand, h
  <2> QED BY <1>1, <2>1 DEF Game
<1>3. p \in tb.tied
  BY <1>1, PlayerAssumption DEF InOrder, BankFits, TieFits
<1>4. hand \in tb.tied \cup {NoPlayer}
  <2> HIDE DEF at
  <2> QED BY <1>1, FirstTiedType
<1>5. \A q \in Player \ tb.tied : throws[q] = 0
  BY <1>1, <1>3 DEF InOrder, BankFits, TieFits
<1>6. /\ next.tied = tb.tied /\ next.return_phase = tb.return_phase
      /\ next.next_pid = hand /\ next.throws = throws
  <2> HIDE DEF tb, throws, hand
  <2> QED BY <1>1 DEF Tiebreak
<1>7. Tidy(h)
  BY ThrowsUphold DEF Upholds
<1> HIDE DEF next, throws, hand, h
<1>8. /\ h.players = g.players /\ h.out_of_match = g.out_of_match /\ h.turn = g.turn
      /\ h.tokens = g.tokens /\ h.pool = g.pool /\ h.phase = "tiebreak" /\ h.tiebreak = next
  BY <1>1, <1>2 DEF Game
<1>9. Seated(h) = Seated(g) /\ Active(h) = Active(g) /\ PlayPhase(h) = PlayPhase(g)
  BY <1>1, <1>6, <1>8 DEF Seated, Active, PlayPhase
<1>10. TieFits(h)
  BY <1>1, <1>4, <1>5, <1>6, <1>8, <1>9 DEF InOrder, BankFits, TieFits
<1>11. BankFits(h)
  BY <1>1, <1>8, <1>9, <1>10 DEF InOrder, BankFits, PoolFitsPhase, MatchFits, OutFits, SitOutEmpty,
                                 TwoSit, InPlay
<1>12. TimersKnow(h, t) /\ Settling(h, t)
  BY <1>1, <1>8, <1>9 DEF InOrder, TimersKnow, Settling, Unfinished, Owes
<1> QED BY <1>7, <1>8, <1>11, <1>12 DEF InOrder, h

\* A player's timer in a tie throws for it.
LEMMA AfkTiebreakLinked ==
  ASSUME Linked, NEW p \in Player, AfkTiebreak(p)
  PROVE  LinksInv'
<1>1. game.phase \notin Prelude
  <2>1. tasks.afk[p] = "tiebreak"
    BY DEF AfkTiebreak, AfkMayFire
  <2> QED BY <2>1, SleepersPlay DEF Afterwards
<1>2. Fired(p) \in TaskTable /\ Calmer(tasks, Fired(p))
  BY LinkedFacts, StoppedIsCalmer, AfkWritten DEF Fired, Timed, Tasked, AfkTask, TurnTimer
<1>3. CASE ~(MayThrowTiebreak(game, p) /\ p \in Seated(game))
  <2>1. game' = game /\ tasks' = Fired(p)
    BY <1>3 DEF AfkTiebreak
  <2> QED BY <1>1, <1>2, <2>1, StoppedLinked
<1>4. CASE MayThrowTiebreak(game, p) /\ p \in Seated(game)
  <2>1. PICK rank \in Rank :
          LET g == ThrowTiebreak(game, p, rank)
              last == g.tiebreak.next_pid = NoPlayer
              h == IF last THEN ResolveTiebreak(g) ELSE g
          IN  /\ game' = h
              /\ tasks' = IF last /\ TiebreakRaises(g) THEN Fired(p)
                          ELSE IF EndsPartie(g, h) THEN [tasks EXCEPT !.afk[p] = "persisting"]
                          ELSE ScheduleAfk(h, Fired(p), NoPlayer)
    BY <1>4 DEF AfkTiebreak
  <2> DEFINE g == ThrowTiebreak(game, p, rank)
             last == g.tiebreak.next_pid = NoPlayer
             h == IF last THEN ResolveTiebreak(g) ELSE g
  <2>2. InOrder(g, tasks) /\ g.phase = "tiebreak" /\ Tidy(g)
    BY <1>4, LinkedFacts, ThrowTiebreakFits
  <2> HIDE DEF g
  <2>3. Played(g, tasks) /\ Played(ResolveTiebreak(g), tasks)
    BY <2>2, ResolveTiebreakFits DEF Played, InOrder, Prelude
  <2>4. Played(h, tasks) /\ h \in Game
    BY <2>2, <2>3, ResolveTiebreakUpholds DEF Upholds, Tidy, Typed
  <2>5. last /\ TiebreakRaises(g) => h = g
    BY DEF ResolveTiebreak
  <2> HIDE DEF h
  <2>6. game' = h
    BY <2>1 DEF g, h
  <2>7. InOrder(h, tasks')
    <3>1. CASE last /\ TiebreakRaises(g)
      BY <1>2, <2>1, <2>2, <2>5, <3>1, CalmerInOrder DEF g
    <3>2. CASE ~(last /\ TiebreakRaises(g)) /\ EndsPartie(g, h)
      <4>1. tasks' = [tasks EXCEPT !.afk[p] = "persisting"]
        BY <2>1, <3>2 DEF g, h
      <4>2. Calmer(tasks, tasks')
        BY <4>1, LinkedFacts, StoppedIsCalmer DEF AfkTask, TurnTimer
      <4>3. ~FreshTie(h)
        BY <3>2 DEF EndsPartie, FreshTie
      <4> QED BY <2>4, <4>2, <4>3, CalmerInOrder DEF Played, InOrder
    <3>3. CASE ~(last /\ TiebreakRaises(g)) /\ ~EndsPartie(g, h)
      <4>1. tasks' = ScheduleAfk(h, Fired(p), NoPlayer)
        BY <2>1, <3>3 DEF g, h
      <4> QED BY <1>2, <2>4, <4>1, CalmerPlayed, ScheduledInOrder
    <3> QED BY <3>1, <3>2, <3>3
  <2> QED BY <2>4, <2>6, <2>7 DEF LinksInv, Played
<1> QED BY <1>3, <1>4

\* What a turn's player or its bot does with it writes one turn and the cap.
LEMMA TurnsAreWritten ==
  ASSUME NEW g \in Game, NEW p \in Player
  PROVE  /\ \A rank : \A q \in Player \ {p} : Throw(g, p, rank).turn[q] = g.turn[q]
         /\ \A q \in Player \ {p} : Validate(g, p).turn[q] = g.turn[q]
         /\ \A turn : \A q \in Player \ {p} :
              BotLocks([g EXCEPT !.turn[p] = turn], p).turn[q] = g.turn[q]
<1>1. \A rank : \A q \in Player \ {p} : Throw(g, p, rank).turn[q] = g.turn[q]
  BY DEF Throw, Game
<1>2. \A q \in Player \ {p} : Validate(g, p).turn[q] = g.turn[q]
  BY DEF Validate, Game
<1>3. ASSUME NEW turn
      PROVE  \A q \in Player \ {p} : BotLocks([g EXCEPT !.turn[p] = turn], p).turn[q] = g.turn[q]
  <2> DEFINE k == [g EXCEPT !.turn[p] = turn]
  <2>1. /\ \A q \in Player \ {p} : k.turn[q] = g.turn[q]
        /\ \A cap : [k EXCEPT !.max_throws = cap].turn = k.turn
    BY DEF Game
  <2> HIDE DEF k
  <2>2. BotLocks(k, p).turn = k.turn
    BY <2>1 DEF BotLocks
  <2> QED BY <2>1, <2>2 DEF k
<1> QED BY <1>1, <1>2, <1>3

\* The bot plays a turn that is not over, and keeps what it can give back.
LEMMA BotPlaysLinked ==
  ASSUME Linked, NEW p \in Player, tasks.afk[p] \in {"turn", "warned"}, ~game.turn[p].done,
         BotPlays(p)
  PROVE  LinksInv'
<1> DEFINE snap == [turn |-> game.turn[p],
                    cap |-> IF p = game.round_starter_id THEN game.max_throws ELSE 0]
           t == [tasks EXCEPT !.afk[p] = "played"]
<1>1. game.phase \notin Prelude
  BY SleepersPlay DEF Afterwards
<1>2. Calmer(tasks, t) /\ t.afk[p] = "played"
  BY LinkedFacts, StoppedIsCalmer DEF AfkTask, TaskTable, TurnTimer
<1>3. PICK turn : game' = BotLocks([game EXCEPT !.turn[p] = turn], p)
  BY DEF BotPlays
<1>4. Idle(game, game') /\ \A q \in Player \ {p} : game'.turn[q] = game.turn[q]
  <2> DEFINE h == BotLocks([game EXCEPT !.turn[p] = turn], p)
  <2>1. Same(game, h)
    BY LinkedFacts, TurnsAreSame
  <2>2. \A q \in Player \ {p} : h.turn[q] = game.turn[q]
    BY LinkedFacts, TurnsAreWritten
  <2>3. game' = h
    BY <1>3
  <2> HIDE DEF h
  <2> QED BY <2>1, <2>2, <2>3 DEF Same
<1>5. tasks' = [t EXCEPT !.snap[p] = snap]
  BY LinkedFacts DEF BotPlays, TaskTable
<1>6. tasks'.afk = t.afk /\ tasks'.snap[p] = snap /\ \A q \in Player \ {p} : tasks'.snap[q] = t.snap[q]
  BY <1>5, LinkedFacts DEF TaskTable
<1>7. snap.turn = game.turn[p]
  OBVIOUS
<1> HIDE DEF snap, t
<1>8. InOrder(game', t)
  BY <1>2, <1>4, LinkedFacts, TurnInOrder
<1>9. TimersKnow(game', tasks')
  BY <1>2, <1>6, <1>7, <1>8 DEF InOrder, TimersKnow, TurnTimer
<1>10. Settling(game', tasks')
  BY <1>6, <1>8 DEF InOrder, Settling, Unfinished, Owes
<1> QED BY <1>1, <1>4, <1>8, <1>9, <1>10 DEF LinksInv, InOrder, Idle

\* The timer of a turn finds it gone, has the bot play, warns its player or goes
\* to the database to evict it.
LEMMA AfkTurnLinked ==
  ASSUME Linked, NEW p \in Player, AfkTurn(p)
  PROVE  LinksInv'
<1>1. tasks.afk[p] = "turn" /\ game.phase \notin Prelude
  <2>1. tasks.afk[p] = "turn"
    BY DEF AfkTurn, AfkMayFire
  <2> QED BY <2>1, SleepersPlay DEF Afterwards
<1>2. CASE game' = game /\ tasks' = Fired(p)
  BY <1>1, <1>2, LinkedFacts, StoppedIsCalmer, StoppedLinked DEF Fired, AfkTask, TurnTimer
<1>3. CASE ~game.turn[p].done /\ BotPlays(p)
  BY <1>1, <1>3, BotPlaysLinked
<1>4. ASSUME NEW afk \in {"warned", "evicting"}, ~game.turn[p].done, game' = game,
             tasks' = [tasks EXCEPT !.afk[p] = afk]
      PROVE  LinksInv'
  <2>1. /\ tasks'.afk[p] = afk /\ tasks'.snap = tasks.snap
        /\ \A q \in Player \ {p} : tasks'.afk[q] = tasks.afk[q]
    BY <1>4, LinkedFacts DEF TaskTable
  <2>2. TimersKnow(game, tasks) /\ Settling(game, tasks) /\ BankFits(game)
    BY LinkedFacts DEF InOrder
  <2>3. TimersKnow(game, tasks')
    BY <1>1, <1>4, <2>1, <2>2 DEF TimersKnow, TurnTimer
  <2>4. Settling(game, tasks')
    <3>1. \A q \in Player : Owes(game, tasks, q) => Owes(game, tasks', q)
      BY <1>1, <2>1 DEF Owes
    <3> QED BY <2>2, <3>1 DEF Settling, Unfinished
  <2> QED BY <1>1, <1>4, <2>2, <2>3, <2>4 DEF LinksInv, InOrder
<1> QED BY <1>2, <1>3, <1>4 DEF AfkTurn

LEMMA AfkWarnedLinked ==
  ASSUME Linked, NEW p \in Player, AfkWarned(p) \/ AfkHandoff(p)
  PROVE  LinksInv'
<1>1. tasks.afk[p] \in {"warned", "played"} /\ game.phase \notin Prelude
  <2>1. tasks.afk[p] \in {"warned", "played"}
    BY DEF AfkWarned, AfkHandoff
  <2> QED BY <2>1, SleepersPlay DEF Afterwards
<1>2. CASE AfkWarned(p) /\ BotPlays(p)
  <2>1. tasks.afk[p] = "warned"
    BY <1>2 DEF AfkWarned
  <2>2. ~game.turn[p].done
    BY <2>1, LinkedFacts DEF InOrder, TimersKnow
  <2> QED BY <1>2, <2>1, <2>2, BotPlaysLinked
<1>3. CASE game' = game /\ (tasks' = Fired(p) \/ AfkHandoff(p))
  <2>1. /\ Calmer(tasks, [tasks EXCEPT !.afk[p] = "none"])
        /\ Calmer(tasks, [tasks EXCEPT !.afk[p] = "none", !.final[p] = "tracked"])
    BY LinkedFacts, StoppedIsCalmer DEF AfkTask, TurnTimer
  <2>2. tasks' \in {[tasks EXCEPT !.afk[p] = "none"],
                    [tasks EXCEPT !.afk[p] = "none", !.final[p] = "tracked"]}
    BY <1>3 DEF Fired, AfkHandoff
  <2> QED BY <1>1, <1>3, <2>1, <2>2, StoppedLinked
<1> QED BY <1>2, <1>3 DEF AfkWarned, AfkHandoff

\* Nor do rules and the players who wait.
LEMMA SameTurnsInOrder ==
  ASSUME NEW g, NEW t, InOrder(g, t), NEW h, Kept(g, h), h.turn = g.turn,
         h.players = g.players, h.out_of_match = g.out_of_match,
         h.phase = g.phase, h.tiebreak = g.tiebreak
  PROVE  InOrder(h, t)
<1>1. /\ Seated(h) = Seated(g) /\ Active(h) = Active(g) /\ PlayPhase(h) = PlayPhase(g)
      /\ h.tokens = g.tokens
  BY DEF Seated, Active, PlayPhase, Kept
<1>3. BankFits(h)
  BY <1>1 DEF InOrder, BankFits, PoolFitsPhase, MatchFits, OutFits, SitOutEmpty, TieFits, TwoSit,
              Kept
<1>2. TimersKnow(h, t) /\ Settling(h, t)
  <2>1. \A q : Owes(g, t, q) <=> Owes(h, t, q)
    BY <1>1 DEF Owes
  <2>2. AllDone(g) <=> AllDone(h)
    BY <1>1 DEF AllDone
  <2>3. \A l : Lowest(g, l) <=> Lowest(h, l)
    BY <1>1 DEF Lowest
  <2> QED BY <1>1, <2>1, <2>2, <2>3 DEF InOrder, TimersKnow, Settling, Unfinished, Over
<1> QED BY <1>2, <1>3 DEF InOrder

\* What a play action finds: the turn given back, its player's timer cancelled.
LEMMA MessageFinds ==
  ASSUME Linked, NEW p \in Player
  PROVE  LET g == GameFor(p)
             t == TasksFor(p)
             u == CancelAfk(t, p)
         IN  /\ g \in Game /\ Tidy(g) /\ Seated(g) \subseteq Player /\ t \in TaskTable
             /\ InOrder(g, t) /\ g.phase = game.phase
             /\ u \in TaskTable /\ Calmer(t, u) /\ u.afk[p] = "none"
<1> DEFINE g == GameFor(p)
           t == TasksFor(p)
           u == CancelAfk(t, p)
<1>1. Tidy(g) /\ g \in Game /\ Seated(g) \subseteq Player /\ t \in TaskTable
  <2>1. Tidy(g) /\ Timed(t)
    BY Reclaimed DEF Linked
  <2> HIDE DEF g, t
  <2>2. g \in Game /\ t \in TaskTable
    BY <2>1 DEF Tidy, Typed, Timed
  <2> QED BY <2>1, <2>2, SeatedArePlayers
<1>2. InOrder(g, t) /\ g.phase = game.phase
  <2>1. /\ InOrder(AbortGame(game, tasks, p), AbortTasks(tasks, p))
        /\ Idle(game, AbortGame(game, tasks, p))
    BY LinkedFacts, AbortInOrder
  <2> QED BY <2>1, LinkedFacts DEF GameFor, TasksFor, Idle
<1> HIDE DEF g, t
<1>3. u \in TaskTable /\ Calmer(t, u) /\ u.afk[p] = "none"
  <2>1. u \in TaskTable /\ u.afk = [t.afk EXCEPT ![p] = "none"]
    BY <1>1, CancelWrites
  <2>2. Calmer(t, u)
    BY <1>1, StoppedIsCalmer
  <2> HIDE DEF u
  <2> QED BY <1>1, <2>1, <2>2 DEF TaskTable
<1> QED BY <1>1, <1>2, <1>3 DEF g, t

\* A player's own action on its turn.
LEMMA ActsLinked ==
  ASSUME Linked, NEW p \in Player, game' \in Game, Idle(GameFor(p), game'),
         \A q \in Player \ {p} : game'.turn[q] = GameFor(p).turn[q],
         GameFor(p).phase \in {"charge", "decharge"},
         LET u == CancelAfk(TasksFor(p), p)
         IN  tasks' \in {u, ScheduleAfk(game', u, NoPlayer)}
  PROVE  LinksInv'
<1> DEFINE g == GameFor(p)
           t == TasksFor(p)
           u == CancelAfk(t, p)
<1>1. /\ InOrder(g, t) /\ Seated(g) \subseteq Player
      /\ u \in TaskTable /\ Calmer(t, u) /\ u.afk[p] = "none"
  BY MessageFinds
<1>2. tasks' = u \/ tasks' = ScheduleAfk(game', u, NoPlayer)
  OBVIOUS
<1> HIDE DEF g, t, u
<1>3. InOrder(game', u)
  BY <1>1, TurnInOrder DEF g
<1>4. game'.phase \notin Prelude
  BY DEF Idle, Prelude
<1>5. InOrder(game', ScheduleAfk(game', u, NoPlayer))
  BY <1>1, <1>3, <1>4, ScheduledInOrder DEF Played, InOrder
<1> QED BY <1>2, <1>3, <1>4, <1>5 DEF LinksInv

LEMMA TurnActionsLinked ==
  ASSUME Linked, NEW p \in Player, Roll(p) \/ Keep(p) \/ Done(p)
  PROVE  LinksInv'
<1> DEFINE g == GameFor(p)
           u == CancelAfk(TasksFor(p), p)
<1>1. g \in Game /\ Idle(g, g)
  BY MessageFinds DEF Idle, SameSeats, Kept
<1>2. game' \in Game
  <2>1. RoomInv'
    BY PlayRoom DEF Linked
  <2> QED BY <2>1 DEF RoomInv, TypeOK
<1>3. g.phase \in {"charge", "decharge"} /\ tasks' \in {u, ScheduleAfk(game', u, NoPlayer)}
  <2>1. CASE Roll(p)
    BY <2>1 DEF Roll, MayRoll
  <2>2. CASE Keep(p)
    BY <2>2 DEF Keep, MayValidate
  <2>3. CASE Done(p)
    BY <2>3 DEF Done, MayValidate
  <2> QED BY <2>1, <2>2, <2>3
<1>4. Idle(g, game') /\ \A q \in Player \ {p} : game'.turn[q] = g.turn[q]
  <2>1. CASE Roll(p)
    <3>1. PICK rank \in Rank : game' = Throw(g, p, rank)
      BY <2>1 DEF Roll
    <3> HIDE DEF g
    <3> QED BY <1>1, <3>1, TurnsAreSame, TurnsAreWritten DEF Same
  <2>2. CASE Keep(p)
    BY <1>1, <2>2 DEF Keep
  <2>3. CASE Done(p)
    <3>1. game' = Validate(g, p)
      BY <2>3 DEF Done
    <3> HIDE DEF g
    <3> QED BY <1>1, <3>1, TurnsAreSame, TurnsAreWritten DEF Same
  <2> QED BY <2>1, <2>2, <2>3
<1> QED BY <1>2, <1>3, <1>4, ActsLinked

LEMMA TiebreakRollLinked ==
  ASSUME Linked, NEW p \in Player, TiebreakRoll(p)
  PROVE  LinksInv'
<1> DEFINE g == GameFor(p)
           t == TasksFor(p)
           u == CancelAfk(t, p)
<1>1. /\ InOrder(g, t) /\ Tidy(g) /\ MayThrowTiebreak(g, p)
      /\ u \in TaskTable /\ Calmer(t, u)
  BY MessageFinds DEF TiebreakRoll
<1>2. PICK rank \in Rank : game' = ThrowTiebreak(g, p, rank)
  BY DEF TiebreakRoll
<1>3. tasks' \in {u, ScheduleAfk(game', u, NoPlayer)}
  BY DEF TiebreakRoll
<1> HIDE DEF g, t, u
<1>4. InOrder(game', t) /\ game'.phase = "tiebreak" /\ game' \in Game
  BY <1>1, <1>2, ThrowTiebreakFits DEF Tidy, Typed
<1>5. InOrder(game', u)
  BY <1>1, <1>4, CalmerInOrder
<1>6. InOrder(game', ScheduleAfk(game', u, NoPlayer))
  BY <1>1, <1>4, <1>5, ScheduledInOrder DEF Played, InOrder, Prelude
<1> QED BY <1>3, <1>4, <1>5, <1>6 DEF LinksInv, Prelude

\* A refused action, and a connection that comes back.
LEMMA TakenBackLinked ==
  ASSUME Linked, NEW p \in Player, Reclaim(p) \/ Connect(p)
  PROVE  LinksInv'
<1>1. game' = AbortGame(game, tasks, p) /\ tasks' = AbortTasks(tasks, p)
  BY DEF Reclaim, Connect, GameFor, TasksFor
<1>2. InOrder(game', tasks') /\ game'.phase = game.phase
  BY <1>1, LinkedFacts, AbortInOrder DEF Idle
<1>3. CASE game.phase \in Prelude
  <2>1. Quiet /\ tasks.final[p] = "none"
    BY <1>3 DEF Linked, LinksInv, Quiet
  <2>2. tasks'.afk = tasks.afk /\ \A q \in Player : tasks'.final[q] = tasks.final[q]
    BY <1>1, <2>1, LinkedFacts DEF AbortTasks, TaskTable
  <2>3. holds' = holds /\ persists' = persists
    BY DEF Reclaim, Connect
  <2> QED BY <1>2, <2>1, <2>2, <2>3 DEF LinksInv, Quiet
<1> QED BY <1>2, <1>3 DEF LinksInv

\* A connection lost, and a rule asked for.
LEMMA DisconnectLinked ==
  ASSUME Linked, NEW p \in Player, Disconnect(p)
  PROVE  LinksInv'
<1>1. game' = game /\ tasks' = CancelAfk(tasks, p) /\ holds' = holds /\ persists' = persists
  BY DEF Disconnect
<1>2. Calmer(tasks, tasks')
  BY <1>1, LinkedFacts, StoppedIsCalmer
<1>3. /\ tasks'.afk = [tasks.afk EXCEPT ![p] = "none"]
      /\ \A q \in Player : tasks'.final[q] \in {tasks.final[q], "none"}
  <2> DEFINE final == IF tasks.final[p] = "tracked" THEN "none" ELSE tasks.final[p]
  <2>1. /\ tasks'.afk = [tasks.afk EXCEPT ![p] = "none"]
        /\ tasks'.final = [tasks.final EXCEPT ![p] = final]
    BY <1>1, LinkedFacts, CancelWrites
  <2>2. final \in {tasks.final[p], "none"}
    OBVIOUS
  <2> HIDE DEF final
  <2> QED BY <2>1, <2>2, LinkedFacts DEF TaskTable
<1>4. game.phase \in Prelude => Quiet'
  <2>1. \A q \in Player : tasks'.afk[q] \in {tasks.afk[q], "none"}
    BY <1>3, LinkedFacts DEF TaskTable
  <2> QED BY <1>1, <1>3, <2>1 DEF Linked, LinksInv, Quiet
<1> QED BY <1>1, <1>2, <1>4, StoppedLinked

LEMMA UpdateRoomRulesLinked ==
  ASSUME Linked, NEW p \in Player, UpdateRoomRules(p)
  PROVE  LinksInv'
<1>1. PICK rule \in RuleChoices : game' = QueueRule(game, rule)
  BY DEF UpdateRoomRules
<1>2. tasks' = tasks /\ holds' = holds /\ persists' = persists
  BY DEF UpdateRoomRules
<1>3. Idle(game, game') /\ game'.turn = game.turn
  BY <1>1, LinkedFacts, TurnsAreSame DEF Same, QueueRule, Game
<1>4. InOrder(game', tasks') /\ game'.phase = game.phase
  BY <1>2, <1>3, LinkedFacts, SameTurnsInOrder DEF Idle, SameSeats
<1>5. Quiet => Quiet'
  BY <1>2 DEF Quiet
<1> QED BY <1>4, <1>5 DEF Linked, LinksInv

\* The opening rolls decide who starts, with a full bank and empty hands.
LEMMA OpeningFits ==
  ASSUME NEW g, Tidy(g), BankFits(g), g.phase = "initial_roll", NEW p \in Player, NEW d \in Die,
         NEW h \in RollInitial(g, p, d)
  PROVE  BankFits(h) /\ h.phase \in {"initial_roll", "charge"}
<1> DEFINE shown == [g.initial_rolls EXCEPT ![p] = d]
           k == [g EXCEPT !.initial_rolls = shown]
           lowest == {q \in Seated(k) : \A r \in Seated(k) : k.initial_rolls[q] <= k.initial_rolls[r]}
           again == [q \in Player |-> IF q \in lowest THEN Unrolled ELSE k.initial_rolls[q]]
<1>1. g \in Game /\ Apart(g)
  BY DEF Tidy, Typed
<1>2. [g EXCEPT !.initial_rolls[p] = d] = k
  BY <1>1 DEF Game
<1>3. \/ h = k \/ h = [k EXCEPT !.initial_rolls = again]
      \/ \E s \in SortedSeatings(k) : h = DoStart([k EXCEPT !.players = s])
  BY <1>2 DEF RollInitial, FinalizeOrder
<1>4. CASE h = k \/ h = [k EXCEPT !.initial_rolls = again]
  <2> HIDE DEF shown, again, lowest
  <2>1. Idle(g, h)
    BY <1>1, <1>4 DEF Idle, SameSeats, Kept, Game
  <2> QED BY <2>1, IdleFits DEF Idle
<1>5. ASSUME NEW s \in SortedSeatings(k), h = DoStart([k EXCEPT !.players = s])
      PROVE  BankFits(h) /\ h.phase = "charge"
  <2> DEFINE t == [k EXCEPT !.players = s]
  <2>1. /\ k \in Game /\ k.players = g.players /\ k.tokens = g.tokens /\ k.tiebreak = g.tiebreak
    <3>1. shown \in [Player -> Die \cup {Unasked, Unrolled}]
      BY <1>1 DEF Game
    <3> HIDE DEF shown
    <3> QED BY <1>1, <3>1 DEF Game
  <2> HIDE DEF k
  <2>2. s \in Seq(Player) /\ Members(s) = Seated(k)
    BY <2>1, SeatingsAreOnce, SeatingsSeatAll
  <2>3. /\ t \in Game /\ t.players = s /\ t.tokens = k.tokens /\ t.tiebreak = k.tiebreak
    BY <2>1, <2>2 DEF Game
  <2> HIDE DEF t
  <2>4. h = DoStart(t)
    BY <1>5 DEF t
  <2>5. /\ h.players = s /\ h.tokens = NoChips(t) /\ h.pool = Chips /\ h.phase = "charge"
        /\ h.tiebreak = g.tiebreak /\ h.out_of_match = {}
    BY <2>1, <2>3, <2>4, DoStartWrites
  <2>6. Seated(t) = Seated(g) /\ Seated(h) = Seated(g)
    BY <2>1, <2>2, <2>3, <2>5 DEF Seated
  <2>7. \A q \in Seated(h) : h.tokens[q] = 0
    BY <1>1, <2>5, <2>6, SeatedArePlayers DEF NoChips
  <2>8. Chips \in Nat /\ Chips > 0
    BY BoundsAssumption
  <2> QED BY <2>5, <2>6, <2>7, <2>8 DEF BankFits, PoolFitsPhase, MatchFits, OutFits, SitOutEmpty,
                                        PlayPhase, TwoSit
<1> HIDE DEF k
<1> QED BY <1>3, <1>4, <1>5 DEF k

\* Before the first match there are no turn timers.
LEMMA QuietKnows ==
  ASSUME NEW g, NEW t, TimersKnow(g, t), NEW u, Calmer(t, u),
         \A q \in Player : u.afk[q] \in {"none", "initial"}, NEW h
  PROVE  TimersKnow(h, u)
BY DEF TimersKnow, Calmer, TurnTimer

LEMMA QuietTasks ==
  ASSUME Linked, game.phase \in Prelude, NEW p \in Player,
         NEW t \in {tasks, Fired(p), CancelAfk(tasks, p)}
  PROVE  /\ t \in TaskTable /\ Calmer(tasks, t)
         /\ \A q \in Player : t.afk[q] \in {"none", "initial"} /\ t.final[q] = "none"
<1>1. \A q \in Player : tasks.afk[q] \in {"none", "initial"} /\ tasks.final[q] = "none"
  BY DEF Linked, LinksInv, Quiet
<1>2. tasks \in TaskTable /\ Calmer(tasks, tasks)
  BY LinkedFacts, StoppedIsCalmer
<1>3. CASE t = tasks
  BY <1>1, <1>2, <1>3
<1>4. CASE t = Fired(p)
  <2>1. t \in TaskTable /\ Calmer(tasks, t)
    BY <1>2, <1>4, StoppedIsCalmer DEF Fired, TaskTable, AfkTask, TurnTimer
  <2>2. /\ t.final = tasks.final /\ t.afk[p] = "none"
        /\ \A q \in Player \ {p} : t.afk[q] = tasks.afk[q]
    BY <1>2, <1>4 DEF Fired, TaskTable
  <2> QED BY <1>1, <2>1, <2>2
<1>5. CASE t = CancelAfk(tasks, p)
  <2>1. Calmer(tasks, t)
    BY <1>2, <1>5, StoppedIsCalmer
  <2>2. /\ t \in TaskTable /\ t.afk = [tasks.afk EXCEPT ![p] = "none"]
        /\ t.final = [tasks.final EXCEPT ![p] = IF tasks.final[p] = "tracked" THEN "none"
                                                ELSE tasks.final[p]]
    BY <1>2, <1>5, CancelWrites
  <2>3. \A q \in Player : t.final[q] = "none"
    BY <1>1, <1>2, <2>2 DEF TaskTable
  <2>4. \A q \in Player : t.afk[q] \in {"none", "initial"}
    BY <1>1, <1>2, <2>2 DEF TaskTable
  <2> QED BY <2>1, <2>2, <2>3, <2>4
<1> QED BY <1>3, <1>4, <1>5

\* The table is asked to roll, or the rolls are made.
LEMMA OpeningLinked ==
  ASSUME Linked, game.phase \in Prelude, game' \in Game, BankFits(game'),
         game'.phase \in {"initial_roll", "charge"},
         NEW p \in Player, NEW t \in {tasks, Fired(p), CancelAfk(tasks, p)}, NEW self,
         tasks' = ScheduleAfk(game', t, self), holds' = holds, persists' = persists
  PROVE  LinksInv'
<1>1. /\ t \in TaskTable /\ Calmer(tasks, t)
      /\ \A q \in Player : t.afk[q] \in {"none", "initial"} /\ t.final[q] = "none"
  BY QuietTasks
<1>2. TimersKnow(game, tasks)
  BY LinkedFacts DEF InOrder
<1>3. TimersKnow(game', t)
  BY <1>1, <1>2, QuietKnows
<1>4. Settling(game', t)
  BY DEF Settling
<1>5. CASE game'.phase = "initial_roll"
  <2>1. /\ Calmer(t, tasks') /\ tasks'.final = t.final
        /\ \A q \in Player : tasks'.afk[q] \in {t.afk[q], "initial"}
    BY <1>1, <1>5, ScheduleOpening
  <2>2. \A q \in Player : tasks'.afk[q] \in {"none", "initial"} /\ tasks'.final[q] = "none"
    BY <1>1, <2>1
  <2>3. TimersKnow(game', tasks')
    BY <1>3, <2>1, <2>2, QuietKnows
  <2>4. Settling(game', tasks')
    BY <1>5 DEF Settling
  <2>5. Quiet'
    BY <2>2 DEF Linked, LinksInv, Quiet
  <2> QED BY <2>3, <2>4, <2>5 DEF LinksInv, InOrder
<1>6. CASE game'.phase = "charge"
  <2>1. TimersKnow(game', tasks') /\ Settling(game', tasks')
    BY <1>1, <1>3, <1>4, <1>6, ScheduleSettles
  <2> QED BY <1>6, <2>1 DEF LinksInv, InOrder, Prelude
<1> QED BY <1>5, <1>6

\* The host starts the match.
LEMMA StartLinked ==
  ASSUME Linked, NEW p \in Player, Start(p)
  PROVE  LinksInv'
<1> DEFINE rolls == [q \in Player |-> IF q \in Seated(game) THEN Unrolled ELSE Unasked]
<1>1. /\ game' = StartInitialRoll(game) /\ game.phase = "waiting" /\ Len(game.players) >= 2
      /\ tasks' = ScheduleAfk(game', tasks, NoPlayer) /\ holds' = holds /\ persists' = persists
  BY DEF Start
<1>2. Typed(game')
  BY <1>1, LinkedFacts, StartInitialRollType
<1>3. game' = [game EXCEPT !.phase = "initial_roll", !.initial_rolls = rolls]
  BY <1>1 DEF StartInitialRoll
<1> HIDE DEF rolls
<1>4. /\ game'.players = game.players /\ game'.tokens = game.tokens
      /\ game'.tiebreak = game.tiebreak /\ game'.phase = "initial_roll"
  BY <1>3, LinkedFacts DEF Game
<1>5. Seated(game') = Seated(game) /\ TwoSit(game)
  BY <1>1, <1>4, LinkedFacts, TwoSeated DEF Seated, TwoSit, Tidy, Apart
<1>6. BankFits(game')
  BY <1>1, <1>4, <1>5, LinkedFacts
     DEF InOrder, BankFits, PoolFitsPhase, MatchFits, InPlay, TwoSit
<1> QED BY <1>1, <1>2, <1>4, <1>6, OpeningLinked DEF Typed, Prelude

\* A player rolls, or its timer does.
LEMMA InitialRollLinked ==
  ASSUME Linked, NEW p \in Player, InitialRoll(p) \/ AfkInitial(p)
  PROVE  LinksInv'
<1>1. holds' = holds /\ persists' = persists
  BY DEF InitialRoll, AfkInitial
<1>2. ASSUME game.phase = "initial_roll", NEW d \in Die, game' \in RollInitial(game, p, d),
             NEW t \in {Fired(p), CancelAfk(tasks, p)}, NEW self,
             tasks' = ScheduleAfk(game', t, self)
      PROVE  LinksInv'
  <2>1. BankFits(game') /\ game'.phase \in {"initial_roll", "charge"}
    BY <1>2, LinkedFacts, OpeningFits DEF InOrder
  <2>2. game' \in Game
    BY <1>2, LinkedFacts, RollInitialType DEF Typed
  <2> QED BY <1>1, <1>2, <2>1, <2>2, OpeningLinked DEF Prelude
<1>3. CASE InitialRoll(p)
  BY <1>2, <1>3 DEF InitialRoll
<1>4. CASE AfkInitial(p) /\ game.phase = "initial_roll" /\ p \in ToRoll(game)
  BY <1>2, <1>4 DEF AfkInitial
<1>5. CASE AfkInitial(p) /\ ~(game.phase = "initial_roll" /\ p \in ToRoll(game))
  <2>1. game' = game /\ tasks' = Fired(p)
    BY <1>5 DEF AfkInitial
  <2>2. Calmer(tasks, tasks')
    BY <2>1, LinkedFacts, StoppedIsCalmer DEF Fired, AfkTask, TurnTimer
  <2>3. game.phase \in Prelude => Quiet'
    <3>1. game.phase \in Prelude =>
            \A q \in Player : tasks'.afk[q] \in {"none", "initial"} /\ tasks'.final[q] = "none"
      BY <2>1, QuietTasks
    <3> QED BY <1>1, <3>1 DEF Linked, LinksInv, Quiet
  <2> QED BY <2>1, <2>2, <2>3, StoppedLinked
<1> QED BY <1>3, <1>4, <1>5

\* Newcomers.
LEMMA JoinLinked ==
  ASSUME Linked, NEW p \in Player, Join(p)
  PROVE  LinksInv'
<1>1. /\ MayJoin(game, p) /\ game' = JoinGame(game, p)
      /\ tasks' = tasks /\ holds' = holds /\ persists' = persists
  BY DEF Join
<1>2. CASE game.phase \notin Prelude
  <2>1. game' = [game EXCEPT !.waiting_players = Append(game.waiting_players, p)]
    BY <1>1, <1>2, LinkedFacts DEF JoinGame, Game, Prelude
  <2>2. /\ Kept(game, game') /\ game'.turn = game.turn /\ game'.players = game.players
        /\ game'.out_of_match = game.out_of_match /\ game'.phase = game.phase
        /\ game'.tiebreak = game.tiebreak
    BY <2>1, LinkedFacts DEF Kept, Game
  <2>3. InOrder(game', tasks)
    BY <2>2, LinkedFacts, SameTurnsInOrder
  <2> QED BY <1>1, <1>2, <2>2, <2>3 DEF LinksInv
<1>3. CASE game.phase \in Prelude
  <2> DEFINE rolls == [game.initial_rolls EXCEPT ![p] = IF game.phase = "initial_roll"
                                                        THEN Unrolled ELSE @]
             host == IF game.host_player_id = NoPlayer THEN p ELSE game.host_player_id
  <2>1. game' = [game EXCEPT !.players = Append(game.players, p), !.initial_rolls = rolls,
                             !.host_player_id = host]
    BY <1>1, <1>3, LinkedFacts DEF JoinGame, Game, Prelude
  <2> HIDE DEF rolls, host
  <2>2. /\ game'.players = Append(game.players, p) /\ game'.tokens = game.tokens
        /\ game'.turn = game.turn /\ game'.phase = game.phase /\ game'.tiebreak = game.tiebreak
    BY <2>1, LinkedFacts DEF Game
  <2>3. Seated(game') = Seated(game) \cup {p}
    <3>1. game.players \in Seq(Player) /\ Once(game.players) /\ p \notin Members(game.players)
      BY <1>1, LinkedFacts DEF Tidy, Apart, Game, MayJoin, Known, Seated
    <3>2. Members(Append(game.players, p)) = Members(game.players) \cup {p}
      BY <3>1, OnceAppend
    <3> QED BY <2>2, <3>2 DEF Seated
  <2>4. game.tokens[p] = 0 /\ Chips \in Nat \ {0}
    BY <1>1, LinkedFacts, BoundsAssumption DEF MayJoin, Known, Tidy, Apart
  <2>5. BankFits(game')
    BY <1>3, <2>2, <2>3, <2>4, LinkedFacts
       DEF InOrder, BankFits, Prelude, PoolFitsPhase, MatchFits, InPlay, TwoSit
  <2>6. TimersKnow(game', tasks)
    BY <2>2, <2>3, LinkedFacts DEF InOrder, TimersKnow
  <2>7. Settling(game', tasks)
    BY <1>3, <2>2 DEF Prelude, Settling
  <2>8. Quiet'
    BY <1>1, <1>3 DEF Linked, LinksInv, Quiet
  <2> QED BY <1>1, <2>5, <2>6, <2>7, <2>8 DEF LinksInv, InOrder
<1> QED BY <1>2, <1>3

\* Who is removed from the table is missed there for good.
LEMMA TheRemovedAreMissed ==
  ASSUME Linked, NEW p \in Player,
         AdminKick(p) \/ AfkEvict(p) \/ \E host \in Player : Kick(host, p)
  PROVE  ~SeatsKept'
<1>1. /\ RoomInv /\ Tidy(game) /\ Timed(tasks) /\ game \in Game /\ Apart(game)
      /\ Known(game) \subseteq used
  BY DEF Linked, RoomInv, Tidy, Typed
<1>2. p \in Seated(game) /\ used' = used
  <2>1. AfkEvict(p) => p \in Seated(game)
    BY LinkedFacts DEF AfkEvict, InOrder, TimersKnow, TurnTimer
  <2> QED BY <2>1 DEF AdminKick, AfkEvict, Kick
<1>3. \A k : Gone(game, p, k) => p \notin Known(k) /\ Tidy(k)
  BY <1>1, <1>2, GoneTidy
<1>4. p \notin Known(game')
  <2>1. CASE AdminKick(p) \/ AfkEvict(p)
    <3>1. Gone(game, p, Unseat(game, p)) /\ game' \in HostMigrations(Unseat(game, p), p)
      BY <1>1, <2>1, UnseatGone DEF AdminKick, AfkEvict, Tidy
    <3>2. Gone(game, p, game')
      BY <3>1, HostMigrationsGone
    <3> QED BY <1>3, <3>2
  <2>2. ASSUME NEW host \in Player, Kick(host, p)
        PROVE  p \notin Known(game')
    <3>1. CASE Seated(game) = {p}
      <4>1. game' = Unseat(game, p)
        BY <2>2, <3>1 DEF Kick, CloseRoom
      <4> QED BY <1>1, <1>3, <4>1, UnseatGone DEF Tidy
    <3>2. CASE Seated(game) # {p}
      <4> DEFINE k == CloseGap(game, p)
      <4>1. SettleDeparture(k, p) /\ ~(Seated(game) \subseteq {p})
        BY <1>2, <2>2, <3>2 DEF Kick
      <4>2. Gone(game, p, k)
        BY <1>1, <4>1, CloseGapGone DEF Tidy
      <4> HIDE DEF k
      <4>3. p \notin Known(k) /\ Upholds(k, game')
        BY <1>1, <1>3, <4>1, <4>2, SettleDepartureStep
      <4> QED BY <4>3 DEF Upholds
    <3> QED BY <3>1, <3>2
  <2> QED BY <2>1, <2>2
<1> QED BY <1>1, <1>2, <1>4 DEF SeatsKept, Known

LEMMA NextLinked ==
  ASSUME Linked, [Next]_vars
  PROVE  SeatsKept' => LinksInv'
<1>1. CASE UNCHANGED vars \/ Closed \/ Dissolve
  <2>1. game' = game /\ tasks' = tasks /\ holds' = holds /\ persists' = persists
    BY <1>1 DEF vars, Closed, Dissolve
  <2> QED BY <2>1 DEF Linked, LinksInv, Quiet
<1>2. CASE \E then \in Afterwards : ResumePartie(then)
  BY <1>2, PartieLinked
<1>3. ASSUME NEW p \in Player, Timer(p) \/ Wake(p) \/ FinalizeBot(p)
      PROVE  SeatsKept' => LinksInv'
  BY <1>3, InitialRollLinked, AfkTiebreakLinked, PartieLinked, AfkTurnLinked,
     AfkWarnedLinked, TheRemovedAreMissed, TurnEndsLinked, TieEndsLinked DEF Timer, Wake
<1>4. ASSUME NEW p \in Player,
             \/ Join(p) \/ Connect(p) \/ Disconnect(p) \/ Start(p) \/ InitialRoll(p)
             \/ Roll(p) \/ Keep(p) \/ Done(p) \/ TiebreakRoll(p) \/ Reclaim(p)
             \/ UpdateRoomRules(p) \/ Leave(p) \/ AdminKick(p)
             \/ \E host \in Player : Kick(host, p)
      PROVE  SeatsKept' => LinksInv'
  <2>1. ~Leave(p)
    BY DEF Linked, Leave, Departs
  <2> QED BY <1>4, <2>1, JoinLinked, TakenBackLinked, DisconnectLinked, StartLinked,
             InitialRollLinked, TurnActionsLinked, TiebreakRollLinked, UpdateRoomRulesLinked,
             TheRemovedAreMissed
<1> QED BY <1>1, <1>2, <1>3, <1>4 DEF Next, Due

LEMMA InitLinked ==
  ASSUME Init
  PROVE  LinksInv
<1>1. PICK rule \in {"sec", "free"} : game = NewGame(rule)
  BY DEF Init
<1>2. game.phase = "waiting" /\ game.tiebreak = NoTiebreak /\ game.players = <<>>
  BY <1>1 DEF NewGame
<1>3. Seated(game) = {}
  BY <1>2 DEF Seated, Members
<1>4. BankFits(game)
  BY <1>2, <1>3 DEF BankFits, PoolFitsPhase, MatchFits, InPlay
<1>5. /\ \A p \in Player : /\ tasks.afk[p] = "none" /\ tasks.final[p] = "none"
                           /\ tasks.snap[p] = NoSnapshot /\ holds[p] = "none"
      /\ \A then \in Afterwards : persists[then] = 0
  BY DEF Init, NoTasks, Afterwards
<1>6. TimersKnow(game, tasks) /\ Settling(game, tasks)
  BY <1>2, <1>5 DEF TimersKnow, Settling, TurnTimer
<1>7. Quiet
  BY <1>5 DEF Quiet
<1> QED BY <1>4, <1>6, <1>7 DEF LinksInv, InOrder

\* While the seats are kept, the room stays as described.
LinksSafe == SeatsKept => LinksInv

LEMMA LinksInvariance ==
  ASSUME "leave" \notin Exits
  PROVE  Spec => []LinksSafe
<1>1. Init => LinksSafe
  BY InitLinked DEF LinksSafe
<1>2. RoomInv /\ LinksSafe /\ [Next]_vars => LinksSafe'
  BY NextRoom, NextLinked DEF Linked, GoneForGood, LinksSafe
<1> QED BY <1>1, <1>2, RoomInvariance, PTL DEF Spec

\* As long as no seat is given up, and however often connections are lost and
\* come back, charge is played exactly as long as the bank has chips: neither a
\* turn given back while its wake-up is on its way, nor a wake-up that comes in a
\* tiebreak or after the partie, has a cycle settled in the wrong phase.
\* ("leave" is left out for the sake of a player who only waits for a seat: its
\* leave may settle a cycle and sets no timer then, ws.py:1083, which LinksInv
\* does not follow.)
THEOREM RoomBankTellsThePhase ==
  ASSUME "leave" \notin Exits
  PROVE  Spec => []PoolMatchesPhase
<1>1. LinksSafe => PoolMatchesPhase
  BY DEF LinksSafe, LinksInv, InOrder, BankFits, PoolMatchesPhase
<1> QED BY <1>1, LinksInvariance, PTL

\* Nobody plays alone: where bank and seats hold the chips between them, no
\* seated player all of them and who sits out none, two active players are left,
\* in a décharge with chips.
LEMMA TwoPlayOn ==
  ASSUME NEW g, Tidy(g), BankFits(g), Held(g) = Chips
  PROVE  DuelGoesOn(g)
<1> SUFFICES ASSUME g.phase \in InPlay
             PROVE  /\ \E p, q \in Active(g) : p # q
                    /\ PlayPhase(g) = "decharge" => \A p \in Active(g) : g.tokens[p] > 0
  BY DEF DuelGoesOn
<1>1. /\ OutFits(g, PlayPhase(g)) /\ TwoSit(g) /\ \A p \in Seated(g) : g.tokens[p] < Chips
      /\ PlayPhase(g) = "decharge" => \A p \in Active(g) : g.tokens[p] > 0
  BY DEF BankFits, MatchFits, InPlay
<1>2. PlayPhase(g) = "charge" \/ (PlayPhase(g) = "decharge" /\ ~(g.pool > 0))
  BY DEF BankFits, PoolFitsPhase, PlayPhase, InPlay
<1>3. CASE PlayPhase(g) = "charge"
  BY <1>1, <1>3 DEF OutFits, TwoSit, Active
<1>4. CASE PlayPhase(g) = "decharge" /\ ~(g.pool > 0)
  <2>1. /\ g \in Game /\ IsFiniteSet(Seated(g)) /\ \A p \in Seated(g) : g.tokens[p] \in Nat
    BY SeatedIsFinite, SeatedArePlayers DEF Tidy, Typed, Game
  <2>2. g.pool \in Nat /\ Total(g.tokens, Seated(g)) \in Nat /\ Chips \in Nat \ {0}
    BY <2>1, TotalIsNat, BoundsAssumption DEF Game
  <2>3. Total(g.tokens, Seated(g)) = Chips
    BY <1>4, <2>2 DEF Held
  <2>4. PICK p, q \in Seated(g) : p # q /\ g.tokens[p] > 0 /\ g.tokens[q] > 0
    BY <1>1, <2>1, <2>2, <2>3, TotalIsShared
  <2>5. p \in Active(g) /\ q \in Active(g)
    BY <1>1, <2>4 DEF OutFits, SitOutEmpty, Active
  <2> QED BY <1>1, <2>4, <2>5
<1> QED BY <1>1, <1>2, <1>3, <1>4

\* As long as no seat is given up, a match in play is between two active players
\* at least, who have chips in a décharge: no bot turn, no handback and no turn
\* ended twice revives a player who sat out or leaves one alone in a match that
\* did not end.
THEOREM RoomDuelStaysAlive ==
  ASSUME "leave" \notin Exits
  PROVE  Spec => []DuelAlive
<1>1. RoomInv /\ LinksSafe => DuelAlive
  BY TwoPlayOn DEF RoomInv, LinksSafe, LinksInv, InOrder, DuelAlive
<1> QED BY <1>1, LinksInvariance, RoomInvariance, PTL
=============================================================================
