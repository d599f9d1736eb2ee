----------------------------- MODULE RoomProofs -----------------------------
(***************************************************************************)
(* Theorems of Room.tla, for any number of players, chips, throws and      *)
(* combinations, whatever the players do and however their messages,       *)
(* timers and departures interleave.                                       *)
(***************************************************************************)
EXTENDS Room, CycleProofs

----------------------------------------------------------------------------
(* The tasks are well-formed.                                              *)

\* A turn is blank or has the rank of its last throw.
Ranked(t) == t = NoTurn \/ t = NewTurn \/ t.rank # 0

\* A table of tasks whose snapshots can be given back to the game, and where
\* nobody is evicted unless evictions happen.
Tasked == IF "evict" \in Exits THEN AfkTask ELSE AfkTask \ {"evicting"}
Timed(t) ==
  /\ t \in TaskTable /\ t.afk \in [Player -> Tasked]
  /\ \A p \in Player : Ranked(t.snap[p].turn)

LEMMA SnapshotTypes == NoSnapshot \in Snapshot /\ Ranked(NoSnapshot.turn)
  BY TurnTypes DEF NoSnapshot, Snapshot, Ranked

\* A new room has no tasks.
LEMMA NoTasksTimed == Timed(NoTasks)
<1>1. NoTasks \in TaskTable
  BY SnapshotTypes DEF NoTasks, TaskTable, AfkTask
<1>2. \A p \in Player : NoTasks.snap[p] = NoSnapshot
  BY DEF NoTasks
<1>3. NoTasks.afk \in [Player -> Tasked]
  BY DEF NoTasks, Tasked, AfkTask
<1> QED BY <1>1, <1>2, <1>3, SnapshotTypes DEF Timed

\* The tasks of one player are written one table at a time.
LEMMA AfkWritten ==
  ASSUME NEW t, Timed(t), NEW p \in Player, NEW afk \in Tasked
  PROVE  Timed([t EXCEPT !.afk[p] = afk])
  BY DEF Timed, TaskTable, Tasked

LEMMA FinalWritten ==
  ASSUME NEW t, Timed(t), NEW p \in Player, NEW final \in {"none", "tracked", "orphan"}
  PROVE  Timed([t EXCEPT !.final[p] = final])
  BY DEF Timed, TaskTable

LEMMA SnapWritten ==
  ASSUME NEW t, Timed(t), NEW p \in Player, NEW snap \in Snapshot, Ranked(snap.turn)
  PROVE  Timed([t EXCEPT !.snap[p] = snap])
  BY DEF Timed, TaskTable

\* _cancel_afk keeps the tasks well-formed.
LEMMA CancelAfkTimed ==
  ASSUME NEW t, Timed(t), NEW p \in Player
  PROVE  Timed(CancelAfk(t, p))
<1> DEFINE final == IF t.final[p] = "tracked" THEN "none" ELSE t.final[p]
           u == [t EXCEPT !.afk[p] = "none"]
           v == [u EXCEPT !.snap[p] = NoSnapshot]
<1>1. final \in {"none", "tracked", "orphan"}
  BY DEF Timed, TaskTable
<1>2. Timed(u)
  BY AfkWritten DEF Tasked, AfkTask
<1>3. Timed(v)
  <2> HIDE DEF u
  <2> QED BY <1>2, SnapWritten, SnapshotTypes
<1>4. CancelAfk(t, p) = [v EXCEPT !.final[p] = final]
  BY DEF CancelAfk, Timed, TaskTable
<1> HIDE DEF v, final
<1>5. Timed([v EXCEPT !.final[p] = final])
  BY <1>1, <1>3, FinalWritten
<1> QED BY <1>4, <1>5

\* The table waits for a player, or for nobody.
LEMMA AwaitedType ==
  ASSUME NEW g \in Game
  PROVE  CurrentPlayer(g) \in MaybePlayer /\ Awaited(g) \in MaybePlayer
<1>1. CurrentPlayer(g) \in MaybePlayer
  <2>1. CASE Active(g) = {}
    BY <2>1 DEF CurrentPlayer, MaybePlayer
  <2>2. CASE Active(g) # {}
    <3>1. CurrentPlayer(g) \in Active(g)
      BY <2>2, StepsExist DEF CurrentPlayer
    <3>2. Seated(g) \subseteq Player
      BY DEF Game, Seated, Members
    <3> QED BY <3>1, <3>2 DEF Active, MaybePlayer
  <2> QED BY <2>1, <2>2
<1>2. g.tiebreak.next_pid \in MaybePlayer
  BY DEF Game, Tiebreak
<1> QED BY <1>1, <1>2 DEF Awaited, MaybePlayer

\* _schedule_afk keeps the tasks well-formed.
LEMMA ScheduleAfkTimed ==
  ASSUME NEW g \in Game, NEW t, Timed(t), NEW self
  PROVE  Timed(ScheduleAfk(g, t, self))
<1>1. CASE ~AfkBot
  BY <1>1 DEF ScheduleAfk
<1>2. CASE AfkBot /\ g.phase = "initial_roll"
  <2> DEFINE afk == [p \in Player |-> IF p \in ToRoll(g) \ {self} /\ t.afk[p] = "none"
                                      THEN "initial" ELSE t.afk[p]]
  <2>1. afk \in [Player -> AfkTask] /\ afk \in [Player -> Tasked]
    BY DEF Timed, TaskTable, Tasked, AfkTask
  <2>2. ScheduleAfk(g, t, self) = [t EXCEPT !.afk = afk]
    BY <1>2 DEF ScheduleAfk
  <2> HIDE DEF afk
  <2> QED BY <2>1, <2>2 DEF Timed, TaskTable
<1>3. CASE AfkBot /\ g.phase # "initial_roll"
  <2> DEFINE p == Awaited(g)
             u == CancelAfk(t, p)
             kind == IF g.phase = "tiebreak" THEN "tiebreak" ELSE "turn"
  <2>1. CASE p \in Player
    <3>1. Timed(u) /\ kind \in Tasked
      BY <2>1, CancelAfkTimed DEF Tasked, AfkTask
    <3>2. ScheduleAfk(g, t, self) \in {t, [u EXCEPT !.afk[p] = kind]}
      BY <1>3 DEF ScheduleAfk
    <3> HIDE DEF u, p, kind
    <3> QED BY <2>1, <3>1, <3>2, AfkWritten
  <2>2. CASE p = NoPlayer
    BY <1>3, <2>2 DEF ScheduleAfk
  <2> QED BY <2>1, <2>2, AwaitedType DEF MaybePlayer
<1> QED BY <1>1, <1>2, <1>3

\* _abort_bot_handback keeps the tasks and the game well-formed.
LEMMA AbortTyped ==
  ASSUME NEW g, Typed(g), NEW t, Timed(t), NEW p \in Player
  PROVE  Timed(AbortTasks(t, p)) /\ Typed(AbortGame(g, t, p))
<1>1. Timed(AbortTasks(t, p))
  <2> DEFINE final == IF t.final[p] # "tracked" THEN t.final[p]
                      ELSE IF Abortable(t, p) THEN "none" ELSE "orphan"
             u == [t EXCEPT !.snap[p] = NoSnapshot]
  <2>1. final \in {"none", "tracked", "orphan"}
    BY DEF Timed, TaskTable
  <2>2. Timed(u)
    BY SnapWritten, SnapshotTypes
  <2>3. AbortTasks(t, p) = [u EXCEPT !.final[p] = final]
    BY DEF AbortTasks, Timed, TaskTable
  <2> HIDE DEF u, final
  <2>4. Timed([u EXCEPT !.final[p] = final])
    BY <2>1, <2>2, FinalWritten
  <2> QED BY <2>3, <2>4
<1>2. Typed(AbortGame(g, t, p))
  <2> DEFINE turn == IF p \in Seated(g) THEN t.snap[p].turn ELSE g.turn[p]
             turns == [g.turn EXCEPT ![p] = turn]
             cap == IF t.snap[p].cap # 0 THEN t.snap[p].cap ELSE g.max_throws
             h == [g EXCEPT !.turn = turns, !.max_throws = cap]
  <2>1. AbortGame(g, t, p) \in {g, h}
    BY DEF AbortGame
  <2>2. turn \in Turn /\ Ranked(turn) /\ cap \in Nat
    BY DEF Timed, TaskTable, Snapshot, Typed, Game, RanksKnown, Ranked
  <2> HIDE DEF turn, cap
  <2>3. turns \in [Player -> Turn] /\ \A q \in Player : Ranked(turns[q])
    BY <2>2 DEF Typed, Game, RanksKnown, Ranked
  <2> HIDE DEF turns
  <2>4. h \in Game /\ h.turn = turns
    BY <2>2, <2>3 DEF Typed, Game
  <2> HIDE DEF h
  <2> QED BY <2>1, <2>3, <2>4 DEF Typed, RanksKnown, Ranked
<1> QED BY <1>1, <1>2

----------------------------------------------------------------------------
(* Departures keep the game well-formed.                                   *)

\* A list loses the player who goes and nobody else.
LEMMA WithoutLeaves ==
  ASSUME NEW s \in Seq(Player), NEW p
  PROVE  /\ Without(s, p) \in Seq(Player)
         /\ Members(Without(s, p)) \subseteq Members(s)
         /\ Members(s) \ {p} \subseteq Members(Without(s, p))
         /\ Once(s) => Once(Without(s, p)) /\ p \notin Members(Without(s, p))
<1>1. CASE p \notin Members(s)
  BY <1>1 DEF Without
<1>2. CASE p \in Members(s)
  <2> DEFINE S == {k \in DOMAIN s : s[k] = p}
             at == Smallest(S)
             n == Len(s)
             r == [k \in 1..(n - 1) |-> IF k < at THEN s[k] ELSE s[k + 1]]
  <2>1. S \in SUBSET Nat /\ S # {} /\ DOMAIN s = 1..n /\ n \in Nat
    BY <1>2 DEF Members
  <2>2. at \in S
    <3> HIDE DEF S
    <3> QED BY <2>1, SmallestIn
  <2>3. at \in 1..n /\ s[at] = p
    BY <2>1, <2>2
  <2>4. Without(s, p) = r
    BY <1>2 DEF Without
  <2> HIDE DEF at, S
  <2>5. \A k \in 1..(n - 1) : r[k] = (IF k < at THEN s[k] ELSE s[k + 1])
    OBVIOUS
  <2>6. r \in Seq(Player) /\ Len(r) = n - 1 /\ DOMAIN r = 1..(n - 1)
    <3>1. r \in [1..(n - 1) -> Player] /\ n - 1 \in Nat
      BY <2>1, <2>3
    <3> QED BY <3>1
  <2>7. \A k \in 1..(n - 1) : \E i \in 1..n : i # at /\ r[k] = s[i]
    <3> TAKE k \in 1..(n - 1)
    <3>1. CASE k < at
      BY <2>1, <2>3, <2>5, <3>1
    <3>2. CASE ~(k < at)
      <4>1. k + 1 \in 1..n /\ k + 1 # at /\ r[k] = s[k + 1]
        BY <2>1, <2>3, <2>5, <3>2
      <4> QED BY <4>1
    <3> QED BY <3>1, <3>2
  <2>8. \A i \in 1..n : i # at => \E k \in 1..(n - 1) : r[k] = s[i]
    <3> TAKE i \in 1..n
    <3>1. CASE i < at
      BY <2>1, <2>3, <2>5, <3>1
    <3>2. CASE i > at
      <4>1. i - 1 \in 1..(n - 1) /\ r[i - 1] = s[i]
        BY <2>1, <2>3, <2>5, <3>2
      <4> QED BY <4>1
    <3>3. i # at => i < at \/ i > at
      BY <2>1, <2>3
    <3> QED BY <3>1, <3>2, <3>3
  <2>9. ASSUME Once(s)
        PROVE  Once(r)
    <3>1. ASSUME NEW i \in 1..(n - 1), NEW j \in 1..(n - 1), r[i] = r[j]
          PROVE  i = j
      <4> DEFINE old(k) == IF k < at THEN k ELSE k + 1
      <4>1. old(i) \in 1..n /\ old(j) \in 1..n /\ r[i] = s[old(i)] /\ r[j] = s[old(j)]
        BY <2>1, <2>3, <2>5
      <4>2. old(i) = old(j)
        <5> HIDE DEF old
        <5> QED BY <2>1, <2>9, <3>1, <4>1 DEF Once
      <4> QED BY <2>3, <4>2
    <3> HIDE DEF r
    <3> QED BY <2>6, <3>1 DEF Once
  <2> HIDE DEF r, n
  <2>10. ASSUME Once(s), p \in Members(r)
         PROVE  FALSE
    <3>1. PICK k \in 1..(n - 1) : r[k] = p
      BY <2>6, <2>10 DEF Members
    <3>2. PICK i \in 1..n : i # at /\ r[k] = s[i]
      BY <2>7
    <3> QED BY <2>1, <2>3, <2>10, <3>1, <3>2 DEF Once
  <2>11. Members(r) \subseteq Members(s)
    BY <2>1, <2>6, <2>7 DEF Members
  <2>12. Members(s) \ {p} \subseteq Members(r)
    BY <2>1, <2>3, <2>6, <2>8 DEF Members
  <2> QED BY <2>4, <2>6, <2>9, <2>10, <2>11, <2>12
<1> QED BY <1>1, <1>2

\* What every departure does to the match, whoever the host is then.
Gone(g, p, h) ==
  /\ Typed(h)
  /\ h.players = Without(g.players, p) /\ h.waiting_players = g.waiting_players
  /\ h.tokens = [g.tokens EXCEPT ![p] = 0] /\ h.pool = g.pool /\ h.phase = g.phase
  /\ h.match_losses = [g.match_losses EXCEPT ![p] = 0]

\* What leave and kick do to the cycle under way.
IndexAfter(g, p) ==
  LET moved == g.current_index - SeatsBefore(g, p)
  IN  IF moved < Len(Without(g.players, p)) THEN moved ELSE 0
GapClosed(g, p, h) ==
  /\ h.out_of_match = g.out_of_match \ {p} /\ h.current_index = IndexAfter(g, p)
  /\ \A q \in Player \ {p} : h.turn[q] = g.turn[q]

\* The removal common to all departures.
LEMMA UnseatGone ==
  ASSUME NEW g, Typed(g), NEW p \in Player
  PROVE  LET h == Unseat(g, p)
         IN  /\ Gone(g, p, h) /\ h.host_player_id = g.host_player_id
             /\ h.current_index = g.current_index /\ h.round_starter_id = g.round_starter_id
             /\ h.out_of_match = g.out_of_match \ {p} /\ h.turn = g.turn
<1> DEFINE seats  == Without(g.players, p)
           out    == g.out_of_match \ {p}
           losses == [g.match_losses EXCEPT ![p] = 0]
           points == [g.round_points EXCEPT ![p] = 0]
           chips  == [g.tokens EXCEPT ![p] = 0]
           h == [g EXCEPT !.players = seats, !.out_of_match = out, !.match_losses = losses,
                          !.round_points = points, !.tokens = chips]
<1>1. g.players \in Seq(Player)
  BY DEF Typed, Game
<1>2. seats \in Seq(Player)
  BY <1>1, WithoutLeaves
<1>3. /\ out \in SUBSET Player /\ losses \in [Player -> Nat] /\ points \in [Player -> Nat]
      /\ chips \in [Player -> Nat]
  BY DEF Typed, Game
<1>4. Unseat(g, p) = h
  BY DEF Unseat, Typed, Game
<1> HIDE DEF seats, out, losses, points, chips
<1>5. /\ Typed(h) /\ h.players = seats /\ h.waiting_players = g.waiting_players
      /\ h.tokens = chips /\ h.pool = g.pool /\ h.phase = g.phase /\ h.match_losses = losses
      /\ h.host_player_id = g.host_player_id
      /\ h.current_index = g.current_index /\ h.round_starter_id = g.round_starter_id
      /\ h.out_of_match = out /\ h.turn = g.turn
  BY <1>2, <1>3 DEF Typed, Game, RanksKnown
<1> HIDE DEF h
<1> QED BY <1>4, <1>5 DEF Gone, seats, chips, losses, out

\* A leave or a kick that leaves somebody at the table.
LEMMA CloseGapGone ==
  ASSUME NEW g, Typed(g), NEW p \in Player, ~ (Seated(g) \subseteq {p})
  PROVE  LET h == CloseGap(g, p)
         IN  Gone(g, p, h) /\ h.host_player_id = g.host_player_id /\ GapClosed(g, p, h)
<1> DEFINE u == Unseat(g, p)
           rolls == [u.initial_rolls EXCEPT ![p] = Unasked]
           turns == [u.turn EXCEPT ![p] = NoTurn]
           k == [u EXCEPT !.initial_rolls = rolls, !.turn = turns]
           moved == g.current_index - SeatsBefore(g, p)
           index == IF moved < Len(k.players) THEN moved ELSE 0
           starter == IF k.round_starter_id = p THEN k.players[index + 1] ELSE k.round_starter_id
           h == [k EXCEPT !.current_index = index, !.round_starter_id = starter]
<1>1. /\ Gone(g, p, u) /\ u.host_player_id = g.host_player_id
      /\ u.out_of_match = g.out_of_match \ {p} /\ u.turn = g.turn
  BY UnseatGone
<1> HIDE DEF u
<1>2. /\ rolls \in [Player -> Die \cup {Unasked, Unrolled}] /\ turns \in [Player -> Turn]
      /\ \A q \in Player : turns[q] \in {u.turn[q], NoTurn}
  BY <1>1, TurnTypes DEF Gone, Typed, Game
<1> HIDE DEF rolls, turns
<1>3. /\ Gone(g, p, k) /\ k.host_player_id = g.host_player_id
      /\ k.out_of_match = g.out_of_match \ {p}
      /\ \A q \in Player \ {p} : k.turn[q] = g.turn[q]
  <2>1. Gone(g, p, u) /\ u.host_player_id = g.host_player_id
    BY <1>1
  <2>2. Gone(g, p, k) /\ k.host_player_id = g.host_player_id
    BY <1>2, <2>1, ZenonT(60) DEF Gone, Typed, Game, RanksKnown
  <2>3. k.out_of_match = u.out_of_match /\ k.turn = turns
    BY <2>1 DEF Gone, Typed, Game
  <2>4. \A q \in Player \ {p} : turns[q] = u.turn[q]
    BY <2>1 DEF Gone, Typed, Game, turns
  <2> QED BY <1>1, <2>2, <2>3, <2>4
<1>4. k = [Unseat(g, p) EXCEPT !.initial_rolls[p] = Unasked, !.turn[p] = NoTurn]
  BY <1>1 DEF u, rolls, turns, Gone, Typed, Game
<1>5. CloseGap(g, p) = h
  <2> HIDE DEF k
  <2>1. CloseGap(g, p) = [k EXCEPT !.current_index = index,
                            !.round_starter_id = IF @ = p THEN k.players[index + 1] ELSE @]
    BY <1>4 DEF CloseGap
  <2> HIDE DEF index
  <2> QED BY <2>1, <1>3 DEF Gone, Typed, Game
<1> HIDE DEF k
<1>6. k.players \in Seq(Player) /\ k.players # <<>>
  <2>1. g.players \in Seq(Player) /\ k.players \in Seq(Player) /\ k.players = Without(g.players, p)
    BY <1>3 DEF Gone, Typed, Game
  <2>2. Members(k.players) # {}
    BY <2>1, WithoutLeaves DEF Seated
  <2> QED BY <2>1, <2>2 DEF Members
<1>7. index = IndexAfter(g, p)
  <2>1. k.players = Without(g.players, p)
    BY <1>3 DEF Gone
  <2> HIDE DEF k
  <2> QED BY <2>1 DEF IndexAfter
<1>8. moved \in Nat
  <2>1. g.current_index \in Nat /\ g \in Game
    BY DEF Typed, Game
  <2>2. CASE p \in Seated(g) /\ IndexOf(g, p) < g.current_index
    <3>1. IndexOf(g, p) \in Nat
      BY <2>1, <2>2, IndexOrZeroType DEF IndexOrZero
    <3> QED BY <2>1, <2>2, <3>1 DEF SeatsBefore
  <2>3. CASE ~(p \in Seated(g) /\ IndexOf(g, p) < g.current_index)
    BY <2>1, <2>3 DEF SeatsBefore
  <2> QED BY <2>2, <2>3
<1> HIDE DEF moved
<1>9. index \in Nat /\ index + 1 \in 1..Len(k.players)
  BY <1>6, <1>8
<1> HIDE DEF index
<1>10. starter \in MaybePlayer
  BY <1>3, <1>6, <1>9 DEF Gone, Typed, Game, MaybePlayer
<1> HIDE DEF starter
<1>11. Gone(g, p, h) /\ h.host_player_id = g.host_player_id
  BY <1>3, <1>9, <1>10 DEF Gone, Typed, Game, RanksKnown
<1>12. GapClosed(g, p, h)
  BY <1>3, <1>7 DEF GapClosed, Gone, Typed, Game
<1> QED BY <1>5, <1>11, <1>12

\* The host's role passes to somebody seated, and nothing else changes.
LEMMA HostMigrationsGone ==
  ASSUME NEW g, NEW p, NEW k, Gone(g, p, k), NEW h \in HostMigrations(k, p)
  PROVE  /\ Gone(g, p, h) /\ Seated(h) = Seated(k)
         /\ h.current_index = k.current_index /\ h.out_of_match = k.out_of_match
         /\ h.turn = k.turn
         /\ IF k.host_player_id = p /\ k.players # <<>>
            THEN h.host_player_id \in Seated(h) ELSE h.host_player_id = k.host_player_id
<1>1. CASE k.host_player_id = p /\ k.players # <<>>
  <2>1. PICK host \in Seated(k) : h = [k EXCEPT !.host_player_id = host]
    BY <1>1 DEF HostMigrations
  <2>2. host \in Player
    BY SeatedArePlayers DEF Gone, Typed
  <2>3. /\ Typed(h) /\ h.players = k.players /\ h.waiting_players = k.waiting_players
        /\ h.tokens = k.tokens /\ h.pool = k.pool /\ h.phase = k.phase
        /\ h.match_losses = k.match_losses
        /\ h.host_player_id = host /\ h.current_index = k.current_index
        /\ h.out_of_match = k.out_of_match /\ h.turn = k.turn
    BY <2>1, <2>2 DEF Gone, Typed, Game, RanksKnown, MaybePlayer
  <2> QED BY <1>1, <2>1, <2>3 DEF Gone, Seated
<1>2. CASE ~(k.host_player_id = p /\ k.players # <<>>)
  <2>1. h = k
    BY <1>2 DEF HostMigrations
  <2> QED BY <1>2, <2>1
<1> QED BY <1>1, <1>2

----------------------------------------------------------------------------
(* The engine, in whatever phase it is called.                             *)

\* h is g some steps of the engine later: nobody has come or gone, who was
\* seated still is, the host is the same, no chip was made or lost but where a
\* match was dealt anew, and current_index has not left the table.  A handler or a timer may call the
\* engine in a phase it did not expect, so nothing here depends on the phase.
Tidy(g) == Typed(g) /\ Apart(g)
Held(g) == g.pool + Total(g.tokens, Seated(g))
InRange(g) == g.current_index = 0 \/ g.current_index < Len(g.players)
Upholds(g, h) ==
  /\ Tidy(h) /\ Known(h) \subseteq Known(g) /\ Seated(g) \subseteq Seated(h)
  /\ h.host_player_id = g.host_player_id
  /\ Held(h) \in {Held(g), Chips}
  /\ InRange(g) => InRange(h)

\* Steps follow one another.
LEMMA UpholdsBoth ==
  ASSUME NEW g, NEW h, Upholds(g, h), NEW k, Upholds(h, k)
  PROVE  Upholds(g, k)
  BY DEF Upholds

\* A step that moves no player and no chip.
SameChips(g, h) ==
  /\ h.players = g.players /\ h.waiting_players = g.waiting_players
  /\ h.host_player_id = g.host_player_id
  /\ h.tokens = g.tokens /\ h.pool = g.pool /\ h.match_losses = g.match_losses
  /\ h.current_index = g.current_index \/ InRange(h)
LEMMA SameChipsUphold ==
  ASSUME NEW g, Tidy(g), NEW h, Typed(h), SameChips(g, h)
  PROVE  Upholds(g, h)
<1>1. InRange(g) => InRange(h)
  BY DEF SameChips, InRange
<1> QED BY <1>1 DEF Upholds, Tidy, Apart, SameChips, Seated, Known, Held

\* The seat looked up for a player is at the table.
LEMMA IndexInRange ==
  ASSUME NEW g \in Game, NEW p, g.current_index = IndexOrZero(g, p)
  PROVE  InRange(g)
<1>1. CASE p \in Seated(g)
  <2>1. g.players \in Seq(Player)
    BY DEF Game
  <2> QED BY <1>1, <2>1, IndexIsSeat DEF InRange
<1>2. CASE p \notin Seated(g)
  BY <1>2 DEF IndexOrZero, InRange
<1> QED BY <1>1, <1>2

\* Every player who rolled is seated by the initial roll.
LEMMA SeatingsSeatAll ==
  ASSUME NEW g \in Game, NEW s \in SortedSeatings(g)
  PROVE  Members(s) = Seated(g)
<1> DEFINE n == Len(g.players)
<1>1. g.players \in Seq(Player) /\ n \in Nat /\ DOMAIN g.players = 1..n
  BY DEF Game
<1>2. s \in Seq(Player) /\ Len(s) = n /\ Once(s) /\ Members(s) \subseteq Seated(g)
  BY SeatingsAreOnce
<1>3. DOMAIN s = 1..n
  BY <1>1, <1>2
<1> HIDE DEF n
<1>4. s \in [1..n -> Seated(g)]
  BY <1>2, <1>3 DEF Members
<1>5. IsFiniteSet(Seated(g)) /\ IsFiniteSet(1..n)
  BY <1>1, SeatedIsFinite, FS_Interval
<1>6. g.players \in Surjection(1..n, Seated(g))
  <2>1. g.players \in [1..n -> Seated(g)]
    BY <1>1 DEF Seated, Members
  <2> QED BY <1>1, <2>1 DEF Surjection, Seated, Members
<1>7. Cardinality(Seated(g)) <= Cardinality(1..n)
  BY <1>5, <1>6, FS_Surjection
<1>8. s \in Injection(1..n, Seated(g))
  BY <1>2, <1>3, <1>4 DEF Injection, Once, IsInjective
<1>9. Cardinality(1..n) = Cardinality(Seated(g))
  <2>1. Cardinality(1..n) <= Cardinality(Seated(g))
    BY <1>5, <1>8, FS_Injection
  <2>2. Cardinality(1..n) \in Nat /\ Cardinality(Seated(g)) \in Nat
    BY <1>5, FS_CardinalityType
  <2> QED BY <1>7, <2>1, <2>2
<1>10. s \in Surjection(1..n, Seated(g))
  BY <1>5, <1>8, <1>9, FS_Injection
<1> QED BY <1>3, <1>10 DEF Surjection, Members

\* Closing a cycle leaves the host's role alone, and the index at the table.
LEMMA EndMatchHost ==
  ASSUME NEW g \in Game, NEW p \in Player
  PROVE  LET h == EndMatch(g, p)
         IN  /\ h.host_player_id = g.host_player_id
             /\ h.current_index = g.current_index \/ h.current_index = IndexOrZero(h, p)
<1> DEFINE count  == g.match_losses[p] + 1
           kept   == [g EXCEPT !.match_losses[p] = count]
           h      == AdmitWaiting(kept)
           scored == LosePoint(h, p)
           over   == [scored EXCEPT !.partie_loser_id = p, !.phase = "finished"]
           Same(k) == /\ DOMAIN k = DOMAIN g /\ k.host_player_id = g.host_player_id
                      /\ k.current_index = g.current_index
<1>1. kept \in Game /\ Same(kept)
  <2>1. count \in Nat
    BY DEF Game
  <2> HIDE DEF count
  <2> QED BY <2>1 DEF Game
<1> HIDE DEF kept
<1>2. Same(h)
  BY <1>1 DEF AdmitWaiting, Game
<1> HIDE DEF h
<1>3. Same(scored)
  BY <1>2 DEF LosePoint, Game
<1> HIDE DEF scored
<1>4. Same(over) /\ Same(ApplyPendingRules(scored))
  BY <1>3 DEF ApplyPendingRules, Game
<1>5. EndMatch(g, p) \in {StartNewSet(h, p), over, StartNewSet(ApplyPendingRules(scored), p)}
  BY DEF EndMatch, h, scored, kept
<1>6. ASSUME NEW k, Same(k)
      PROVE  LET n == StartNewSet(k, p)
             IN  n.host_player_id = g.host_player_id /\ n.current_index = IndexOrZero(n, p)
  <2> DEFINE n == StartNewSet(k, p)
  <2>1. /\ n.host_player_id = g.host_player_id /\ n.current_index = IndexOrZero(k, p)
        /\ n.players = k.players
    BY <1>6 DEF StartNewSet, Game
  <2> HIDE DEF n
  <2> QED BY <2>1 DEF n, IndexOrZero, IndexOf, Seated
<1> HIDE DEF over
<1> QED BY <1>2, <1>4, <1>5, <1>6

LEMMA NextCycleHost ==
  ASSUME NEW g \in Game, NEW p
  PROVE  LET h == NextCycle(SitOut(g), p)
         IN  /\ h.host_player_id = g.host_player_id
             /\ h.current_index = g.current_index \/ h.current_index = IndexOrZero(h, p)
<1>1. SitOut(g).host_player_id = g.host_player_id /\ "host_player_id" \in DOMAIN SitOut(g)
  BY DEF SitOut, Game
<1> DEFINE k == SitOut(g)
           o == OpenedBy(k, p)
           h == NextCycle(SitOut(g), p)
<1> HIDE DEF k
<1>2. o.host_player_id = g.host_player_id /\ "host_player_id" \in DOMAIN o
  BY <1>1 DEF OpenedBy, k
<1> HIDE DEF o
<1>3. h.host_player_id = g.host_player_id
  BY <1>2 DEF NextCycle, o, k
<1>4. /\ h.players = g.players
      /\ h.current_index = IF p = NoPlayer THEN g.current_index ELSE IndexOrZero(g, p)
  BY NextCycleWrites
<1> HIDE DEF h
<1>5. IndexOrZero(h, p) = IndexOrZero(g, p)
  BY <1>4 DEF IndexOrZero, IndexOf, Seated
<1> QED BY <1>3, <1>4, <1>5 DEF h

\* _finalize_cycle, in any phase: who waited sits down, the chips of a lost
\* match go back to the bank.
LEMMA FinalizeCycleUpholds ==
  ASSUME NEW g, Tidy(g), NEW p \in MaybePlayer
  PROVE  Upholds(g, FinalizeCycle(g, p))
<1> DEFINE full == {q \in Seated(g) : g.tokens[q] >= Chips}
<1>1. g \in Game /\ Typed(g) /\ Apart(g) /\ Seated(g) \subseteq Player
  BY SeatedArePlayers DEF Tidy, Typed
<1>2. CASE full = {}
  <2> DEFINE h == NextCycle(SitOut(g), p)
  <2>1. FinalizeCycle(g, p) = h
    BY <1>2 DEF FinalizeCycle
  <2>2. Typed(h)
    BY <1>1, <2>1, FinalizeCycleType
  <2>3. /\ h.host_player_id = g.host_player_id
        /\ h.current_index = g.current_index \/ h.current_index = IndexOrZero(h, p)
    BY <1>1, NextCycleHost
  <2>4. /\ h.players = g.players /\ h.waiting_players = g.waiting_players
        /\ h.tokens = g.tokens /\ h.pool = g.pool /\ h.match_losses = g.match_losses
    BY <1>1, NextCycleWrites, ZenonT(60)
  <2> HIDE DEF h
  <2>5. SameChips(g, h)
    BY <2>2, <2>3, <2>4, IndexInRange DEF SameChips, Typed
  <2> QED BY <2>1, <2>2, <2>5, SameChipsUphold
<1>3. CASE full # {}
  <2> DEFINE q == FirstSeated(g, full)
             h == EndMatch(g, q)
  <2>1. q \in full /\ q \in Seated(g) /\ q \in Player
    <3>1. PICK r \in full \cap Seated(g) : TRUE
      BY <1>3
    <3> HIDE DEF full
    <3> QED BY <1>1, <3>1, FirstSeatedType
  <2>2. FinalizeCycle(g, p) = h
    BY <1>3 DEF FinalizeCycle
  <2> HIDE DEF q, full
  <2>3. /\ Typed(h) /\ MatchEnded(g, q, h) /\ h.host_player_id = g.host_player_id
        /\ h.current_index = g.current_index \/ h.current_index = IndexOrZero(h, q)
    BY <1>1, <2>1, EndMatchType, EndMatchWrites, EndMatchHost
  <2> HIDE DEF h
  <2>4. g.players \in Seq(Player) /\ g.waiting_players \in Seq(Player)
    BY <1>1 DEF Game
  <2>5. /\ Once(h.players) /\ Seated(h) = Seated(g) \cup Members(g.waiting_players)
        /\ Once(h.waiting_players) /\ Members(h.waiting_players) = {}
    <3>1. h.players = g.players \o g.waiting_players /\ h.waiting_players = <<>>
      BY <2>3 DEF MatchEnded
    <3>2. /\ Once(g.players) /\ Once(g.waiting_players)
          /\ Members(g.waiting_players) \cap Members(g.players) = {}
      BY <1>1 DEF Apart, Seated
    <3>3. Once(h.players) /\ Members(h.players) = Members(g.players) \cup Members(g.waiting_players)
      BY <2>4, <3>1, <3>2, OnceAppended
    <3>4. Once(<<>>) /\ Members(<<>>) = {}
      BY DEF Once, Members
    <3> QED BY <3>1, <3>3, <3>4 DEF Seated
  <2>6. /\ h.tokens \in {Nobody, g.tokens}
        /\ h.match_losses \in {Nobody, [g.match_losses EXCEPT ![q] = g.match_losses[q] + 1]}
    BY <2>3 DEF MatchEnded
  <2>7. \A r \in Player : r \notin Seated(h) => h.tokens[r] = 0 /\ h.match_losses[r] = 0
    BY <1>1, <2>1, <2>5, <2>6 DEF Apart, Nobody, Game
  <2>8. IsFiniteSet(Seated(h)) /\ Seated(h) \subseteq Player
    BY <2>3, SeatedIsFinite, SeatedArePlayers DEF Typed
  <2>9. Held(h) \in {Held(g), Chips}
    <3>1. CASE PartieLost(g, q)
      <4>1. /\ Seated(g) \in SUBSET Seated(h)
            /\ \A r \in Seated(h) : g.tokens[r] \in Nat
            /\ \A r \in Seated(h) \ Seated(g) : g.tokens[r] = 0
        BY <1>1, <2>5, <2>8 DEF Apart, Game
      <4>2. Total(g.tokens, Seated(h)) = Total(g.tokens, Seated(g))
        BY <2>8, <4>1, TotalOfMore
      <4> QED BY <2>3, <3>1, <4>2 DEF Held, MatchEnded
    <3>2. CASE ~PartieLost(g, q)
      <4>1. h.tokens = Nobody /\ h.pool = Chips
        BY <2>3, <3>2 DEF MatchEnded
      <4>2. \A r \in Seated(h) : h.tokens[r] = 0
        BY <2>8, <4>1 DEF Nobody
      <4>3. Total(h.tokens, Seated(h)) = 0
        BY <2>8, <4>2, TotalOfZeros
      <4> QED BY <4>1, <4>3, BoundsAssumption DEF Held
    <3> QED BY <3>1, <3>2
  <2>10. Apart(h)
    BY <2>5, <2>7 DEF Apart
  <2>11. InRange(g) => InRange(h)
    <3>1. CASE h.current_index = g.current_index
      <4>1. Len(h.players) = Len(g.players) + Len(g.waiting_players)
        BY <2>3, <2>4 DEF MatchEnded
      <4>2. Len(g.players) \in Nat /\ Len(g.waiting_players) \in Nat /\ g.current_index \in Nat
        BY <1>1, <2>4 DEF Game
      <4>3. \A x, a, b \in Nat : x < a => x < a + b
        OBVIOUS
      <4>4. g.current_index < Len(g.players) => g.current_index < Len(h.players)
        BY <4>1, <4>2, <4>3, Zenon
      <4> QED BY <3>1, <4>4 DEF InRange
    <3>2. CASE h.current_index = IndexOrZero(h, q)
      BY <2>3, <3>2, IndexInRange DEF Typed
    <3> QED BY <2>3, <3>1, <3>2
  <2> QED BY <2>2, <2>3, <2>5, <2>9, <2>10, <2>11 DEF Upholds, Tidy, Known
<1> QED BY <1>2, <1>3

\* The loser takes chips from the bank.
LEMMA TakeFromBankUpholds ==
  ASSUME NEW g, Tidy(g), NEW loser \in Seated(g), NEW penalty \in Nat
  PROVE  Upholds(g, TakeFromBank(g, loser, penalty, "charge"))
<1> DEFINE h == TakeFromBank(g, loser, penalty, "charge")
           taken == Lesser(penalty, g.pool)
<1>1. g \in Game /\ Typed(g) /\ Apart(g) /\ Seated(g) \subseteq Player /\ "charge" \in Phase
  BY SeatedArePlayers DEF Tidy, Typed, Phase
<1>2. loser \in Player /\ g.tokens \in [Player -> Nat] /\ g.pool \in Nat
  BY <1>1 DEF Game
<1>3. Typed(h)
  BY <1>1, <1>2, TakeFromBankType
<1>4. /\ SameSeats(g, h) /\ h.pool = g.pool - taken
      /\ h.tokens = [g.tokens EXCEPT ![loser] = @ + taken]
  BY <1>1, <1>2, TakeFromBankWrites
<1>5. h.host_player_id = g.host_player_id /\ h.current_index = g.current_index
  BY <1>1 DEF TakeFromBank, Game
<1>6. taken \in Nat /\ taken <= g.pool
  BY <1>2 DEF Lesser
<1> HIDE DEF h, taken
<1>7. Seated(h) = Seated(g) /\ Known(h) = Known(g)
  BY <1>4 DEF SameSeats, Seated, Known
<1>8. Apart(h)
  BY <1>1, <1>2, <1>4, <1>7 DEF Apart, SameSeats
<1>9. Total(h.tokens, Seated(g)) = Total(g.tokens, Seated(g)) + taken
  <2>1. IsFiniteSet(Seated(g))
    BY <1>1, SeatedIsFinite
  <2>2. /\ \A q \in Seated(g) : g.tokens[q] \in Nat /\ h.tokens[q] \in Nat
        /\ \A q \in Seated(g) \ {loser} : h.tokens[q] = g.tokens[q]
    BY <1>1, <1>2, <1>4, <1>6
  <2>3. Total(h.tokens, Seated(g)) = Total(g.tokens, Seated(g)) + h.tokens[loser] - g.tokens[loser]
    BY <2>1, <2>2, TotalOfOne
  <2>4. h.tokens[loser] = g.tokens[loser] + taken /\ g.tokens[loser] \in Nat
    BY <1>2, <1>4
  <2>5. Total(g.tokens, Seated(g)) \in Nat
    BY <2>1, <2>2, TotalIsNat
  <2> QED BY <1>6, <2>3, <2>4, <2>5
<1>10. Total(g.tokens, Seated(g)) \in Nat
  <2>1. \A q \in Seated(g) : g.tokens[q] \in Nat
    BY <1>1, <1>2
  <2> QED BY <1>1, <2>1, SeatedIsFinite, TotalIsNat
<1>11. Held(h) = Held(g)
  BY <1>2, <1>4, <1>6, <1>7, <1>9, <1>10, BoundsAssumption DEF Held
<1>12. InRange(g) => InRange(h)
  BY <1>4, <1>5 DEF InRange, SameSeats
<1> QED BY <1>3, <1>5, <1>7, <1>8, <1>11, <1>12 DEF Upholds, Tidy, h

\* A seated player, if it is one, gives chips to another, or to itself.
LEMMA MovedTotal ==
  ASSUME NEW S, IsFiniteSet(S), S \subseteq Player, NEW held \in [Player -> Nat],
         NEW winner \in S, NEW loser \in S, NEW given \in Nat, given <= held[winner]
  PROVE  Total(Moved(held, winner, loser, given), S) = Total(held, S)
<1> DEFINE mid == [held EXCEPT ![winner] = @ - given]
           new == Moved(held, winner, loser, given)
<1>1. held[winner] \in Nat /\ held[winner] - given \in Nat
  OBVIOUS
<1>2. /\ mid \in [Player -> Nat] /\ mid[winner] = held[winner] - given
      /\ \A q \in S \ {winner} : mid[q] = held[q]
  BY <1>1
<1>3. CASE winner = loser
  <2>1. held[loser] - given + given = held[loser]
    BY <1>1, <1>3
  <2>2. new = held
    BY <1>3, <2>1 DEF Moved
  <2> QED BY <2>2
<1>4. CASE winner # loser
  <2>1. /\ \A q \in Player \ {winner, loser} : new[q] = held[q]
        /\ new[loser] = held[loser] + given /\ new[winner] = held[winner] - given
    BY <1>4 DEF Moved
  <2> HIDE DEF mid, new
  <2>2. /\ \A q \in S : held[q] \in Nat /\ mid[q] \in Nat
        /\ mid[loser] = held[loser]
    BY <1>2, <1>4
  <2>3. \A q \in S \ {loser} : new[q] = mid[q]
    BY <1>2, <2>1
  <2>4. new[loser] = mid[loser] + given /\ new[loser] \in Nat
    BY <2>1, <2>2
  <2>5. \A q \in S : new[q] \in Nat
    BY <2>2, <2>3, <2>4
  <2>6. Total(mid, S) = Total(held, S) + mid[winner] - held[winner]
    BY <1>2, <2>2, TotalOfOne
  <2>7. Total(new, S) = Total(mid, S) + new[loser] - mid[loser]
    BY <2>2, <2>3, <2>5, TotalOfOne
  <2>8. Total(held, S) \in Nat /\ Total(mid, S) \in Nat
    BY <2>2, TotalIsNat
  <2>9. Total(mid, S) = Total(held, S) - given
    BY <1>1, <1>2, <2>6, <2>8
  <2>10. Total(new, S) = Total(mid, S) + given
    BY <2>2, <2>4, <2>7, <2>8
  <2> QED BY <2>8, <2>9, <2>10 DEF new
<1> QED BY <1>3, <1>4

LEMMA GiveToLoserUpholds ==
  ASSUME NEW g, Tidy(g), NEW winner \in MaybePlayer, NEW loser \in Seated(g), NEW penalty \in Nat
  PROVE  Upholds(g, GiveToLoser(g, winner, loser, penalty))
<1> DEFINE h == GiveToLoser(g, winner, loser, penalty)
           given == Lesser(penalty, g.tokens[winner])
<1>1. g \in Game /\ Typed(g) /\ Apart(g) /\ Seated(g) \subseteq Player /\ IsFiniteSet(Seated(g))
  BY SeatedArePlayers, SeatedIsFinite DEF Tidy, Typed
<1>2. loser \in Player /\ g.tokens \in [Player -> Nat]
  BY <1>1 DEF Game
<1>3. Typed(h)
  BY <1>1, <1>2, GiveToLoserType
<1>4. /\ SameSeats(g, h) /\ h.pool = g.pool
      /\ winner \notin Seated(g) => h.tokens = g.tokens
      /\ winner \in Seated(g) => h.tokens = Moved(g.tokens, winner, loser, given)
  BY <1>1, GiveToLoserWrites
<1>5. h.host_player_id = g.host_player_id /\ h.current_index = g.current_index
  BY <1>1 DEF GiveToLoser, Game
<1>6. CASE winner \notin Seated(g)
  <2>1. SameChips(g, h)
    BY <1>4, <1>5, <1>6 DEF SameChips, SameSeats
  <2> HIDE DEF h
  <2>2. Upholds(g, h)
    BY <1>3, <2>1, SameChipsUphold
  <2> QED BY <2>2 DEF h
<1>7. CASE winner \in Seated(g)
  <2>1. given \in Nat /\ given <= g.tokens[winner]
    BY <1>1, <1>2, <1>7 DEF Lesser
  <2> HIDE DEF h, given
  <2>2. Seated(h) = Seated(g) /\ Known(h) = Known(g)
    BY <1>4 DEF SameSeats, Seated, Known
  <2>3. Total(h.tokens, Seated(g)) = Total(g.tokens, Seated(g))
    BY <1>1, <1>2, <1>4, <1>7, <2>1, MovedTotal
  <2>4. \A q \in Player : q \notin Seated(g) => h.tokens[q] = g.tokens[q]
    BY <1>2, <1>4, <1>7 DEF Moved
  <2>5. Apart(h)
    BY <1>1, <1>4, <2>2, <2>4 DEF Apart, SameSeats
  <2>6. Held(h) = Held(g)
    BY <1>4, <2>2, <2>3 DEF Held
  <2>7. InRange(g) => InRange(h)
    BY <1>4, <1>5 DEF InRange, SameSeats
  <2> QED BY <1>3, <1>5, <2>2, <2>5, <2>6, <2>7 DEF Upholds, Tidy, h
<1> QED BY <1>6, <1>7

\* Throwing again moves no chip.
LEMMA EnterTiebreakUpholds ==
  ASSUME NEW g, Tidy(g), NEW tied \in SUBSET Player, NEW penalty \in Nat,
         NEW phase \in Phase, NEW winner \in MaybePlayer
  PROVE  Upholds(g, EnterTiebreak(g, tied, penalty, phase, winner))
<1> DEFINE h == EnterTiebreak(g, tied, penalty, phase, winner)
<1>1. Typed(h)
  BY EnterTiebreakType DEF Tidy
<1>2. SameChips(g, h)
  BY DEF Tidy, Typed, EnterTiebreak, Game, SameChips
<1> HIDE DEF h
<1>3. Upholds(g, h)
  BY <1>1, <1>2, SameChipsUphold
<1> QED BY <1>3 DEF h

\* _resolve_round, in any phase.
LEMMA ResolveRoundUpholds ==
  ASSUME NEW g, Tidy(g), AllDone(g)
  PROVE  Upholds(g, ResolveRound(g))
<1> DEFINE h == ResolveRound(g)
<1>1. g \in Game /\ Typed(g) /\ Typed(h) /\ g.phase \in Phase
  BY ResolveRoundType DEF Tidy, Typed, Game
<1>2. CASE h = Disband(g)
  <2>1. SameChips(g, Disband(g))
    BY <1>1 DEF Disband, Game, SameChips
  <2> HIDE DEF h
  <2>2. Upholds(g, h)
    BY <1>1, <1>2, <2>1, SameChipsUphold
  <2> QED BY <2>2 DEF h
<1>3. CASE h = FinalizeCycle(g, NoPlayer)
  BY <1>3, FinalizeCycleUpholds DEF MaybePlayer
<1>4. ASSUME NEW low \in SUBSET (Active(g) \cap Player), NEW loser \in low,
             NEW winner \in MaybePlayer \ low, NEW penalty \in Nat \ {0}
      PROVE  /\ Upholds(g, EnterTiebreak(g, low, penalty, g.phase, winner))
             /\ Upholds(g, FinalizeCycle(TakeFromBank(g, loser, penalty, "charge"), loser))
             /\ Upholds(g, FinalizeCycle(GiveToLoser(g, winner, loser, penalty), loser))
  <2> DEFINE charged == TakeFromBank(g, loser, penalty, "charge")
             given == GiveToLoser(g, winner, loser, penalty)
  <2>1. loser \in Seated(g) /\ loser \in MaybePlayer /\ winner \in MaybePlayer /\ penalty \in Nat
    BY DEF Active, MaybePlayer
  <2>2. Upholds(g, charged) /\ Upholds(g, given)
    BY <2>1, TakeFromBankUpholds, GiveToLoserUpholds
  <2> HIDE DEF charged, given
  <2>3. Tidy(charged) /\ Tidy(given)
    BY <2>2 DEF Upholds
  <2>4. Upholds(charged, FinalizeCycle(charged, loser))
    BY <2>1, <2>3, FinalizeCycleUpholds
  <2>5. Upholds(given, FinalizeCycle(given, loser))
    BY <2>1, <2>3, FinalizeCycleUpholds
  <2>6. Upholds(g, EnterTiebreak(g, low, penalty, g.phase, winner))
    BY <1>1, <2>1, EnterTiebreakUpholds
  <2> QED BY <2>2, <2>4, <2>5, <2>6, UpholdsBoth DEF charged, given
<1>5. \/ h = Disband(g) \/ h = FinalizeCycle(g, NoPlayer)
      \/ \E low \in SUBSET (Active(g) \cap Player) : \E loser \in low :
           \E winner \in MaybePlayer \ low, penalty \in Nat \ {0} :
             \/ h = EnterTiebreak(g, low, penalty, g.phase, winner)
             \/ h = FinalizeCycle(TakeFromBank(g, loser, penalty, "charge"), loser)
             \/ h = FinalizeCycle(GiveToLoser(g, winner, loser, penalty), loser)
  BY <1>1, ResolveRoundDetails, Zenon
<1> HIDE DEF h
<1>6. CASE \E low \in SUBSET (Active(g) \cap Player) : \E loser \in low :
             \E winner \in MaybePlayer \ low, penalty \in Nat \ {0} :
               \/ h = EnterTiebreak(g, low, penalty, g.phase, winner)
               \/ h = FinalizeCycle(TakeFromBank(g, loser, penalty, "charge"), loser)
               \/ h = FinalizeCycle(GiveToLoser(g, winner, loser, penalty), loser)
  <2>1. PICK low \in SUBSET (Active(g) \cap Player) : \E loser \in low :
             \E winner \in MaybePlayer \ low, penalty \in Nat \ {0} :
               \/ h = EnterTiebreak(g, low, penalty, g.phase, winner)
               \/ h = FinalizeCycle(TakeFromBank(g, loser, penalty, "charge"), loser)
               \/ h = FinalizeCycle(GiveToLoser(g, winner, loser, penalty), loser)
    BY <1>6
  <2>2. PICK loser \in low : \E winner \in MaybePlayer \ low, penalty \in Nat \ {0} :
               \/ h = EnterTiebreak(g, low, penalty, g.phase, winner)
               \/ h = FinalizeCycle(TakeFromBank(g, loser, penalty, "charge"), loser)
               \/ h = FinalizeCycle(GiveToLoser(g, winner, loser, penalty), loser)
    BY <2>1
  <2>3. \A winner \in MaybePlayer \ low, penalty \in Nat \ {0} :
               /\ Upholds(g, EnterTiebreak(g, low, penalty, g.phase, winner))
               /\ Upholds(g, FinalizeCycle(TakeFromBank(g, loser, penalty, "charge"), loser))
               /\ Upholds(g, FinalizeCycle(GiveToLoser(g, winner, loser, penalty), loser))
    BY <1>4
  <2>4. Upholds(g, h)
    BY <2>2, <2>3
  <2> QED BY <2>4 DEF h
<1> QED BY <1>2, <1>3, <1>5, <1>6, Zenon DEF h

\* The loser of a tiebreak that is settled is at the table.
LEMMA TiebreakLoserSeated ==
  ASSUME NEW g \in Game, ~TiebreakRaises(g), g.tiebreak # NoTiebreak,
         NEW loser, LowestThrows(g) = {loser}
  PROVE  loser \in Seated(g)
  BY DEF TiebreakRaises, LowestThrows, Threw

\* _resolve_tiebreak, in any phase.
LEMMA ResolveTiebreakUpholds ==
  ASSUME NEW g, Tidy(g)
  PROVE  Upholds(g, ResolveTiebreak(g))
<1> DEFINE tb == g.tiebreak
           low == LowestThrows(g)
           loser == CHOOSE p \in low : TRUE
           again == EnterTiebreak(g, low, tb.penalty, tb.return_phase, tb.original_winner_id)
           k == Cleared(g, loser)
           h == ResolveTiebreak(g)
<1>1. /\ g \in Game /\ Typed(g) /\ low \in SUBSET Player /\ tb.penalty \in Nat
      /\ tb.return_phase \in Phase /\ tb.original_winner_id \in MaybePlayer
  BY DEF Tidy, Typed, Game, Tiebreak, LowestThrows, Threw
<1>2. \/ h = g \/ h = again
      \/ /\ low = {loser} /\ h = FinalizeCycle(k, loser)
         /\ ~TiebreakRaises(g) /\ tb # NoTiebreak
  BY Zenon DEF ResolveTiebreak, Cleared, Paid
<1>3. CASE h = g
  <2>1. Upholds(g, g)
    BY DEF Upholds
  <2> QED BY <1>3, <2>1
<1>4. CASE h = again
  <2> HIDE DEF h, low, tb
  <2>1. Upholds(g, h)
    BY <1>1, <1>4, EnterTiebreakUpholds
  <2> QED BY <2>1 DEF h
<1>5. CASE /\ low = {loser} /\ h = FinalizeCycle(k, loser)
           /\ ~TiebreakRaises(g) /\ tb # NoTiebreak
  <2> DEFINE charged == TakeFromBank(g, loser, tb.penalty, "charge")
             given == GiveToLoser(g, tb.original_winner_id, loser, tb.penalty)
             paid == IF tb.return_phase = "charge" THEN charged ELSE given
  <2> HIDE DEF loser
  <2>1. loser \in Seated(g) /\ loser \in Player /\ loser \in MaybePlayer
    <3>1. loser \in Seated(g)
      BY <1>1, <1>5, TiebreakLoserSeated
    <3> QED BY <1>1, <3>1, SeatedArePlayers DEF MaybePlayer
  <2>2. Upholds(g, charged) /\ Upholds(g, given)
    BY <1>1, <2>1, TakeFromBankUpholds, GiveToLoserUpholds
  <2>3. /\ tb.return_phase = "charge" => SameSeats(charged, k) /\ Kept(charged, k)
        /\ tb.return_phase # "charge" => SameSeats(given, k) /\ Kept(given, k)
    BY <1>1, <2>1, ClearedWrites
  <2>4. k = IF tb.return_phase = "charge" THEN [charged EXCEPT !.tiebreak = NoTiebreak]
            ELSE [[given EXCEPT !.phase = "decharge"] EXCEPT !.tiebreak = NoTiebreak]
    BY DEF Cleared, Paid
  <2> HIDE DEF charged, given, k, h
  <2>5. charged \in Game /\ given \in Game /\ Typed(charged) /\ Typed(given)
    BY <2>2 DEF Upholds, Tidy, Typed
  <2>6. Typed(k) /\ k.host_player_id = paid.host_player_id /\ k.current_index = paid.current_index
    <3>1. NoTiebreak \in Tiebreak /\ "decharge" \in Phase
      BY DEF NoTiebreak, Tiebreak, MaybePlayer, Phase
    <3> HIDE DEF tb
    <3> QED BY <2>4, <2>5, <3>1 DEF Typed, Game, RanksKnown
  <2>7. SameChips(paid, k) /\ Tidy(paid)
    BY <2>2, <2>3, <2>6 DEF SameChips, SameSeats, Kept, Upholds
  <2> HIDE DEF paid
  <2>8. Upholds(paid, k)
    BY <2>6, <2>7, SameChipsUphold
  <2>9. Upholds(k, FinalizeCycle(k, loser))
    <3>1. Tidy(k)
      BY <2>8 DEF Upholds
    <3> QED BY <2>1, <3>1, FinalizeCycleUpholds
  <2>10. Upholds(g, paid)
    BY <2>2 DEF paid
  <2>11. Upholds(g, h)
    BY <1>5, <2>8, <2>9, <2>10, UpholdsBoth
  <2> QED BY <2>11 DEF h
<1> QED BY <1>2, <1>3, <1>4, <1>5

\* The end of a turn, in any phase.
LEMMA EndTurnUpholds ==
  ASSUME NEW g, Tidy(g)
  PROVE  Upholds(g, EndTurn(g))
<1> DEFINE k == Advance(g)
           index == (g.current_index + StepsToActive(g, 1)) % Len(g.players)
<1>1. k = g \/ (k = [g EXCEPT !.current_index = index] /\ Active(g) # {})
  BY DEF Advance
<1>2. k \in Game /\ g \in Game /\ Typed(g)
  BY AdvanceType DEF Tidy, Typed
<1>3. EndTurn(g) = IF AllDone(k) THEN ResolveRound(k) ELSE k
  BY DEF EndTurn
<1> HIDE DEF k, index
<1>4. SameChips(g, k) /\ Typed(k)
  <2>1. CASE k = g
    BY <1>2, <2>1 DEF SameChips
  <2>2. CASE k = [g EXCEPT !.current_index = index] /\ Active(g) # {}
    <3>1. Len(g.players) \in Nat \ {0}
      BY <1>2, <2>2 DEF Game, Active, Seated, Members
    <3>2. StepsToActive(g, 1) \in Nat /\ g.current_index \in Nat
      BY <1>2, <2>2, StepsExist DEF Game
    <3>3. index < Len(g.players)
      <4>1. index \in 0..(Len(g.players) - 1)
        <5>1. g.current_index + StepsToActive(g, 1) \in Int
          BY <3>2
        <5> QED BY <3>1, <5>1, ModRange, Zenon DEF index
      <4> QED BY <3>1, <4>1
    <3> HIDE DEF index
    <3> QED BY <1>2, <2>2, <3>3 DEF SameChips, Game, Typed, RanksKnown, InRange
  <2> QED BY <1>1, <2>1, <2>2
<1>5. Upholds(g, k)
  BY <1>4, SameChipsUphold
<1>6. AllDone(k) => Upholds(k, ResolveRound(k))
  BY <1>5, ResolveRoundUpholds DEF Upholds
<1> QED BY <1>3, <1>5, <1>6, UpholdsBoth

\* _start_new_partie, in any phase.
LEMMA StartNewPartieUpholds ==
  ASSUME NEW g, Tidy(g)
  PROVE  Upholds(g, StartNewPartie(g))
<1> DEFINE h == StartNewPartie(g)
<1>1. g \in Game /\ Typed(g) /\ Typed(h) /\ Apart(g)
  BY StartNewPartieType DEF Tidy, Typed
<1>2. /\ h.players = g.players /\ h.waiting_players = g.waiting_players
      /\ h.tokens = NoChips(g) /\ h.pool = Chips /\ h.match_losses = Nobody
      /\ \E q : h.current_index = IndexOrZero(g, q)
  BY <1>1, StartNewPartieWrites
<1>3. h.host_player_id = g.host_player_id
  BY <1>1 DEF StartNewPartie, Game
<1> HIDE DEF h
<1>4. NoChips(g) = Nobody
  BY <1>1, NoChipsIsNobody DEF Apart
<1>5. Seated(h) = Seated(g) /\ Known(h) = Known(g)
  BY <1>2 DEF Seated, Known
<1>6. Apart(h)
  BY <1>1, <1>2, <1>4, <1>5 DEF Apart, Nobody
<1>7. Held(h) = Chips
  <2>1. IsFiniteSet(Seated(h)) /\ Seated(h) \subseteq Player
    BY <1>1, SeatedIsFinite, SeatedArePlayers DEF Typed
  <2>2. \A q \in Seated(h) : h.tokens[q] = 0
    BY <1>2, <1>4, <2>1 DEF Nobody
  <2>3. Total(h.tokens, Seated(h)) = 0
    BY <2>1, <2>2, TotalOfZeros
  <2> QED BY <1>2, <2>3, BoundsAssumption DEF Held
<1>8. InRange(h)
  <2>1. PICK q : h.current_index = IndexOrZero(g, q)
    BY <1>2
  <2>2. h.current_index = IndexOrZero(h, q)
    BY <1>2, <2>1 DEF IndexOrZero, IndexOf, Seated
  <2> QED BY <1>1, <2>2, IndexInRange DEF Typed
<1> QED BY <1>1, <1>3, <1>5, <1>6, <1>7, <1>8 DEF Upholds, Tidy, h

\* The initial roll, in any phase.
LEMMA RollInitialUpholds ==
  ASSUME NEW g, Tidy(g), NEW p \in Player, NEW d \in Die, NEW h \in RollInitial(g, p, d)
  PROVE  Upholds(g, h)
<1> DEFINE shown == [g.initial_rolls EXCEPT ![p] = d]
           k == [g EXCEPT !.initial_rolls = shown]
           lowest == {q \in Seated(k) : \A r \in Seated(k) : k.initial_rolls[q] <= k.initial_rolls[r]}
           again == [q \in Player |-> IF q \in lowest THEN Unrolled ELSE k.initial_rolls[q]]
<1>1. g \in Game /\ Typed(g) /\ Apart(g) /\ Typed(h)
  BY RollInitialType DEF Tidy, Typed
<1>2. [g EXCEPT !.initial_rolls[p] = d] = k
  BY <1>1 DEF Game
<1>3. \/ h = k \/ h = [k EXCEPT !.initial_rolls = again]
      \/ \E q \in Seated(k) : \E s \in SortedSeatings(k) : h = DoStart([k EXCEPT !.players = s])
  BY <1>2 DEF RollInitial, FinalizeOrder
<1>4. CASE h = k \/ h = [k EXCEPT !.initial_rolls = again]
  <2> HIDE DEF shown, again, lowest
  <2>1. SameChips(g, h)
    BY <1>1, <1>4 DEF SameChips, Game
  <2> QED BY <1>1, <2>1, SameChipsUphold
<1>5. ASSUME NEW q \in Seated(k), NEW s \in SortedSeatings(k), h = DoStart([k EXCEPT !.players = s])
      PROVE  Upholds(g, h)
  <2> DEFINE t == [k EXCEPT !.players = s]
  <2>1. k \in Game /\ SameChips(g, k)
    <3>1. shown \in [Player -> Die \cup {Unasked, Unrolled}]
      BY <1>1 DEF Game
    <3> HIDE DEF shown
    <3> QED BY <1>1, <3>1 DEF Game, SameChips
  <2> HIDE DEF k
  <2>2. s \in Seq(Player) /\ Once(s) /\ Members(s) = Seated(k)
    BY <2>1, SeatingsAreOnce, SeatingsSeatAll
  <2>3. /\ t \in Game /\ t.players = s /\ t.waiting_players = k.waiting_players
        /\ t.tokens = k.tokens /\ t.match_losses = k.match_losses
        /\ t.host_player_id = k.host_player_id
    BY <2>1, <2>2 DEF Game
  <2> HIDE DEF t
  <2>4. h = DoStart(t)
    BY <1>5 DEF t
  <2>5. /\ h.players = s /\ h.waiting_players = g.waiting_players
        /\ h.tokens = NoChips(t) /\ h.pool = Chips
        /\ h.match_losses = g.match_losses /\ h.current_index = 0
    BY <2>1, <2>3, <2>4, DoStartWrites DEF SameChips
  <2>6. h.host_player_id = g.host_player_id
    BY <2>1, <2>3, <2>4 DEF DoStart, Game, SameChips
  <2>7. Seated(t) = Seated(g) /\ Seated(h) = Seated(g) /\ Known(h) = Known(g)
    BY <2>1, <2>2, <2>3, <2>5 DEF Seated, SameChips, Known
  <2>8. h.tokens = Nobody
    BY <1>1, <2>1, <2>3, <2>5, <2>7, NoChipsIsNobody DEF Apart, SameChips
  <2>9. Apart(h)
    BY <1>1, <2>2, <2>5, <2>7, <2>8 DEF Apart, Nobody
  <2>10. Held(h) = Chips
    <3>1. IsFiniteSet(Seated(h)) /\ Seated(h) \subseteq Player
      BY <1>1, SeatedIsFinite, SeatedArePlayers DEF Typed
    <3>2. \A r \in Seated(h) : h.tokens[r] = 0
      BY <2>8, <3>1 DEF Nobody
    <3>3. Total(h.tokens, Seated(h)) = 0
      BY <3>1, <3>2, TotalOfZeros
    <3> QED BY <2>5, <3>3, BoundsAssumption DEF Held
  <2> QED BY <1>1, <2>5, <2>6, <2>7, <2>9, <2>10 DEF Upholds, Tidy, InRange
<1> HIDE DEF k
<1> QED BY <1>3, <1>4, <1>5 DEF k

\* Throws, validations, queued rules and the opening of the initial roll move
\* neither players nor chips.
LEMMA ThrowsUphold ==
  ASSUME NEW g, Tidy(g), NEW p \in Player
  PROVE  /\ Upholds(g, g)
         /\ \A r \in Rank : MayRoll(g, p) => Upholds(g, Throw(g, p, r))
         /\ MayValidate(g, p) => Upholds(g, Validate(g, p))
         /\ \A r \in Rank : Upholds(g, ThrowTiebreak(g, p, r))
         /\ \A rule \in RuleChoices : Upholds(g, QueueRule(g, rule))
         /\ Upholds(g, StartInitialRoll(g))
<1>1. g \in Game /\ Typed(g)
  BY DEF Tidy, Typed
<1>2. /\ \A r \in Rank : SameChips(g, ThrowTiebreak(g, p, r))
      /\ \A rule \in RuleChoices : SameChips(g, QueueRule(g, rule))
      /\ SameChips(g, StartInitialRoll(g))
  BY <1>1 DEF SameChips, Game, ThrowTiebreak, QueueRule, StartInitialRoll
<1>3. \A r \in Rank : SameChips(g, Throw(g, p, r))
  <2> SUFFICES ASSUME NEW r \in Rank
               PROVE  SameChips(g, Throw(g, p, r))
    OBVIOUS
  <2> DEFINE t == Throw(g, p, r).turn
             c == Throw(g, p, r).max_throws
  <2>1. Throw(g, p, r) = [g EXCEPT !.turn = t, !.max_throws = c]
    BY <1>1 DEF Throw, Game
  <2> HIDE DEF t, c
  <2> QED BY <1>1, <2>1 DEF SameChips, Game
<1>4. SameChips(g, Validate(g, p))
  <2> DEFINE t == Validate(g, p).turn
             c == Validate(g, p).max_throws
  <2>1. Validate(g, p) = [g EXCEPT !.turn = t, !.max_throws = c]
    BY <1>1 DEF Validate, Game
  <2> HIDE DEF t, c
  <2> QED BY <1>1, <2>1 DEF SameChips, Game
<1>5. /\ \A r \in Rank : MayRoll(g, p) => Typed(Throw(g, p, r))
      /\ MayValidate(g, p) => Typed(Validate(g, p))
      /\ \A r \in Rank : Typed(ThrowTiebreak(g, p, r))
      /\ \A rule \in RuleChoices : Typed(QueueRule(g, rule))
      /\ Typed(StartInitialRoll(g))
  BY <1>1, ThrowType, ValidateType, ThrowTiebreakType, QueueRuleType, StartInitialRollType
<1>6. Upholds(g, g)
  BY DEF Upholds
<1> QED BY <1>2, <1>3, <1>4, <1>5, <1>6, SameChipsUphold

----------------------------------------------------------------------------
(* What the room does around the engine.                                   *)

\* A turn given back to its player.
LEMMA AbortUpholds ==
  ASSUME NEW g, Tidy(g), NEW t, Timed(t), NEW p \in Player
  PROVE  Upholds(g, AbortGame(g, t, p)) /\ Timed(AbortTasks(t, p))
<1> DEFINE h == AbortGame(g, t, p)
<1>1. g \in Game /\ Typed(g) /\ Typed(h) /\ Timed(AbortTasks(t, p))
  BY AbortTyped DEF Tidy, Typed
<1>2. SameChips(g, h)
  BY <1>1 DEF AbortGame, Game, SameChips
<1> HIDE DEF h
<1>3. Upholds(g, h)
  BY <1>1, <1>2, SameChipsUphold
<1> QED BY <1>1, <1>3 DEF h

\* A turn the bot plays in the player's place.
LEMMA BotUpholds ==
  ASSUME NEW g, Tidy(g), NEW p \in Player, g.turn[p] # NoTurn,
         NEW turn \in BotTurns(g, p)
  PROVE  Upholds(g, BotLocks([g EXCEPT !.turn[p] = turn], p))
<1> DEFINE left == g.turn[p].rolls_left
           first == IF left = Throws THEN Throws - 1 ELSE left
           again == {n \in 0..(first - 1) : Throws - n <= ThrowCap(g, p)}
           ranks(n) == IF n = left THEN {g.turn[p].rank} ELSE Rank
           turns == [g.turn EXCEPT ![p] = turn]
           k == [g EXCEPT !.turn = turns]
           cap == IF OneThrow(k) THEN 1 ELSE IF RollsUsed(k, p) > 1 THEN RollsUsed(k, p) ELSE 1
           h == BotLocks([g EXCEPT !.turn[p] = turn], p)
<1>1. g \in Game /\ g.turn \in [Player -> Turn] /\ left \in 0..Throws /\ RanksKnown(g)
  BY DEF Tidy, Typed, Game, Turn
<1>2. PICK n \in {first} \cup again : turn \in [rolls_left : {n}, rank : ranks(n), done : {TRUE}]
  BY DEF BotTurns
<1>3. first \in 0..Throws /\ n \in 0..Throws /\ (n = left => left < Throws)
  BY <1>1, BoundsAssumption
<1>4. turn.rank \in Rank /\ turn \in Turn /\ turn.rank # 0
  <2>1. ranks(n) \subseteq Rank
    <3>1. CASE n = left
      <4>1. g.turn[p] # NewTurn
        BY <1>3, <3>1, BoundsAssumption DEF NewTurn
      <4>2. g.turn[p].rank # 0 /\ g.turn[p] \in Turn
        BY <1>1, <4>1 DEF RanksKnown
      <4> QED BY <3>1, <4>2 DEF Turn
    <3>2. CASE n # left
      BY <3>2
    <3> QED BY <3>1, <3>2
  <2> HIDE DEF ranks
  <2>2. turn.rolls_left = n /\ turn.rank \in Rank /\ turn.done = TRUE
    BY <1>2, <2>1
  <2>3. turn = [rolls_left |-> n, rank |-> turn.rank, done |-> TRUE]
    BY <1>2
  <2>4. 0 \notin Rank
    BY DiceAssumption DEF Rank
  <2> QED BY <1>3, <2>2, <2>3, <2>4 DEF Turn
<1>5. turns \in [Player -> Turn] /\ \A q \in Player : turns[q] \in {g.turn[q], turn}
  BY <1>1, <1>4
<1>6. k = [g EXCEPT !.turn[p] = turn]
  BY <1>1 DEF Game
<1> HIDE DEF turns
<1>7. Typed(k) /\ SameChips(g, k) /\ k.turn = turns
  BY <1>1, <1>4, <1>5 DEF Typed, Game, RanksKnown, SameChips
<1> HIDE DEF k
<1>8. cap \in Nat
  <2>1. k.turn[p] \in Turn
    BY <1>5, <1>7
  <2> QED BY <2>1, BoundsAssumption DEF RollsUsed, Turn
<1>9. h = k \/ h = [k EXCEPT !.max_throws = cap]
  BY <1>6 DEF BotLocks
<1> HIDE DEF cap, h
<1>10. Typed(h) /\ SameChips(g, h)
  BY <1>7, <1>8, <1>9, ZenonT(60) DEF Typed, Game, RanksKnown, SameChips, InRange
<1>11. Upholds(g, h)
  BY <1>10, SameChipsUphold
<1> QED BY <1>11 DEF h

\* A newcomer brings no chips.
LEMMA JoinGameTidy ==
  ASSUME NEW g, Tidy(g), NEW p \in Player, MayJoin(g, p)
  PROVE  LET h == JoinGame(g, p)
         IN  /\ Tidy(h) /\ Known(h) = Known(g) \cup {p} /\ Seated(g) \subseteq Seated(h)
             /\ Held(h) = Held(g) /\ (InRange(g) => InRange(h))
             /\ h.host_player_id # g.host_player_id => h.host_player_id \in Seated(h)
<1> DEFINE h == JoinGame(g, p)
           rolls == [g.initial_rolls EXCEPT ![p] = IF g.phase = "initial_roll" THEN Unrolled ELSE @]
           host == IF g.host_player_id = NoPlayer THEN p ELSE g.host_player_id
<1>1. /\ g \in Game /\ Typed(g) /\ Apart(g) /\ Typed(h)
      /\ g.players \in Seq(Player) /\ g.waiting_players \in Seq(Player)
  BY JoinGameType DEF Tidy, Typed, Game
<1>2. p \notin Members(g.players) /\ p \notin Members(g.waiting_players)
  BY DEF MayJoin, Known, Seated
<1>3. /\ Once(Append(g.players, p)) /\ Members(Append(g.players, p)) = Members(g.players) \cup {p}
      /\ Once(Append(g.waiting_players, p))
      /\ Members(Append(g.waiting_players, p)) = Members(g.waiting_players) \cup {p}
  BY <1>1, <1>2, OnceAppend DEF Apart
<1>4. CASE g.phase \in {"waiting", "initial_roll"}
  <2>1. h = [g EXCEPT !.players = Append(g.players, p), !.initial_rolls = rolls,
                      !.host_player_id = host]
    BY <1>1, <1>4 DEF JoinGame, Game
  <2> HIDE DEF h, rolls, host
  <2>2. /\ h.players = Append(g.players, p) /\ h.waiting_players = g.waiting_players
        /\ h.tokens = g.tokens /\ h.pool = g.pool /\ h.match_losses = g.match_losses
        /\ h.host_player_id = host /\ h.current_index = g.current_index
    BY <1>1, <2>1 DEF Game
  <2>3. Seated(h) = Seated(g) \cup {p} /\ Known(h) = Known(g) \cup {p}
    BY <1>3, <2>2 DEF Seated, Known
  <2>4. Apart(h)
    BY <1>1, <1>2, <1>3, <2>2, <2>3 DEF Apart, Seated
  <2>5. Held(h) = Held(g)
    <3>1. IsFiniteSet(Seated(h)) /\ Seated(h) \subseteq Player /\ Seated(g) \in SUBSET Seated(h)
      BY <1>1, <2>3, SeatedIsFinite, SeatedArePlayers DEF Typed
    <3>2. /\ \A q \in Seated(h) : g.tokens[q] \in Nat
          /\ \A q \in Seated(h) \ Seated(g) : g.tokens[q] = 0
      BY <1>1, <3>1 DEF Apart, Game
    <3>3. Total(g.tokens, Seated(h)) = Total(g.tokens, Seated(g))
      BY <3>1, <3>2, TotalOfMore
    <3> QED BY <2>2, <3>3 DEF Held
  <2>6. h.host_player_id # g.host_player_id => h.host_player_id = p
    BY <2>2 DEF host
  <2>7. InRange(g) => InRange(h)
    <3>1. Len(h.players) = Len(g.players) + 1
      BY <1>1, <2>2
    <3>2. Len(g.players) \in Nat /\ g.current_index \in Nat
      BY <1>1 DEF Game
    <3> QED BY <2>2, <3>1, <3>2 DEF InRange
  <2> QED BY <1>1, <2>3, <2>4, <2>5, <2>6, <2>7 DEF Tidy, h
<1>5. CASE g.phase \notin {"waiting", "initial_roll"}
  <2>1. h = [g EXCEPT !.waiting_players = Append(g.waiting_players, p)]
    BY <1>1, <1>5 DEF JoinGame, Game
  <2> HIDE DEF h
  <2>2. /\ h.players = g.players /\ h.waiting_players = Append(g.waiting_players, p)
        /\ h.tokens = g.tokens /\ h.pool = g.pool /\ h.match_losses = g.match_losses
        /\ h.host_player_id = g.host_player_id /\ h.current_index = g.current_index
    BY <1>1, <2>1 DEF Game
  <2>3. Seated(h) = Seated(g) /\ Known(h) = Known(g) \cup {p}
    BY <1>3, <2>2 DEF Seated, Known
  <2>4. Apart(h)
    BY <1>1, <1>2, <1>3, <2>2, <2>3 DEF Apart, Seated
  <2>5. Held(h) = Held(g)
    BY <2>2, <2>3 DEF Held
  <2> QED BY <1>1, <2>2, <2>3, <2>4, <2>5 DEF Tidy, InRange, h
<1> QED BY <1>4, <1>5

\* A departure takes the player, and its chips if it was seated.
LEMMA GoneTidy ==
  ASSUME NEW g, Tidy(g), NEW p \in Player, NEW h, Gone(g, p, h)
  PROVE  /\ Tidy(h) /\ Known(h) \subseteq Known(g) /\ Seated(g) \ {p} \subseteq Seated(h)
         /\ p \notin Seated(h)
         /\ p \in Seated(g) => p \notin Known(h)
         /\ p \notin Seated(g) => h.players = g.players /\ h.tokens = g.tokens
<1>1. /\ g \in Game /\ Apart(g) /\ g.players \in Seq(Player) /\ Once(g.players)
      /\ h \in Game /\ Typed(h)
  BY DEF Tidy, Typed, Game, Apart, Gone
<1>2. /\ Seated(h) \subseteq Seated(g) /\ Seated(g) \ {p} \subseteq Seated(h)
      /\ Once(h.players) /\ p \notin Seated(h)
  BY <1>1, WithoutLeaves DEF Gone, Seated
<1>3. Apart(h)
  BY <1>1, <1>2, SMTT(30) DEF Gone, Apart, Game
<1>4. p \in Seated(g) => p \notin Known(h)
  BY <1>1, <1>2 DEF Apart, Gone, Known
<1>5. p \notin Seated(g) => /\ h.players = g.players /\ h.tokens = g.tokens
                            /\ h.match_losses = g.match_losses
  BY <1>1 DEF Gone, Apart, Game, Without, Seated
<1>7. Known(h) \subseteq Known(g)
  BY <1>2 DEF Known, Gone
<1> QED BY <1>1, <1>2, <1>3, <1>4, <1>5, <1>7 DEF Tidy

----------------------------------------------------------------------------
(* The hand after a departure.                                             *)

\* Less than two turns of the table.
LEMMA OnceRound ==
  ASSUME NEW n \in Nat \ {0}, NEW x \in 0..(2 * n - 1)
  PROVE  x % n = IF x < n THEN x ELSE x - n
<1>1. CASE x < n
  BY <1>1
<1>2. CASE x >= n
  <2>1. x - n \in 0..(n - 1) /\ x = (x - n) + n * 1
    BY <1>2
  <2>2. \A r \in 0..(n - 1) : (r + n * 1) % n = r
    BY ModShift
  <2>3. x % n = x - n
    BY <2>1, <2>2
  <2> QED BY <1>2, <2>3
<1> QED BY <1>1, <1>2

\* Behind the player who goes, everybody moves up one seat.
LEMMA SeatsMoveUp ==
  ASSUME NEW g \in Game, Once(g.players), NEW p \in Seated(g)
  PROVE  LET n == Len(g.players)
             a == IndexOf(g, p)
             r == Without(g.players, p)
         IN  /\ a \in 0..(n - 1) /\ g.players[a + 1] = p /\ Len(r) = n - 1
             /\ \A k \in 0..(n - 2) : r[k + 1] = g.players[IF k < a THEN k + 1 ELSE k + 2]
<1> DEFINE s == g.players
           n == Len(s)
           a == IndexOf(g, p)
           S == {k \in DOMAIN s : s[k] = p}
           at == Smallest(S)
           r == Without(s, p)
           t == [k \in 1..(n - 1) |-> IF k < at THEN s[k] ELSE s[k + 1]]
<1>1. s \in Seq(Player) /\ n \in Nat /\ DOMAIN s = 1..n
  BY DEF Game
<1>2. a \in 0..(n - 1) /\ s[a + 1] = p
  <2>1. a = IndexOrZero(g, p)
    BY DEF IndexOrZero
  <2>2. a \in 0..(n - 1) /\ SeatAt(g, a) = p
    <3> HIDE DEF a
    <3> QED BY <2>1, IndexIsSeat
  <2> HIDE DEF a, n
  <2>3. a % n = a
    BY <1>1, <2>2
  <2> QED BY <2>2, <2>3 DEF SeatAt, n
<1> HIDE DEF a
<1>3. at \in S
  <2>1. a + 1 \in S /\ S \in SUBSET Nat
    BY <1>1, <1>2
  <2> HIDE DEF S
  <2> QED BY <2>1, SmallestIn
<1>4. at = a + 1
  <2>1. at \in 1..n /\ a + 1 \in 1..n /\ s[at] = s[a + 1]
    BY <1>1, <1>2, <1>3
  <2> HIDE DEF at
  <2> QED BY <1>1, <2>1 DEF Once
<1>5. r = t
  BY DEF Without, Seated
<1> HIDE DEF at, r, n
<1>6. n - 1 \in Nat
  BY <1>1, <1>2
<1>7. t \in [1..(n - 1) -> Player]
  BY <1>1, <1>2, <1>4
<1>8. Len(t) = n - 1
  <2> HIDE DEF t
  <2> QED BY <1>6, <1>7
<1>9. \A k \in 0..(n - 2) : t[k + 1] = s[IF k < a THEN k + 1 ELSE k + 2]
  BY <1>1, <1>2, <1>4
<1> HIDE DEF t, s
<1> QED BY <1>2, <1>5, <1>8, <1>9 DEF s, n, a, r

\* Counted from the index, the others keep their order: those behind the
\* player who goes are one place nearer.
LEMMA OrderStays ==
  ASSUME NEW g \in Game, Once(g.players), InRange(g), NEW p \in Seated(g),
         Len(g.players) >= 2,
         NEW h, h.players = Without(g.players, p), h.current_index = IndexAfter(g, p)
  PROVE  \E d \in 0..(Len(g.players) - 1) :
           /\ SeatAt(g, g.current_index + d) = p
           /\ \A j \in 0..(Len(g.players) - 2) :
                SeatAt(h, h.current_index + j) =
                SeatAt(g, g.current_index + (IF j < d THEN j ELSE j + 1))
<1> DEFINE n == Len(g.players)
           i == g.current_index
           a == IndexOf(g, p)
           r == Without(g.players, p)
           b == h.current_index
           d == IF a >= i THEN a - i ELSE a - i + n
           place(k) == IF k < n THEN k ELSE k - n
           seat(k) == IF k < n - 1 THEN k ELSE k - (n - 1)
<1>1. n \in Nat /\ n >= 2 /\ i \in 0..(n - 1)
  BY DEF Game, InRange
<1>2. /\ a \in 0..(n - 1) /\ g.players[a + 1] = p /\ Len(r) = n - 1
      /\ \A k \in 0..(n - 2) : r[k + 1] = g.players[IF k < a THEN k + 1 ELSE k + 2]
  BY SeatsMoveUp
<1>3. b = IF a < i THEN i - 1 ELSE IF i < n - 1 THEN i ELSE 0
  BY <1>1, <1>2 DEF IndexAfter, SeatsBefore
<1>4. h.players = r
  OBVIOUS
<1> HIDE DEF n, i, a, r, b
<1>5. b \in 0..(n - 2) /\ d \in 0..(n - 1) /\ n \in Nat \ {0} /\ n - 1 \in Nat \ {0}
  BY <1>1, <1>2, <1>3
<1>6. \A k \in 0..(2 * n - 1) : SeatAt(g, k) = g.players[place(k) + 1]
  <2> TAKE k \in 0..(2 * n - 1)
  <2>1. k % n = place(k)
    BY <1>5, OnceRound
  <2> QED BY <2>1 DEF SeatAt, n
<1>7. \A k \in 0..(2 * (n - 1) - 1) : SeatAt(h, k) = r[seat(k) + 1]
  <2> TAKE k \in 0..(2 * (n - 1) - 1)
  <2> DEFINE m == n - 1
  <2>1. k % m = seat(k)
    <3>1. \A x \in 0..(2 * m - 1) : x % m = IF x < m THEN x ELSE x - m
      <4> HIDE DEF m
      <4> QED BY <1>5, OnceRound DEF m
    <3> QED BY <3>1
  <2> QED BY <1>2, <1>4, <2>1 DEF SeatAt
<1>8. SeatAt(g, i + d) = p
  <2>1. i + d \in 0..(2 * n - 1) /\ place(i + d) = a
    BY <1>1, <1>2, <1>5
  <2> QED BY <1>2, <1>6, <2>1
<1>9. ASSUME NEW j \in 0..(n - 2)
      PROVE  SeatAt(h, b + j) = SeatAt(g, i + (IF j < d THEN j ELSE j + 1))
  <2> DEFINE x == seat(b + j)
             y == i + (IF j < d THEN j ELSE j + 1)
  <2>1. b + j \in 0..(2 * (n - 1) - 1) /\ x \in 0..(n - 2) /\ y \in 0..(2 * n - 1)
    BY <1>1, <1>5
  <2>2. place(y) + 1 = IF x < a THEN x + 1 ELSE x + 2
    BY <1>1, <1>2, <1>3, <1>5
  <2>3. SeatAt(h, b + j) = r[x + 1]
    BY <1>7, <2>1
  <2>4. SeatAt(g, y) = g.players[place(y) + 1]
    BY <1>6, <2>1
  <2> HIDE DEF place, seat, x, y
  <2>5. r[x + 1] = g.players[IF x < a THEN x + 1 ELSE x + 2]
    BY <1>2, <2>1
  <2> QED BY <2>2, <2>3, <2>4, <2>5 DEF y
<1> HIDE DEF d
<1> QED BY <1>5, <1>8, <1>9 DEF n, i, b

\* Whoever has the hand keeps it when somebody else goes.
LEMMA HandPasses ==
  ASSUME NEW g \in Game, Once(g.players), InRange(g), NEW p \in Seated(g),
         Active(g) # {}, CurrentPlayer(g) # p, NEW h \in Game,
         h.players = Without(g.players, p), GapClosed(g, p, h)
  PROVE  CurrentPlayer(h) = CurrentPlayer(g)
<1> DEFINE n == Len(g.players)
           i == g.current_index
           b == h.current_index
           c == CurrentPlayer(g)
           S == {x \in 0..(0 + n - 1) : SeatAt(g, i + x) \notin g.out_of_match}
           T == {x \in 0..(0 + Len(h.players) - 1) : SeatAt(h, b + x) \notin h.out_of_match}
           k == StepsToActive(g, 0)
<1>1. n \in Nat /\ Len(h.players) = n - 1 /\ i \in Nat /\ b \in Nat
  <2>1. Len(Without(g.players, p)) = n - 1
    BY SeatsMoveUp
  <2> QED BY <2>1 DEF Game
<1>2. c = SeatAt(g, i + k) /\ c \in Active(g) /\ k \in Nat
  BY StepsExist DEF CurrentPlayer
<1>3. k \in S /\ \A x \in S : k <= x
  <2>1. k = Smallest(S) /\ S \in SUBSET Nat
    BY <1>1 DEF StepsToActive
  <2>2. S # {}
    <3>1. PICK q \in Active(g) : TRUE
      OBVIOUS
    <3>2. PICK x \in 0..(n - 1) : SeatAt(g, i + x) = q
      BY <1>1, <3>1, SeatsReached DEF Active
    <3> QED BY <1>1, <3>1, <3>2 DEF Active
  <2> HIDE DEF S, k
  <2> QED BY <2>1, <2>2, SmallestIn
<1>4. k \in 0..(n - 1)
  BY <1>1, <1>3
<1>5. n >= 2
  <2>1. c \in Seated(g) /\ c # p
    BY <1>2 DEF Active
  <2>2. g.players \in Seq(Player)
    BY DEF Game
  <2>3. PICK x \in 1..n, y \in 1..n : g.players[x] = c /\ g.players[y] = p
    BY <2>1, <2>2 DEF Seated, Members
  <2>4. x # y
    BY <2>1, <2>3
  <2> HIDE DEF n
  <2> QED BY <1>1, <2>3, <2>4
<1>6. PICK d \in 0..(n - 1) :
        /\ SeatAt(g, i + d) = p
        /\ \A j \in 0..(n - 2) : SeatAt(h, b + j) = SeatAt(g, i + (IF j < d THEN j ELSE j + 1))
  BY <1>5, OrderStays DEF GapClosed
<1> HIDE DEF n, i, b, c, k
<1>7. k # d
  BY <1>2, <1>6 DEF c
<1> DEFINE m == IF k < d THEN k ELSE k - 1
<1>8. m \in 0..(n - 2) /\ SeatAt(h, b + m) = c
  <2>1. m \in 0..(n - 2) /\ (IF m < d THEN m ELSE m + 1) = k
    BY <1>1, <1>4, <1>6, <1>7
  <2> QED BY <1>2, <1>6, <2>1
<1>9. h.out_of_match = g.out_of_match \ {p}
  BY DEF GapClosed
<1>10. m \in T
  <2>1. c \notin h.out_of_match
    BY <1>2, <1>9 DEF Active
  <2> QED BY <1>1, <1>8, <2>1
<1>11. \A x \in T : m <= x
  <2> TAKE x \in T
  <2> DEFINE y == IF x < d THEN x ELSE x + 1
  <2>1. x \in 0..(n - 2) /\ SeatAt(h, b + x) \notin h.out_of_match
    BY <1>1
  <2>2. y \in 0..(n - 1) /\ y # d /\ SeatAt(h, b + x) = SeatAt(g, i + y)
    BY <1>1, <1>6, <2>1
  <2>3. SeatAt(g, i + y) # p
    <3>1. g.players # <<>>
      BY <1>1, <1>5 DEF n
    <3>2. \A u, v \in 0..(n - 1) : SeatAt(g, i + u) = SeatAt(g, i + v) => u = v
      <4>1. i \in Int
        BY <1>1
      <4> QED BY <3>1, <4>1, SeatsDiffer, Zenon DEF n
    <3> HIDE DEF y
    <3> QED BY <1>6, <2>2, <3>2
  <2>4. y \in S
    BY <1>1, <1>9, <2>1, <2>2, <2>3
  <2>5. k <= y
    BY <1>3, <2>4
  <2> HIDE DEF S, T
  <2> QED BY <1>1, <1>4, <1>6, <1>7, <2>1, <2>5
<1>12. StepsToActive(h, 0) = m
  <2>1. StepsToActive(h, 0) = Smallest(T) /\ T \in SUBSET Nat
    BY <1>1 DEF StepsToActive, b
  <2> HIDE DEF T, m
  <2>2. Smallest(T) \in T /\ \A x \in T : Smallest(T) <= x
    BY <1>10, <2>1, SmallestIn
  <2>3. Smallest(T) <= m /\ m <= Smallest(T) /\ Smallest(T) \in Nat /\ m \in Nat
    BY <1>10, <1>11, <2>1, <2>2
  <2> QED BY <2>1, <2>3
<1>13. Active(h) # {}
  <2>1. h.players # <<>>
    BY <1>1, <1>5
  <2>2. b + m \in Int
    BY <1>1, <1>8
  <2>3. c \in Seated(h)
    BY <1>8, <2>1, <2>2, SeatAtIsSeated
  <2> QED BY <1>2, <1>9, <2>3 DEF Active
<1> HIDE DEF m
<1> QED BY <1>8, <1>12, <1>13 DEF CurrentPlayer, b, c

----------------------------------------------------------------------------
(* Types and chips.                                                        *)

\* TypeOK is not inductive by itself: a turn that is settled must have a rank,
\* also when it was given back to its player, and whoever connects was issued
\* an id.  That the chips add up depends on who is seated (Apart), and holds in
\* every phase.
RoomInv ==
  /\ TypeOK /\ Tidy(game) /\ Timed(tasks) /\ Known(game) \subseteq used
  /\ Held(game) <= Chips /\ (SeatsKept => Held(game) = Chips)

\* The conjuncts that no step on the engine touches.
Bounded ==
  /\ holds \in [Player -> {"none", "turn", "tiebreak"}]
  /\ used \subseteq Player /\ link \subseteq used
  /\ persists \in [Afterwards -> Nat] /\ registered \in BOOLEAN /\ faults \in 0..MaxFaults

\* What the two departures without the host's or the player's doing (an admin's
\* kick and an eviction) do not keep, and every other step does.
Removals == Exits \cap {"admin", "evict"} # {}

\* Who is host stays seated or somebody seated becomes host: no step but these
\* two empties a table whose room stays open.
HostKept ==
  game.host_player_id \in Seated(game) /\ registered' =>
    \/ game'.host_player_id \in Seated(game')
    \/ Seated(game') = {} /\ Removals

\* The index stays at the table, and with the player whose hand it is.
IndexKept == InRange(game) /\ registered' => InRange(game') \/ Removals
HandKept(p) ==
  LET c == CurrentPlayer(game)
  IN  /\ game.phase \in {"charge", "decharge"} /\ c # p
      /\ \E q \in Active(game) \ {p} : ~game.turn[q].done
      => CurrentPlayer(game') = c
Orderly ==
  /\ HostKept /\ IndexKept
  /\ InRange(game) => Removals \/ \A p \in Seated(game) \ Seated(game') : HandKept(p)

\* A seat once given up is not taken again: who goes has gone for good.
GoneForGood == SeatsKept' => SeatsKept

\* What it takes to keep the invariant when nobody comes or goes.
LEMMA EngineStep ==
  ASSUME RoomInv, Upholds(game, game'), Timed(tasks'), used' = used, Bounded'
  PROVE  RoomInv' /\ Orderly /\ GoneForGood
<1>1. /\ Tidy(game') /\ Known(game') \subseteq Known(game) /\ Orderly
      /\ Held(game') \in {Held(game), Chips}
  BY DEF Upholds, Orderly, HostKept, IndexKept
<1>2. game' \in Game /\ tasks' \in TaskTable
  BY <1>1 DEF Tidy, Typed, Timed
<1>3. Known(game') \subseteq used' /\ (SeatsKept' => SeatsKept)
  BY <1>1 DEF RoomInv, SeatsKept
<1>4. Held(game') <= Chips /\ (SeatsKept' => Held(game') = Chips)
  BY <1>1, <1>3, BoundsAssumption DEF RoomInv
<1> QED BY <1>1, <1>2, <1>3, <1>4 DEF RoomInv, TypeOK, Bounded, GoneForGood

\* Who goes takes chips along, or had none.
LEMMA GoneTakes ==
  ASSUME NEW g, Tidy(g), NEW p \in Player, NEW h, Gone(g, p, h), Held(g) <= Chips
  PROVE  Held(h) <= Chips
<1>1. /\ g \in Game /\ g.tokens \in [Player -> Nat] /\ g.pool \in Nat
      /\ IsFiniteSet(Seated(g)) /\ Seated(g) \subseteq Player
  BY SeatedIsFinite, SeatedArePlayers DEF Tidy, Typed, Game
<1>2. /\ h.pool = g.pool /\ h.tokens = [g.tokens EXCEPT ![p] = 0]
      /\ Seated(g) \ {p} \subseteq Seated(h) /\ p \notin Seated(h)
  BY GoneTidy DEF Gone
<1>3. Seated(h) \subseteq Seated(g)
  BY <1>1, WithoutLeaves DEF Gone, Seated, Game
<1>4. /\ \A q \in Seated(g) : g.tokens[q] \in Nat /\ h.tokens[q] \in Nat
      /\ \A q \in Seated(g) \ {p} : h.tokens[q] = g.tokens[q]
      /\ \A q \in Seated(g) \ Seated(h) : h.tokens[q] = 0
  BY <1>1, <1>2
<1>5. Total(h.tokens, Seated(g)) = Total(h.tokens, Seated(h))
  BY <1>1, <1>3, <1>4, TotalOfMore
<1>6. Total(g.tokens, Seated(g)) \in Nat
  BY <1>1, <1>4, TotalIsNat
<1>7. CASE p \in Seated(g)
  <2>1. Total(h.tokens, Seated(g)) = Total(g.tokens, Seated(g)) + h.tokens[p] - g.tokens[p]
    BY <1>1, <1>4, <1>7, TotalMoves
  <2>2. h.tokens[p] = 0 /\ g.tokens[p] \in Nat
    BY <1>1, <1>2
  <2> QED BY <1>1, <1>2, <1>5, <1>6, <2>1, <2>2, BoundsAssumption DEF Held
<1>8. CASE p \notin Seated(g)
  <2>1. h.players = g.players /\ h.tokens = g.tokens
    BY <1>8, GoneTidy
  <2> QED BY <1>2, <2>1 DEF Held, Seated
<1> QED BY <1>7, <1>8

\* And when somebody goes.
LEMMA GoneStep ==
  ASSUME RoomInv, NEW p \in Player, NEW h, Gone(game, p, h), Upholds(h, game'),
         Timed(tasks'), used' = used, Bounded'
  PROVE  RoomInv' /\ GoneForGood
<1>1. /\ Tidy(h) /\ Known(h) \subseteq Known(game)
      /\ p \in Seated(game) => p \notin Known(h)
      /\ p \notin Seated(game) => h.players = game.players /\ h.tokens = game.tokens
  BY GoneTidy DEF RoomInv
<1>2. Tidy(game') /\ Known(game') \subseteq Known(h) /\ Held(game') \in {Held(h), Chips}
  BY DEF Upholds
<1>3. game' \in Game /\ tasks' \in TaskTable
  BY <1>2 DEF Tidy, Typed, Timed
<1>4. Known(game') \subseteq used' /\ (SeatsKept' => SeatsKept)
  BY <1>1, <1>2 DEF RoomInv, SeatsKept
<1>5. SeatsKept' => Held(game') = Chips
  <2>1. CASE p \in Seated(game)
    <3>1. p \in used' /\ p \notin Known(game')
      BY <1>1, <1>2, <2>1 DEF RoomInv, Known
    <3> QED BY <3>1 DEF SeatsKept
  <2>2. CASE p \notin Seated(game)
    <3>2. h.players = game.players /\ h.tokens = game.tokens /\ h.pool = game.pool
      BY <1>1, <2>2 DEF Gone
    <3>3. Held(h) = Held(game)
      BY <3>2 DEF Held, Seated
    <3> QED BY <1>2, <1>4, <3>3 DEF RoomInv
  <2> QED BY <2>1, <2>2
<1>6. Held(game') <= Chips
  BY <1>2, GoneTakes, BoundsAssumption DEF RoomInv
<1> QED BY <1>2, <1>3, <1>4, <1>5, <1>6 DEF RoomInv, TypeOK, Bounded, GoneForGood

\* The host's role is passed on when the host goes.
LEMMA RolePasses ==
  ASSUME Tidy(game), NEW p \in Player, NEW k, Gone(game, p, k),
         k.host_player_id = game.host_player_id, game.host_player_id \in Seated(game),
         NEW h \in HostMigrations(k, p)
  PROVE  h.host_player_id \in Seated(h) \/ Seated(h) = {}
<1>1. Seated(game) \ {p} \subseteq Seated(k)
  BY GoneTidy
  \* The host is somebody else, or nobody is left, or the role passes on.
<1>2. CASE k.host_player_id = p /\ k.players # <<>>
  BY <1>2, HostMigrationsGone
<1>3. CASE k.host_player_id # p
  BY <1>1, <1>3, HostMigrationsGone
<1>4. CASE k.players = <<>>
  <2>1. Seated(k) = {}
    BY <1>4 DEF Seated, Members
  <2> QED BY <2>1, HostMigrationsGone
<1> QED BY <1>2, <1>3, <1>4

\* The end of a handler.
LEMMA ConcludeStep ==
  ASSUME RoomInv, NEW g, NEW h, Typed(h), NEW t, Timed(t), NEW then \in Afterwards,
         Conclude(g, h, t, then, NoPlayer)
  PROVE  game' = h /\ Timed(tasks') /\ persists' \in [Afterwards -> Nat]
<1>1. game' = h
  BY DEF Conclude
<1>2. Timed(ScheduleAfk(h, t, NoPlayer))
  BY ScheduleAfkTimed DEF Typed
<1>3. persists \in [Afterwards -> Nat]
  BY DEF RoomInv, TypeOK
<1>4. CASE EndsPartie(g, h)
  BY <1>3, <1>4 DEF Conclude
<1>5. CASE ~EndsPartie(g, h)
  BY <1>2, <1>3, <1>5 DEF Conclude
<1> QED BY <1>1, <1>4, <1>5

\* A new room is in order.
LEMMA InitRoom ==
  ASSUME Init
  PROVE  RoomInv
<1>1. PICK rule \in {"sec", "free"} : game = NewGame(rule)
  BY DEF Init
<1>2. Typed(game) /\ Timed(tasks)
  BY <1>1, NewGameType, NoTasksTimed DEF Init
<1>3. /\ game.players = <<>> /\ game.waiting_players = <<>> /\ game.pool = Chips
      /\ \A p \in Player : game.tokens[p] = 0 /\ game.match_losses[p] = 0
  BY <1>1 DEF NewGame
<1>4. Seated(game) = {} /\ Members(game.waiting_players) = {}
  BY <1>3 DEF Seated, Members
<1>5. Apart(game)
  BY <1>3, <1>4 DEF Apart, Once
<1>6. Total(game.tokens, {}) = 0
  BY FS_EmptySet, TotalOfZeros
<1>7. Held(game) = Chips
  BY <1>3, <1>4, <1>6, BoundsAssumption DEF Held
<1>8. Bounded
  BY RoomAssumption DEF Init, Bounded, Afterwards
<1> QED BY <1>2, <1>4, <1>5, <1>7, <1>8, BoundsAssumption
        DEF RoomInv, TypeOK, Bounded, Tidy, Typed, Timed, Known

\* What leave and kick do once the player is gone.
LEMMA SettleDepartureStep ==
  ASSUME RoomInv, NEW p \in Player, NEW g, Tidy(g), SettleDeparture(g, p)
  PROVE  Upholds(g, game') /\ Timed(tasks') /\ persists' \in [Afterwards -> Nat]
<1>1. Timed(CancelAfk(tasks, p)) /\ g \in Game /\ persists \in [Afterwards -> Nat]
  BY CancelAfkTimed DEF RoomInv, TypeOK, Tidy, Typed
<1>2. CASE AllDone(g)
  <2>1. Conclude(g, ResolveRound(g), CancelAfk(tasks, p), "nothing", NoPlayer)
    BY <1>2 DEF SettleDeparture
  <2>2. Upholds(g, ResolveRound(g)) /\ Typed(ResolveRound(g)) /\ "nothing" \in Afterwards
    BY <1>2, ResolveRoundUpholds DEF Upholds, Tidy, Afterwards
  <2> QED BY <1>1, <2>1, <2>2, ConcludeStep
<1>3. CASE ~AllDone(g)
  <2>1. /\ game' = g /\ tasks' = ScheduleAfk(g, CancelAfk(tasks, p), NoPlayer)
        /\ persists' = persists
    BY <1>3 DEF SettleDeparture
  <2> QED BY <1>1, <2>1, ScheduleAfkTimed DEF Upholds
<1> QED BY <1>2, <1>3

\* The bot's turn and the snapshot it keeps.
LEMMA BotPlaysStep ==
  ASSUME RoomInv, NEW p \in Player, game.turn[p] # NoTurn, BotPlays(p)
  PROVE  Upholds(game, game') /\ Timed(tasks')
<1>1. PICK turn \in BotTurns(game, p) : game' = BotLocks([game EXCEPT !.turn[p] = turn], p)
  BY DEF BotPlays
<1>2. Upholds(game, game')
  BY <1>1, BotUpholds DEF RoomInv
<1> DEFINE snap == [turn |-> game.turn[p],
                    cap |-> IF p = game.round_starter_id THEN game.max_throws ELSE 0]
           t == [tasks EXCEPT !.afk[p] = "played"]
<1>3. snap \in Snapshot /\ Ranked(snap.turn)
  BY DEF RoomInv, Tidy, Typed, Game, Snapshot, RanksKnown, Ranked
<1>4. Timed(t)
  BY AfkWritten DEF RoomInv, Tasked, AfkTask
<1>5. tasks' = [t EXCEPT !.snap[p] = snap]
  BY DEF BotPlays, RoomInv, Timed, TaskTable
<1> HIDE DEF snap, t
<1>6. Timed(tasks')
  BY <1>3, <1>4, <1>5, SnapWritten
<1> QED BY <1>2, <1>6

\* What the sleeping handlers and the timer tasks do keeps the invariant.
LEMMA DueRoom ==
  ASSUME RoomInv, Due
  PROVE  RoomInv' /\ Orderly /\ GoneForGood
<1>1. Bounded /\ Tidy(game) /\ Timed(tasks)
  BY DEF RoomInv, TypeOK, Bounded
<1>2. \A p \in Player : Timed(Fired(p))
  BY <1>1, AfkWritten DEF Fired, Tasked, AfkTask
<1>3. ASSUME Upholds(game, game'), Timed(tasks'), UNCHANGED <<holds, used, link, registered>>,
             faults' \in 0..MaxFaults, persists' \in [Afterwards -> Nat]
      PROVE  RoomInv' /\ Orderly /\ GoneForGood
  BY <1>1, <1>3, EngineStep DEF Bounded
<1>4. Upholds(game, game)
  BY <1>1 DEF Upholds
<1>5. CASE Dissolve
  <2>1. Upholds(game, game') /\ Timed(tasks') /\ used' = used /\ Bounded'
    BY <1>1, <1>4, <1>5 DEF Dissolve, Bounded
  <2> QED BY <2>1, EngineStep
<1>6. ASSUME NEW then \in Afterwards, ResumePartie(then)
      PROVE  RoomInv' /\ Orderly /\ GoneForGood
  <2>1. game' = StartNewPartie(game) /\ Upholds(game, game')
    BY <1>1, <1>6, StartNewPartieUpholds DEF ResumePartie
  <2>2. Timed(tasks')
    BY <1>1, <1>6, <2>1, ScheduleAfkTimed DEF ResumePartie, Upholds, Tidy, Typed
  <2>3. persists' \in [Afterwards -> Nat]
    BY <1>1, <1>6 DEF ResumePartie, Bounded
  <2> QED BY <1>1, <1>3, <1>6, <2>1, <2>2, <2>3 DEF ResumePartie, Bounded
<1> SUFFICES ASSUME NEW p \in Player, Timer(p) \/ Wake(p) \/ FinalizeBot(p)
             PROVE  RoomInv' /\ Orderly /\ GoneForGood
  BY <1>5, <1>6 DEF Due
<1>7. CASE AfkInitial(p)
  <2>1. CASE game.phase = "initial_roll" /\ p \in ToRoll(game)
    <3>1. PICK d \in Die : game' \in RollInitial(game, p, d)
      BY <1>7, <2>1 DEF AfkInitial
    <3>2. Upholds(game, game')
      BY <1>1, <3>1, RollInitialUpholds
    <3>3. Timed(tasks')
      BY <1>2, <1>7, <2>1, <3>2, ScheduleAfkTimed DEF AfkInitial, Upholds, Tidy, Typed
    <3> QED BY <1>1, <1>3, <1>7, <3>2, <3>3 DEF AfkInitial, Bounded
  <2>2. CASE ~(game.phase = "initial_roll" /\ p \in ToRoll(game))
    BY <1>1, <1>2, <1>3, <1>4, <1>7, <2>2 DEF AfkInitial, Bounded
  <2> QED BY <2>1, <2>2
<1>8. CASE AfkTiebreak(p)
  <2>1. CASE MayThrowTiebreak(game, p) /\ p \in Seated(game)
    <3>1. PICK r \in Rank :
            LET g == ThrowTiebreak(game, p, r)
                last == g.tiebreak.next_pid = NoPlayer
                h == IF last THEN ResolveTiebreak(g) ELSE g
            IN  /\ game' = h
                /\ tasks' = IF last /\ TiebreakRaises(g) THEN Fired(p)
                            ELSE IF EndsPartie(g, h) THEN [tasks EXCEPT !.afk[p] = "persisting"]
                            ELSE ScheduleAfk(h, Fired(p), NoPlayer)
      BY <1>8, <2>1 DEF AfkTiebreak
    <3> DEFINE g == ThrowTiebreak(game, p, r)
    <3>2. Upholds(game, g)
      BY <1>1, ThrowsUphold
    <3> HIDE DEF g
    <3>3. game' \in {g, ResolveTiebreak(g)}
      BY <3>1 DEF g
    <3>4. Upholds(g, g) /\ Upholds(g, ResolveTiebreak(g))
      BY <3>2, ResolveTiebreakUpholds DEF Upholds
    <3>5. Upholds(game, game')
      BY <3>2, <3>3, <3>4, UpholdsBoth
    <3>6. tasks' \in {Fired(p), [tasks EXCEPT !.afk[p] = "persisting"],
                      ScheduleAfk(game', Fired(p), NoPlayer)}
      BY <3>1
    <3>7. Timed([tasks EXCEPT !.afk[p] = "persisting"])
      BY <1>1, AfkWritten DEF Tasked, AfkTask
    <3>8. Timed(ScheduleAfk(game', Fired(p), NoPlayer))
      BY <1>2, <3>5, ScheduleAfkTimed DEF Upholds, Tidy, Typed
    <3>9. Timed(tasks')
      BY <1>2, <3>6, <3>7, <3>8
    <3> QED BY <1>1, <1>3, <1>8, <3>5, <3>9 DEF AfkTiebreak, Bounded
  <2>2. CASE ~(MayThrowTiebreak(game, p) /\ p \in Seated(game))
    BY <1>1, <1>2, <1>3, <1>4, <1>8, <2>2 DEF AfkTiebreak, Bounded
  <2> QED BY <2>1, <2>2
<1>9. CASE AfkPartie(p)
  <2>1. game' = StartNewPartie(game) /\ Upholds(game, game')
    BY <1>1, <1>9, StartNewPartieUpholds DEF AfkPartie
  <2>2. Timed(tasks')
    BY <1>2, <1>9, <2>1, ScheduleAfkTimed DEF AfkPartie, Upholds, Tidy, Typed
  <2> QED BY <1>1, <1>3, <1>9, <2>1, <2>2 DEF AfkPartie, Bounded
<1>10. CASE AfkTurn(p)
  <2>1. \A afk \in Tasked : Timed([tasks EXCEPT !.afk[p] = afk])
    BY <1>1, AfkWritten
  <2>2. faults' \in 0..MaxFaults
    BY <1>1, <1>10, RoomAssumption DEF AfkTurn, Departs, Bounded
  <2>3. Upholds(game, game') /\ Timed(tasks')
    BY <1>2, <1>4, <1>10, <2>1, BotPlaysStep DEF AfkTurn, Departs, Tasked, AfkTask
  <2> QED BY <1>1, <1>3, <1>10, <2>2, <2>3 DEF AfkTurn, Bounded
<1>11. CASE AfkWarned(p)
  <2>1. Upholds(game, game') /\ Timed(tasks')
    BY <1>2, <1>4, <1>11, BotPlaysStep DEF AfkWarned
  <2> QED BY <1>1, <1>3, <1>11, <2>1 DEF AfkWarned, Bounded
<1>12. CASE AfkEvict(p)
  <2> DEFINE k == Unseat(game, p)
  <2>1. Gone(game, p, k) /\ k.host_player_id = game.host_player_id
    BY <1>1, UnseatGone DEF Tidy
  <2> HIDE DEF k
  <2>2. game' \in HostMigrations(k, p)
    BY <1>12 DEF AfkEvict, k
  <2>3. Gone(game, p, game')
    BY <2>1, <2>2, HostMigrationsGone
  <2>4. Upholds(game', game')
    BY <1>1, <2>3, GoneTidy DEF Upholds
  <2>5. Timed(tasks') /\ used' = used /\ Bounded'
    BY <1>1, <1>2, <1>12 DEF AfkEvict, Bounded
  <2>6. "evict" \in Exits
    BY <1>1, <1>12 DEF AfkEvict, Timed, Tasked
  <2>7. Orderly
    BY <1>1, <2>1, <2>2, <2>6, RolePasses DEF Orderly, HostKept, IndexKept, Removals
  <2> QED BY <2>3, <2>4, <2>5, <2>7, GoneStep
<1>13. CASE AfkHandoff(p)
  <2> DEFINE t == [tasks EXCEPT !.afk[p] = "none"]
  <2>1. Timed(t)
    BY <1>1, AfkWritten DEF Tasked, AfkTask
  <2>2. tasks' = [t EXCEPT !.final[p] = "tracked"]
    BY <1>1, <1>13 DEF AfkHandoff, Timed, TaskTable
  <2> HIDE DEF t
  <2>3. Timed(tasks')
    BY <2>1, <2>2, FinalWritten
  <2> QED BY <1>1, <1>3, <1>4, <1>13, <2>3 DEF AfkHandoff, Bounded
<1>14. CASE ResumeTurn(p)
  <2>1. Conclude(game, EndTurn(game), tasks, "schedule", NoPlayer)
    BY <1>14 DEF ResumeTurn
  <2>2. Upholds(game, EndTurn(game)) /\ Typed(EndTurn(game)) /\ "schedule" \in Afterwards
    BY <1>1, EndTurnUpholds DEF Upholds, Tidy, Afterwards
  <2>3. game' = EndTurn(game) /\ Timed(tasks') /\ persists' \in [Afterwards -> Nat]
    BY <1>1, <2>1, <2>2, ConcludeStep
  <2>4. Bounded' /\ used' = used
    BY <1>1, <1>14, <2>3 DEF ResumeTurn, Bounded
  <2> QED BY <2>2, <2>3, <2>4, EngineStep
<1>15. CASE ResumeTiebreak(p)
  <2>1. Upholds(game, game') /\ Timed(tasks') /\ persists' \in [Afterwards -> Nat]
    <3>1. CASE TiebreakRaises(game)
      BY <1>1, <1>4, <1>15, <3>1 DEF ResumeTiebreak, Bounded
    <3>2. CASE ~TiebreakRaises(game)
      <4>1. Conclude(game, ResolveTiebreak(game), tasks, "schedule", NoPlayer)
        BY <1>15, <3>2 DEF ResumeTiebreak
      <4>2. /\ Upholds(game, ResolveTiebreak(game)) /\ Typed(ResolveTiebreak(game))
            /\ "schedule" \in Afterwards
        BY <1>1, ResolveTiebreakUpholds DEF Upholds, Tidy, Afterwards
      <4> QED BY <1>1, <4>1, <4>2, ConcludeStep
    <3> QED BY <3>1, <3>2
  <2>2. Bounded' /\ used' = used
    BY <1>1, <1>15, <2>1 DEF ResumeTiebreak, Bounded
  <2> QED BY <2>1, <2>2, EngineStep
<1>16. CASE FinalizeBot(p)
  <2> DEFINE u == [tasks EXCEPT !.final[p] = "none"]
             t == [tasks EXCEPT !.final[p] = "none", !.snap[p] = NoSnapshot]
  <2>1. Timed(u)
    BY <1>1, FinalWritten
  <2>2. t = [u EXCEPT !.snap[p] = NoSnapshot]
    BY <1>1 DEF Timed, TaskTable
  <2>3. Conclude(game, EndTurn(game), t, "schedule", NoPlayer)
    BY <1>16 DEF FinalizeBot
  <2> HIDE DEF t, u
  <2>4. Timed(t)
    BY <2>1, <2>2, SnapWritten, SnapshotTypes
  <2>5. Upholds(game, EndTurn(game)) /\ Typed(EndTurn(game)) /\ "schedule" \in Afterwards
    BY <1>1, EndTurnUpholds DEF Upholds, Tidy, Afterwards
  <2>6. game' = EndTurn(game) /\ Timed(tasks') /\ persists' \in [Afterwards -> Nat]
    BY <1>1, <2>3, <2>4, <2>5, ConcludeStep
  <2> QED BY <1>1, <1>3, <1>16, <2>5, <2>6 DEF FinalizeBot, Bounded
<1> QED BY <1>7, <1>8, <1>9, <1>10, <1>11, <1>12, <1>13, <1>14, <1>15, <1>16 DEF Timer, Wake

\* A player whose turn the bot plays takes it back before it acts.
LEMMA Reclaimed ==
  ASSUME RoomInv, NEW p \in Player
  PROVE  Upholds(game, GameFor(p)) /\ Tidy(GameFor(p)) /\ Timed(TasksFor(p))
<1>1. Upholds(game, GameFor(p)) /\ Timed(TasksFor(p))
  BY AbortUpholds, ThrowsUphold DEF RoomInv, GameFor, TasksFor
<1> QED BY <1>1 DEF Upholds

\* What the messages of a player do to the engine keeps the invariant.
LEMMA PlayRoom ==
  ASSUME RoomInv, NEW p \in Player,
         \/ Start(p) \/ InitialRoll(p) \/ Roll(p) \/ Keep(p) \/ Done(p)
         \/ TiebreakRoll(p) \/ Reclaim(p) \/ UpdateRoomRules(p)
  PROVE  RoomInv' /\ Orderly /\ GoneForGood
<1> DEFINE g == GameFor(p)
           t == CancelAfk(TasksFor(p), p)
<1>1. Bounded /\ Tidy(game) /\ Timed(tasks)
  BY DEF RoomInv, TypeOK, Bounded
<1>2. Upholds(game, g) /\ Tidy(g) /\ Timed(TasksFor(p)) /\ Timed(t)
  BY Reclaimed, CancelAfkTimed
<1>3. ASSUME Upholds(game, game'), Timed(tasks'),
             UNCHANGED <<used, link, persists, registered, faults>>,
             holds' \in [Player -> {"none", "turn", "tiebreak"}]
      PROVE  RoomInv' /\ Orderly /\ GoneForGood
  BY <1>1, <1>3, EngineStep DEF Bounded
<1>4. /\ holds \in [Player -> {"none", "turn", "tiebreak"}]
      /\ [holds EXCEPT ![p] = "turn"] \in [Player -> {"none", "turn", "tiebreak"}]
      /\ [holds EXCEPT ![p] = "tiebreak"] \in [Player -> {"none", "turn", "tiebreak"}]
  BY <1>1 DEF Bounded
<1>5. ASSUME NEW h, Upholds(game, h), NEW u, Timed(u)
      PROVE  Timed(ScheduleAfk(h, u, NoPlayer))
  BY <1>5, ScheduleAfkTimed DEF Upholds, Tidy, Typed
<1>6. CASE Start(p)
  <2>1. game' = StartInitialRoll(game) /\ Upholds(game, game')
    BY <1>1, <1>6, ThrowsUphold DEF Start
  <2> QED BY <1>1, <1>3, <1>4, <1>5, <1>6, <2>1 DEF Start
<1>7. CASE InitialRoll(p)
  <2>1. PICK d \in Die : game' \in RollInitial(game, p, d)
    BY <1>7 DEF InitialRoll
  <2>2. Upholds(game, game') /\ Timed(CancelAfk(tasks, p))
    BY <1>1, <2>1, RollInitialUpholds, CancelAfkTimed
  <2> QED BY <1>3, <1>4, <1>5, <1>7, <2>2 DEF InitialRoll
<1>8. CASE Roll(p)
  <2> HIDE DEF g, t
  <2>1. PICK r \in Rank : game' = Throw(g, p, r)
    BY <1>8 DEF Roll, g
  <2>2. MayRoll(g, p)
    BY <1>8 DEF Roll, g
  <2>3. Upholds(game, game')
    BY <1>2, <2>1, <2>2, ThrowsUphold, UpholdsBoth
  <2>4. tasks' \in {t, ScheduleAfk(game', t, NoPlayer)}
    BY <1>8 DEF Roll, t
  <2>5. Timed(tasks')
    BY <1>2, <1>5, <2>3, <2>4
  <2>6. holds' \in {holds, [holds EXCEPT ![p] = "turn"]}
    BY <1>8 DEF Roll
  <2> QED BY <1>3, <1>4, <1>8, <2>3, <2>5, <2>6 DEF Roll
<1>9. CASE Keep(p)
  <2>1. game' = g /\ tasks' = ScheduleAfk(g, t, NoPlayer)
    BY <1>9 DEF Keep
  <2> HIDE DEF g, t
  <2>2. Upholds(game, game') /\ Timed(tasks')
    BY <1>2, <1>5, <2>1
  <2> QED BY <1>3, <1>4, <1>9, <2>2 DEF Keep
<1>10. CASE Done(p)
  <2>1. game' = Validate(g, p) /\ MayValidate(g, p) /\ tasks' = t
    BY <1>10 DEF Done
  <2> HIDE DEF g, t
  <2>2. Upholds(game, game') /\ Timed(tasks')
    BY <1>2, <2>1, ThrowsUphold, UpholdsBoth
  <2> QED BY <1>3, <1>4, <1>10, <2>2 DEF Done
<1>11. CASE TiebreakRoll(p)
  <2> HIDE DEF g, t
  <2>1. PICK r \in Rank : game' = ThrowTiebreak(g, p, r)
    BY <1>11 DEF TiebreakRoll, g
  <2>2. Upholds(game, game')
    BY <1>2, <2>1, ThrowsUphold, UpholdsBoth
  <2>3. tasks' \in {t, ScheduleAfk(game', t, NoPlayer)}
    BY <1>11 DEF TiebreakRoll, t
  <2>4. Timed(tasks')
    BY <1>2, <1>5, <2>2, <2>3
  <2>5. holds' \in {holds, [holds EXCEPT ![p] = "tiebreak"]}
    BY <1>11 DEF TiebreakRoll
  <2> QED BY <1>3, <1>4, <1>11, <2>2, <2>4, <2>5 DEF TiebreakRoll
<1>12. CASE Reclaim(p)
  BY <1>2, <1>3, <1>4, <1>12 DEF Reclaim
<1>13. CASE UpdateRoomRules(p)
  <2>1. PICK rule \in RuleChoices : game' = QueueRule(game, rule)
    BY <1>13 DEF UpdateRoomRules
  <2>2. Upholds(game, game')
    BY <1>1, <2>1, ThrowsUphold
  <2> QED BY <1>1, <1>3, <1>4, <1>13, <2>2 DEF UpdateRoomRules
<1> QED BY <1>6, <1>7, <1>8, <1>9, <1>10, <1>11, <1>12, <1>13

\* Who comes and goes keeps the invariant: chips may leave the table, but only
\* with a player who was issued an id and is no longer known.
LEMMA TrafficRoom ==
  ASSUME RoomInv, NEW p \in Player,
         \/ Join(p) \/ Connect(p) \/ Disconnect(p) \/ Leave(p) \/ AdminKick(p)
         \/ \E host \in Player : Kick(host, p)
  PROVE  RoomInv' /\ Orderly /\ GoneForGood
<1>1. Bounded /\ Tidy(game) /\ Timed(tasks) /\ Timed(CancelAfk(tasks, p))
  BY CancelAfkTimed DEF RoomInv, TypeOK, Bounded
<1>2. \A kind : Departs(kind) => faults' \in 0..MaxFaults
  BY <1>1, RoomAssumption DEF Bounded, Departs
<1>3. CASE Join(p)
  <2>1. MayJoin(game, p) /\ game' = JoinGame(game, p)
    BY <1>3 DEF Join
  <2>2. /\ Tidy(game') /\ Known(game') = Known(game) \cup {p}
        /\ Held(game') = Held(game)
        /\ Orderly
    BY <1>1, <2>1, JoinGameTidy DEF Orderly, HostKept, IndexKept
  <2>3. /\ used' = used \cup {p} /\ link' = link \cup {p} /\ tasks' = tasks /\ Bounded'
        /\ p \notin used
    BY <1>1, <1>3 DEF Join, Bounded
  <2>4. Known(game') \subseteq used' /\ (SeatsKept' => SeatsKept)
    BY <2>2, <2>3 DEF RoomInv, SeatsKept
  <2>5. game' \in Game /\ tasks' \in TaskTable
    BY <1>1, <2>2, <2>3 DEF Tidy, Typed, Timed
  <2> QED BY <1>1, <2>2, <2>3, <2>4, <2>5 DEF RoomInv, TypeOK, Bounded, GoneForGood
<1>4. CASE Connect(p)
  <2>1. Upholds(game, game') /\ Timed(tasks')
    BY <1>1, <1>4, AbortUpholds DEF Connect
  <2>2. link' \subseteq used
    BY <1>1, <1>4 DEF Connect, Bounded, RoomInv
  <2>3. Bounded' /\ used' = used
    BY <1>1, <1>4, <2>2 DEF Connect, Bounded
  <2> QED BY <2>1, <2>3, EngineStep
<1>5. CASE Disconnect(p)
  <2>1. Upholds(game, game') /\ Timed(tasks')
    BY <1>1, <1>5 DEF Disconnect, Upholds
  <2>2. Bounded' /\ used' = used
    BY <1>1, <1>2, <1>5 DEF Disconnect, Bounded
  <2> QED BY <2>1, <2>2, EngineStep
<1>6. ASSUME CloseRoom(p), UNCHANGED <<holds, used>>, link' \subseteq link,
             faults' \in 0..MaxFaults, Seated(game) \subseteq {p} \/ game.phase = "waiting"
      PROVE  RoomInv' /\ Orderly /\ GoneForGood
  <2>1. Gone(game, p, game')
    BY <1>1, <1>6, UnseatGone DEF CloseRoom, Tidy
  <2>2. Upholds(game', game')
    BY <1>1, <2>1, GoneTidy DEF Upholds
  <2>3. Timed(tasks') /\ used' = used /\ Bounded'
    BY <1>1, <1>6 DEF CloseRoom, Bounded
  <2>4. HostKept /\ IndexKept
    BY <1>6 DEF CloseRoom, HostKept, IndexKept
  <2>5. \A q \in Seated(game) \ Seated(game') : HandKept(q)
    <3> SUFFICES ASSUME NEW q \in Seated(game) \ Seated(game')
                 PROVE  HandKept(q)
      OBVIOUS
    <3>1. q = p
      BY <1>1, <2>1, GoneTidy
    <3> QED BY <1>6, <3>1 DEF HandKept, Active
  <2>6. Orderly
    BY <2>4, <2>5 DEF Orderly
  <2> QED BY <2>1, <2>2, <2>3, <2>6, GoneStep
<1>7. ASSUME NEW h, Gone(game, p, h), GapClosed(game, p, h), SettleDeparture(h, p),
             game.host_player_id \in Seated(game) => h.host_player_id \in Seated(h),
             UNCHANGED <<holds, used, registered>>, link' \subseteq link,
             faults' \in 0..MaxFaults
      PROVE  RoomInv' /\ Orderly /\ GoneForGood
  <2>1. Tidy(h)
    BY <1>1, <1>7, GoneTidy
  <2>2. Upholds(h, game') /\ Timed(tasks') /\ persists' \in [Afterwards -> Nat]
    BY <1>7, <2>1, SettleDepartureStep
  <2>3. Bounded' /\ used' = used
    BY <1>1, <1>7, <2>2 DEF Bounded
  <2>4. HostKept
    BY <1>7, <2>2 DEF HostKept, Upholds
  <2>5. IndexKept
    <3>1. h.players = Without(game.players, p) /\ h.current_index = IndexAfter(game, p)
      BY <1>7 DEF Gone, GapClosed
    <3>2. InRange(h)
      BY <3>1 DEF InRange, IndexAfter
    <3> QED BY <2>2, <3>2 DEF IndexKept, Upholds
  <2>6. ASSUME InRange(game), NEW q \in Seated(game) \ Seated(game')
        PROVE  HandKept(q)
    <3>1. Seated(game) \ {p} \subseteq Seated(h) /\ q = p /\ Seated(game) \subseteq Player
      BY <1>1, <1>7, <2>2, <2>6, GoneTidy, SeatedArePlayers DEF Upholds, Tidy, Typed
    <3> SUFFICES ASSUME CurrentPlayer(game) # p, NEW r \in Active(game) \ {p}, ~game.turn[r].done
                 PROVE  CurrentPlayer(game') = CurrentPlayer(game)
      BY <3>1 DEF HandKept
    <3>2. r \in Seated(h) /\ r \notin h.out_of_match /\ ~h.turn[r].done
      BY <1>7, <3>1 DEF Active, GapClosed
    <3>3. game' = h
      BY <1>7, <3>2 DEF SettleDeparture, AllDone
    <3>4. h \in Game /\ h.players = Without(game.players, p) /\ game \in Game /\ Once(game.players)
      BY <1>1, <1>7, <2>1 DEF Gone, Tidy, Typed, Apart
    <3> QED BY <1>7, <2>6, <3>1, <3>3, <3>4, HandPasses
  <2>7. Orderly
    BY <2>4, <2>5, <2>6 DEF Orderly
  <2> QED BY <1>7, <2>2, <2>3, <2>7, GoneStep
<1>8. CASE Leave(p)
  <2>1. CASE Seated(game) \subseteq {p} \/ (p = game.host_player_id /\ game.phase = "waiting")
    BY <1>2, <1>6, <1>8, <2>1 DEF Leave
  <2>2. CASE ~(Seated(game) \subseteq {p} \/ (p = game.host_player_id /\ game.phase = "waiting"))
    <3> DEFINE k == CloseGap(game, p)
    <3>1. /\ Gone(game, p, k) /\ k.host_player_id = game.host_player_id
          /\ GapClosed(game, p, k)
      BY <1>1, <2>2, CloseGapGone DEF Tidy
    <3> HIDE DEF k
    <3>2. PICK h \in HostMigrations(k, p) : SettleDeparture(h, p)
      BY <1>8, <2>2 DEF Leave, k
    <3>3. Gone(game, p, h) /\ GapClosed(game, p, h)
      BY <3>1, <3>2, HostMigrationsGone DEF GapClosed
    <3>4. Seated(h) # {}
      BY <1>1, <2>2, <3>3, GoneTidy
    <3>5. game.host_player_id \in Seated(game) => h.host_player_id \in Seated(h)
      BY <1>1, <3>1, <3>4, RolePasses
    <3> QED BY <1>2, <1>7, <1>8, <2>2, <3>2, <3>3, <3>5 DEF Leave
  <2> QED BY <2>1, <2>2
<1>9. ASSUME NEW host \in Player, Kick(host, p)
      PROVE  RoomInv' /\ Orderly /\ GoneForGood
  <2>1. CASE Seated(game) = {p}
    BY <1>2, <1>6, <1>9, <2>1 DEF Kick
  <2>2. CASE Seated(game) # {p}
    <3> DEFINE k == CloseGap(game, p)
    <3>1. ~(Seated(game) \subseteq {p})
      BY <1>9, <2>2 DEF Kick
    <3>2. /\ Gone(game, p, k) /\ k.host_player_id = game.host_player_id
          /\ GapClosed(game, p, k)
      BY <1>1, <3>1, CloseGapGone DEF Tidy
    <3> HIDE DEF k
    <3>3. game.host_player_id \in Seated(game) => k.host_player_id \in Seated(k)
      BY <1>1, <1>9, <3>2, GoneTidy DEF Kick
    <3> QED BY <1>2, <1>7, <1>9, <2>2, <3>2, <3>3 DEF Kick, k
  <2> QED BY <2>1, <2>2
<1>10. CASE AdminKick(p)
  <2> DEFINE k == Unseat(game, p)
  <2>1. Gone(game, p, k) /\ k.host_player_id = game.host_player_id
    BY <1>1, UnseatGone DEF Tidy
  <2> HIDE DEF k
  <2>2. game' \in HostMigrations(k, p)
    BY <1>10 DEF AdminKick, k
  <2>3. Gone(game, p, game')
    BY <2>1, <2>2, HostMigrationsGone
  <2>4. Upholds(game', game')
    BY <1>1, <2>3, GoneTidy DEF Upholds
  <2>5. Timed(tasks') /\ used' = used /\ Bounded'
    BY <1>1, <1>2, <1>10 DEF AdminKick, Bounded
  <2>6. Orderly
    BY <1>1, <1>10, <2>1, <2>2, RolePasses
       DEF AdminKick, Departs, Orderly, HostKept, IndexKept, Removals
  <2> QED BY <2>3, <2>4, <2>5, <2>6, GoneStep
<1> QED BY <1>3, <1>4, <1>5, <1>8, <1>9, <1>10

\* Every step of the room keeps the invariant.
LEMMA NextRoom ==
  ASSUME RoomInv, [Next]_vars
  PROVE  RoomInv' /\ Orderly /\ GoneForGood
<1>1. CASE UNCHANGED vars
  BY <1>1 DEF RoomInv, TypeOK, Timed, SeatsKept, Orderly, HostKept, IndexKept, GoneForGood, vars
<1>2. CASE Closed
  BY <1>1, <1>2 DEF Closed
<1>3. CASE Due
  BY <1>3, DueRoom
<1>4. ASSUME NEW p \in Player,
             \/ Join(p) \/ Connect(p) \/ Disconnect(p) \/ Start(p) \/ InitialRoll(p)
             \/ Roll(p) \/ Keep(p) \/ Done(p) \/ TiebreakRoll(p) \/ Reclaim(p)
             \/ UpdateRoomRules(p) \/ Leave(p) \/ AdminKick(p)
             \/ \E host \in Player : Kick(host, p)
      PROVE  RoomInv' /\ Orderly /\ GoneForGood
  BY <1>4, PlayRoom, TrafficRoom
<1> QED BY <1>1, <1>2, <1>3, <1>4 DEF Next

\* What is proved below of a room rests on this invariant of it.
THEOREM RoomInvariance == Spec => []RoomInv
<1>1. Init => RoomInv
  BY InitRoom
<1>2. RoomInv /\ [Next]_vars => RoomInv'
  BY NextRoom
<1> QED BY <1>1, <1>2, PTL DEF Spec

\* A room stays well-formed whatever the players send and whoever goes, in
\* whatever way and at whatever moment: also when a timer under way acts for a
\* player who is gone, or a bot turn is taken back after the cycle was settled.
THEOREM RoomTypeCorrect == Spec => []TypeOK
<1>1. RoomInv => TypeOK
  BY DEF RoomInv
<1> QED BY <1>1, RoomInvariance, PTL

\* Whatever the interleaving of turns, bot turns, turns taken back, lost sockets,
\* database writes and departures: bank and seated players never have more than
\* the chips of the match, also when a hold or a commit outlives the player it was
\* for or a cycle is settled twice, and exactly them while everybody who joined is
\* still there.
THEOREM RoomConservesChips == Spec => []ChipsConserved
<1>1. RoomInv => ChipsConserved
  BY DEF RoomInv, ChipsConserved, Held, ConservesChips
<1> QED BY <1>1, RoomInvariance, PTL

----------------------------------------------------------------------------
(* The host.                                                               *)

\* A room is as new, or has a host at the table.
HostInv == registered => Init \/ game.host_player_id \in Seated(game)

\* A room that left the registry does nothing any more.
LEMMA ClosedForGood ==
  ASSUME [Next]_vars, ~registered
  PROVE  UNCHANGED vars
<1>1. ~Due
  BY DEF Due, Dissolve, ResumePartie, Timer, Wake, FinalizeBot, AfkInitial, AfkTiebreak,
         AfkPartie, AfkTurn, AfkMayFire, AfkWarned, AfkEvict, AfkHandoff, ResumeTurn,
         ResumeTiebreak
<1>2. ASSUME NEW p \in Player
      PROVE  /\ ~Join(p) /\ ~Connect(p) /\ ~Disconnect(p) /\ ~Start(p) /\ ~InitialRoll(p)
             /\ ~Roll(p) /\ ~Keep(p) /\ ~Done(p) /\ ~TiebreakRoll(p) /\ ~Reclaim(p)
             /\ ~UpdateRoomRules(p) /\ ~Leave(p) /\ ~AdminKick(p)
             /\ \A host \in Player : ~Kick(host, p)
  BY DEF Join, Connect, Disconnect, Start, InitialRoll, Roll, Keep, Done, TiebreakRoll,
         Reclaim, UpdateRoomRules, Leave, AdminKick, Kick, Plays, Listens
<1> QED BY <1>1, <1>2, SMTT(30) DEF Next, Closed

\* In a room as new there is nothing to do but to join.
LEMMA NewRoomStep ==
  ASSUME Init, RoomInv, Next
  PROVE  UNCHANGED vars \/ game'.host_player_id \in Seated(game')
<1>1. PICK rule \in {"sec", "free"} : game = NewGame(rule)
  BY DEF Init
<1>2. /\ game.players = <<>> /\ game.waiting_players = <<>> /\ game.phase = "waiting"
      /\ game.host_player_id = NoPlayer /\ ~game.dissolving
  BY <1>1 DEF NewGame
<1>3. Known(game) = {} /\ Seated(game) = {}
  BY <1>2 DEF Known, Seated, Members
<1>4. \A p \in Player : /\ tasks.afk[p] = "none" /\ tasks.final[p] = "none"
                         /\ holds[p] = "none" /\ p \notin link
  BY DEF Init, NoTasks
<1>5. ~Due
  <2>1. ~Dissolve /\ \A then \in Afterwards : ~ResumePartie(then)
    BY <1>2 DEF Dissolve, ResumePartie, Init, Afterwards
  <2>2. \A p \in Player : ~Wake(p) /\ ~FinalizeBot(p)
    BY <1>4 DEF Wake, ResumeTurn, ResumeTiebreak, FinalizeBot
  <2>3. \A p \in Player : ~Timer(p)
    BY <1>4 DEF Timer, AfkInitial, AfkTiebreak, AfkPartie, AfkTurn, AfkMayFire, AfkWarned,
                AfkEvict, AfkHandoff
  <2> QED BY <2>1, <2>2, <2>3 DEF Due
<1>6. ASSUME NEW p \in Player, Join(p)
      PROVE  game'.host_player_id \in Seated(game')
  <2>1. /\ game'.players = Append(game.players, p) /\ game'.host_player_id = p
    BY <1>2, <1>6 DEF Join, JoinGame, RoomInv, TypeOK, Game
  <2> QED BY <1>2, <2>1 DEF Seated, Members
<1>7. ASSUME NEW p \in Player,
             \/ Connect(p) \/ Disconnect(p) \/ Start(p) \/ InitialRoll(p) \/ Roll(p)
             \/ Keep(p) \/ Done(p) \/ TiebreakRoll(p) \/ Reclaim(p) \/ UpdateRoomRules(p)
             \/ Leave(p) \/ AdminKick(p) \/ \E host \in Player : Kick(host, p)
      PROVE  FALSE
  BY <1>3, <1>4, <1>7 DEF Connect, Disconnect, Start, InitialRoll, Roll, Keep, Done,
     TiebreakRoll, Reclaim, UpdateRoomRules, Leave, AdminKick, Kick, Plays, Listens
<1> QED BY <1>5, <1>6, <1>7 DEF Next, Closed

\* Unless an admin kicks or players are evicted, there is a host whenever
\* somebody is seated: a host who leaves passes the role on or closes the room,
\* and no settlement of the departure unseats the new one.
THEOREM HostStaysSeated ==
  ASSUME Exits \subseteq {"disconnect", "leave", "kick"}
  PROVE  Spec => []HostIsSeated
<1>1. Init => HostInv
  BY DEF HostInv
<1>2. RoomInv /\ HostInv /\ [Next]_vars => HostInv'
  <2> SUFFICES ASSUME RoomInv, HostInv, [Next]_vars, registered'
               PROVE  Init' \/ game'.host_player_id \in Seated(game')
    BY DEF HostInv
  <2>1. registered
    BY ClosedForGood DEF vars
  <2>2. CASE Init
    <3>1. UNCHANGED vars => Init'
      BY <2>2 DEF Init, vars
    <3> QED BY <2>2, <3>1, NewRoomStep
  <2>3. CASE game.host_player_id \in Seated(game)
    BY <2>3, NextRoom DEF Orderly, HostKept, Removals
  <2> QED BY <2>1, <2>2, <2>3 DEF HostInv
<1>3. HostInv => HostIsSeated
  <2>1. Init => game.players = <<>>
    BY DEF Init, NewGame
  <2> QED BY <2>1 DEF HostInv, HostIsSeated
<1> QED BY <1>1, <1>2, <1>3, RoomInvariance, PTL DEF Spec

----------------------------------------------------------------------------
(* The hand.                                                               *)

\* Unless an admin kicks or players are evicted, a departure takes the hand from
\* nobody but the player who goes: whoever is to play is still to play, however
\* many sit out and wherever at the table the seat was that is given up.
THEOREM HandSurvives ==
  ASSUME Exits \subseteq {"disconnect", "leave", "kick"}
  PROVE  Spec => HandSurvivesDepartures
<1> DEFINE Index == registered => InRange(game)
<1>1. Init => Index
  BY DEF Init, NewGame, InRange
<1>2. RoomInv /\ Index /\ [Next]_vars => Index'
  <2> SUFFICES ASSUME RoomInv, Index, [Next]_vars, registered'
               PROVE  InRange(game')
    OBVIOUS
  <2>1. registered
    BY ClosedForGood DEF vars
  <2> QED BY <2>1, NextRoom DEF Orderly, IndexKept, Removals
<1>3. RoomInv /\ Index /\ [Next]_vars => [\A p \in Seated(game) \ Seated(game') : HandKept(p)]_vars
  <2> SUFFICES ASSUME RoomInv, Index, [Next]_vars, ~UNCHANGED vars
               PROVE  \A p \in Seated(game) \ Seated(game') : HandKept(p)
    OBVIOUS
  <2>1. registered
    BY ClosedForGood
  <2> QED BY <2>1, NextRoom DEF Orderly, Removals
<1>4. Spec => [][\A p \in Seated(game) \ Seated(game') : HandKept(p)]_vars
  BY <1>1, <1>2, <1>3, RoomInvariance, PTL DEF Spec
<1> QED BY <1>4 DEF HandSurvivesDepartures, HandKept
=============================================================================
