-------------------------------- MODULE Room --------------------------------
(***************************************************************************)
(* A live room: app/game/ws.py on its one event loop, around the engine of *)
(* Rules.tla.  Code between two awaits is one step; the sleeps and waits   *)
(* of the handlers and tasks are where other handlers run:                 *)
(*   - the hold after a validated turn or the last tiebreak throw (1.5 s); *)
(*   - the AFK timer of whoever has to act, and the bot turn it plays;     *)
(*   - the grace (3 s) before a bot turn is committed, in which a player   *)
(*     who comes back takes the turn back;                                 *)
(*   - the database write at the end of a partie.                          *)
(* A player has one socket at a time (Connect after Disconnect), and its   *)
(* endpoint reads no message while its handler sleeps.                     *)
(*                                                                         *)
(* X_Fault is X with a plausible mistake in it, see Rules.tla.             *)
(*                                                                         *)
(* Departures are the four the code has: leave, host kick, admin kick and  *)
(* the eviction of a player who stayed away too long.                      *)
(***************************************************************************)
EXTENDS Rules

CONSTANTS
  AfkBot,      \* the room's afk_bot setting
  Acting,      \* the players who may send messages; the others are idle
  Exits,       \* the ways players go that may happen, among ExitKinds
  Returns,     \* may a player take its turn back from the bot?
  MaxFaults    \* bound on how often somebody goes

\* "disconnect" loses the connection, the other kinds the seat.
ExitKinds == {"disconnect", "leave", "kick", "admin", "evict"}

ASSUME RoomAssumption ==
  /\ AfkBot \in BOOLEAN /\ Returns \in BOOLEAN /\ Acting \subseteq Player
  /\ Exits \subseteq ExitKinds /\ MaxFaults \in Nat

VARIABLES
  game,        \* the Game object
  tasks,       \* its timer tasks, see TaskTable
  holds,       \* holds[p]: the handler of p asleep in _validate_hold
  used,        \* the player ids issued so far
  link,        \* the players whose WebSocket endpoint is running
  persists,    \* handlers waiting in persist_completed_partie, by what follows
  registered,  \* is the room in the registry (state.games)?
  faults       \* how often somebody went so far (bound)
vars == <<game, tasks, holds, used, link, persists, registered, faults>>

----------------------------------------------------------------------------
(* Timer tasks.                                                            *)

\* afk[p]: the live task in game.afk_tasks, by what it will do.  Past its
\* sleep a turn timer may be suspended: "warned" while the warning is sent,
\* "played" while the bot's throw is broadcast, "evicting" in the database;
\* a tiebreak timer that ended the partie is "persisting".
\* final[p]: a task asleep in _finalize_bot_turn, "tracked" when it is in
\* game.bot_handback_tasks; snap[p]: game.bot_handback_snapshots, where cap 0
\* stands for None.
Snapshot == [turn : Turn, cap : Nat]
NoSnapshot == [turn |-> NoTurn, cap |-> 0]
AfkTask == {"none", "initial", "tiebreak", "turn", "warned", "played", "evicting", "persisting"}
TaskTable == [afk : [Player -> AfkTask],
              final : [Player -> {"none", "tracked", "orphan"}],
              snap : [Player -> Snapshot]]
NoTasks == [afk |-> [p \in Player |-> "none"], final |-> [p \in Player |-> "none"],
            snap |-> [p \in Player |-> NoSnapshot]]

\* _cancel_afk: the timer and the pending handback, nothing restored.
CancelAfk(t, p) ==
  [t EXCEPT !.afk[p] = "none", !.snap[p] = NoSnapshot,
            !.final[p] = IF @ = "tracked" THEN "none" ELSE @]

\* Whom the table waits for, outside the initial roll.
Awaited_NoTiebreak(g) == IF g.phase \in {"charge", "decharge"} THEN CurrentPlayer(g) ELSE NoPlayer
Awaited_ChargeOnly(g) ==
  IF g.phase = "tiebreak" THEN g.tiebreak.next_pid
  ELSE IF g.phase = "charge" THEN CurrentPlayer(g) ELSE NoPlayer
Awaited(g) ==
  IF g.phase = "tiebreak" THEN g.tiebreak.next_pid
  ELSE IF g.phase \in {"charge", "decharge"} THEN CurrentPlayer(g) ELSE NoPlayer

\* A missing key of initial_rolls and the value None are both "to be rolled".
ToRoll_NoKey(g) == {p \in Seated(g) : g.initial_rolls[p] = Unasked}
ToRoll(g) == {p \in Seated(g) : g.initial_rolls[p] \in {Unrolled, Unasked}}

\* _schedule_afk.  "self" is the player whose initial timer is the caller: it
\* is not done() yet and gets no new timer.
ScheduleAfk(g, t, self) ==
  IF ~AfkBot THEN t
  ELSE IF g.phase = "initial_roll"
  THEN [t EXCEPT !.afk = [p \in Player |->
          IF p \in ToRoll(g) \ {self} /\ @[p] = "none" THEN "initial" ELSE @[p]]]
  ELSE LET p == Awaited(g)
       IN  IF p = NoPlayer THEN t
           ELSE [CancelAfk(t, p) EXCEPT !.afk[p] = IF g.phase = "tiebreak" THEN "tiebreak"
                                                   ELSE "turn"]

\* _abort_bot_handback gives the turn back only when task and snapshot are
\* both there; the task it popped is then cancelled, else it sleeps on.
Abortable(t, p) == t.final[p] = "tracked" /\ t.snap[p] # NoSnapshot
AbortGame(g, t, p) ==
  IF ~Abortable(t, p) THEN g
  ELSE [g EXCEPT !.turn[p] = IF p \in Seated(g) THEN t.snap[p].turn ELSE @,
                 !.max_throws = IF t.snap[p].cap # 0 THEN t.snap[p].cap ELSE @]
AbortTasks_SleepsOn(t, p) ==
  [t EXCEPT !.snap[p] = NoSnapshot, !.final[p] = IF @ # "tracked" THEN @ ELSE "orphan"]
AbortTasks(t, p) ==
  [t EXCEPT !.snap[p] = NoSnapshot,
            !.final[p] = IF @ # "tracked" THEN @ ELSE IF Abortable(t, p) THEN "none" ELSE "orphan"]

\* A sleep shorter than any AFK timeout is running (see AfkMayFire).
ShortSleep == \E p \in Player : holds[p] # "none" \/ tasks.final[p] # "none"

\* Did settling g into h end the partie, so that the caller waits for the write?
EndsPartie(g, h) == h.phase = "finished" /\ h.round_points # g.round_points

\* The end of a handler that turned g into "settled": its last lines run now or
\* after the write when the partie ended ("then": "schedule" or "nothing").
Conclude(g, settled, t, then, self) ==
  \E h \in {settled} :
    /\ game' = h
    /\ IF EndsPartie(g, h)
       THEN tasks' = t /\ persists' = [persists EXCEPT ![then] = @ + 1]
       ELSE /\ tasks' = IF then = "schedule" THEN ScheduleAfk(h, t, self) ELSE t
            /\ UNCHANGED persists

----------------------------------------------------------------------------
(* Messages of the players.                                                *)

\* p's endpoint can read a message from an acting player.
Listens(p) == registered /\ p \in Acting \cap link /\ holds[p] = "none"

\* What _dispatch does first for a play action: a pending handback of the
\* sender is aborted.
Reclaims(p) == tasks.final[p] = "tracked"
GameFor(p)  == IF Reclaims(p) THEN AbortGame(game, tasks, p) ELSE game
TasksFor(p) == IF Reclaims(p) THEN AbortTasks(tasks, p) ELSE tasks
Plays(p) == Listens(p) /\ (Reclaims(p) => Returns)

Departs(kind) == kind \in Exits /\ faults < MaxFaults /\ faults' = faults + 1

Init ==
  /\ \E rule \in {"sec", "free"} : game = NewGame(rule)
  /\ tasks = NoTasks /\ holds = [p \in Player |-> "none"] /\ used = {} /\ link = {}
  /\ persists = [then \in {"schedule", "nothing"} |-> 0]
  /\ registered = TRUE /\ faults = 0

\* join_game, and the socket the client opens at once.
Join(p) ==
  /\ registered /\ p \notin used /\ MayJoin(game, p)
  /\ game' = JoinGame(game, p) /\ link' = link \cup {p} /\ used' = used \cup {p}
  /\ UNCHANGED <<tasks, holds, persists, registered, faults>>

\* websocket_endpoint up to its receive loop, for a player who was away.
Connect(p) ==
  /\ registered /\ p \in Known(game) \ link /\ holds[p] = "none"
  /\ Reclaims(p) => Returns
  /\ game' = AbortGame(game, tasks, p) /\ tasks' = AbortTasks(tasks, p)
  /\ link' = link \cup {p}
  /\ UNCHANGED <<holds, used, persists, registered, faults>>

\* The finally block: the player's timer and handback are cancelled.
Disconnect(p) ==
  /\ registered /\ p \in link /\ holds[p] = "none" /\ Departs("disconnect")
  /\ link' = link \ {p} /\ tasks' = CancelAfk(tasks, p)
  /\ UNCHANGED <<game, holds, used, persists, registered>>

Start(p) ==
  /\ Listens(p) /\ p = game.host_player_id
  /\ game.phase = "waiting" /\ Len(game.players) >= 2
  /\ game' = StartInitialRoll(game)
  /\ tasks' = ScheduleAfk(game', tasks, NoPlayer)
  /\ UNCHANGED <<holds, used, link, persists, registered, faults>>

InitialRoll(p) ==
  /\ Listens(p) /\ game.phase = "initial_roll" /\ game.initial_rolls[p] = Unrolled
  /\ \E d \in Die : game' \in RollInitial(game, p, d)
  /\ tasks' = ScheduleAfk(game', CancelAfk(tasks, p), NoPlayer)
  /\ UNCHANGED <<holds, used, link, persists, registered, faults>>

Roll(p) ==
  /\ Plays(p) /\ MayRoll(GameFor(p), p)
  /\ \E r \in Rank : game' = Throw(GameFor(p), p, r)
  /\ LET t == CancelAfk(TasksFor(p), p)
     IN  IF game'.turn[p].done
         THEN tasks' = t /\ holds' = [holds EXCEPT ![p] = "turn"]
         ELSE tasks' = ScheduleAfk(game', t, NoPlayer) /\ UNCHANGED holds
  /\ UNCHANGED <<used, link, persists, registered, faults>>

\* Which die is kept is not modelled; the message restarts the timer.
Keep(p) ==
  /\ Plays(p) /\ MayValidate(GameFor(p), p)
  /\ LET g == GameFor(p)
     IN  /\ ~g.turn[p].done
         /\ p = g.round_starter_id \/ RollsUsed(g, p) < g.max_throws
         /\ game' = g /\ tasks' = ScheduleAfk(g, CancelAfk(TasksFor(p), p), NoPlayer)
  /\ UNCHANGED <<holds, used, link, persists, registered, faults>>

Done(p) ==
  /\ Plays(p) /\ MayValidate(GameFor(p), p)
  /\ game' = Validate(GameFor(p), p)
  /\ tasks' = CancelAfk(TasksFor(p), p)
  /\ holds' = [holds EXCEPT ![p] = "turn"]
  /\ UNCHANGED <<used, link, persists, registered, faults>>

TiebreakRoll(p) ==
  /\ Plays(p) /\ MayThrowTiebreak(GameFor(p), p)
  /\ \E r \in Rank : game' = ThrowTiebreak(GameFor(p), p, r)
  /\ LET t == CancelAfk(TasksFor(p), p)
     IN  IF game'.tiebreak.next_pid = NoPlayer
         THEN tasks' = t /\ holds' = [holds EXCEPT ![p] = "tiebreak"]
         ELSE tasks' = ScheduleAfk(game', t, NoPlayer) /\ UNCHANGED holds
  /\ UNCHANGED <<used, link, persists, registered, faults>>

\* A play action whose own guard refuses it still takes the turn back.
Reclaim(p) ==
  /\ Plays(p) /\ Reclaims(p)
  /\ game' = GameFor(p) /\ tasks' = TasksFor(p)
  /\ UNCHANGED <<holds, used, link, persists, registered, faults>>

UpdateRoomRules(p) ==
  /\ Listens(p) /\ p = game.host_player_id
  /\ \E rule \in RuleChoices : game' = QueueRule(game, rule)
  /\ UNCHANGED <<tasks, holds, used, link, persists, registered, faults>>

\* The rest of the roll and done handlers, after the hold.
ResumeTurn(p) ==
  /\ registered /\ holds[p] = "turn"
  /\ holds' = [holds EXCEPT ![p] = "none"]
  /\ Conclude(game, EndTurn(game), tasks, "schedule", NoPlayer)
  /\ UNCHANGED <<used, link, registered, faults>>

\* The rest of the tiebreak_roll handler.  When the loser has left, the
\* exception skips the rest of the handler.
ResumeTiebreak(p) ==
  /\ registered /\ holds[p] = "tiebreak"
  /\ holds' = [holds EXCEPT ![p] = "none"]
  /\ IF TiebreakRaises(game) THEN UNCHANGED <<game, tasks, persists>>
     ELSE Conclude(game, ResolveTiebreak(game), tasks, "schedule", NoPlayer)
  /\ UNCHANGED <<used, link, registered, faults>>

\* persist_completed_partie returns to the handler that ended the partie.
ResumePartie_NoTimer(then) ==
  /\ registered /\ persists[then] > 0
  /\ persists' = [persists EXCEPT ![then] = @ - 1]
  /\ game' = StartNewPartie(game)
  /\ UNCHANGED <<tasks, holds, used, link, registered, faults>>
ResumePartie_NoReset(then) ==
  /\ registered /\ persists[then] > 0
  /\ persists' = [persists EXCEPT ![then] = @ - 1]
  /\ UNCHANGED <<game, tasks, holds, used, link, registered, faults>>
ResumePartie(then) ==
  /\ registered /\ persists[then] > 0
  /\ persists' = [persists EXCEPT ![then] = @ - 1]
  /\ game' = StartNewPartie(game)
  /\ tasks' = IF then = "schedule" THEN ScheduleAfk(game', tasks, NoPlayer) ELSE tasks
  /\ UNCHANGED <<holds, used, link, registered, faults>>

----------------------------------------------------------------------------
(* Departures.                                                             *)

\* The list without p, which is on it at most once.
Without(s, p) ==
  LET at == Smallest({k \in DOMAIN s : s[k] = p})
  IN  IF p \notin Members(s) THEN s
      ELSE [k \in 1..(Len(s) - 1) |-> IF k < at THEN s[k] ELSE s[k + 1]]

\* What every departure removes.  The turn stays with the Player object, which
\* a timer under way goes on using (AfkWarned); after leave and kick none is.
Unseat(g, p) ==
  [g EXCEPT !.players = Without(@, p), !.out_of_match = @ \ {p},
            !.match_losses[p] = 0, !.round_points[p] = 0, !.tokens[p] = 0]

\* Is the seat of p before the current one?  (As a number of seats.)
SeatsBefore_Zero(g, p) == 0
SeatsBefore(g, p) == IF p \in Seated(g) /\ IndexOf(g, p) < g.current_index THEN 1 ELSE 0

\* What leave and kick add: the roll is forgotten, the index follows the
\* current player, the starter's role passes on.
CloseGap(before, p) ==
  LET g == [Unseat(before, p) EXCEPT !.initial_rolls[p] = Unasked, !.turn[p] = NoTurn]
      moved == before.current_index - SeatsBefore(before, p)
      index == IF moved < Len(g.players) THEN moved ELSE 0
  IN  [g EXCEPT !.current_index = index,
                !.round_starter_id = IF @ = p THEN g.players[index + 1] ELSE @]

\* joined_at is not modelled: anyone left may be the longest at the table.
HostMigrations_Never(g, p) == {g}
HostMigrations(g, p) ==
  IF g.host_player_id = p /\ g.players # <<>>
  THEN {[g EXCEPT !.host_player_id = h] : h \in Seated(g)}
  ELSE {g}

\* leave and kick settle the cycle if the others are done, else reschedule.
SettleDeparture(g, p) ==
  IF AllDone(g) THEN Conclude(g, ResolveRound(g), CancelAfk(tasks, p), "nothing", NoPlayer)
  ELSE /\ game' = g /\ tasks' = ScheduleAfk(g, CancelAfk(tasks, p), NoPlayer)
       /\ UNCHANGED persists

\* Without a seat left, or a host before the start, the room closes.
CloseRoom(p) ==
  /\ registered' = FALSE
  /\ game' = Unseat(game, p) /\ tasks' = CancelAfk(tasks, p)
  /\ UNCHANGED persists

Leave(p) ==
  /\ Listens(p) /\ Departs("leave")
  /\ link' = link \ {p}
  /\ IF \/ Seated(game) \subseteq {p}
        \/ p = game.host_player_id /\ game.phase = "waiting"
     THEN CloseRoom(p)
     ELSE /\ UNCHANGED registered
          /\ \E g \in HostMigrations(CloseGap(game, p), p) : SettleDeparture(g, p)
  /\ UNCHANGED <<holds, used>>

\* A host an admin has removed may still kick, even the last player.
Kick(host, p) ==
  /\ Listens(host) /\ host = game.host_player_id
  /\ p # host /\ p \in Seated(game) /\ Departs("kick")
  /\ link' = link \ {p}
  /\ IF Seated(game) = {p} THEN CloseRoom(p)
     ELSE SettleDeparture(CloseGap(game, p), p) /\ UNCHANGED registered
  /\ UNCHANGED <<holds, used>>

\* The kick of app/routers/admin.py: the player goes, nothing else moves.
AdminKick(p) ==
  /\ registered /\ p \in Seated(game) /\ Departs("admin")
  /\ game' \in HostMigrations(Unseat(game, p), p)
  /\ UNCHANGED <<tasks, holds, used, link, persists, registered>>

\* _dissolve_room_no_stats, the task a lone survivor's settlement starts.
Dissolve ==
  /\ registered /\ game.dissolving /\ registered' = FALSE
  /\ UNCHANGED <<game, tasks, holds, used, link, persists, faults>>

----------------------------------------------------------------------------
(* Timers and the bot.                                                     *)

\* An AFK timer runs for at least 10 s (create_game): the 1.5 s and 3 s sleeps
\* that have begun end first.
AfkMayFire(p, kind) == registered /\ tasks.afk[p] = kind /\ ~ShortSleep
Fired(p) == [tasks EXCEPT !.afk[p] = "none"]

\* _afk_initial_timer
AfkInitial(p) ==
  /\ AfkMayFire(p, "initial")
  /\ IF game.phase = "initial_roll" /\ p \in ToRoll(game)
     THEN /\ \E d \in Die : game' \in RollInitial(game, p, d)
          /\ tasks' = ScheduleAfk(game', Fired(p), p)
     ELSE UNCHANGED game /\ tasks' = Fired(p)
  /\ UNCHANGED <<holds, used, link, persists, registered, faults>>

\* _afk_tiebreak_timer: the throw is settled at once, without a hold.  When
\* the partie ends the task itself waits for the write, and can be cancelled.
AfkTiebreak(p) ==
  /\ AfkMayFire(p, "tiebreak")
  /\ IF MayThrowTiebreak(game, p) /\ p \in Seated(game)
     THEN \E g \in {ThrowTiebreak(game, p, r) : r \in Rank} :
            LET last == g.tiebreak.next_pid = NoPlayer
            IN  \E h \in {IF last THEN ResolveTiebreak(g) ELSE g} :
                  /\ game' = h
                  /\ tasks' = IF last /\ TiebreakRaises(g) THEN Fired(p)
                              ELSE IF EndsPartie(g, h)
                              THEN [tasks EXCEPT !.afk[p] = "persisting"]
                              ELSE ScheduleAfk(h, Fired(p), NoPlayer)
     ELSE UNCHANGED game /\ tasks' = Fired(p)
  /\ UNCHANGED <<holds, used, link, persists, registered, faults>>

AfkPartie(p) ==
  /\ registered /\ tasks.afk[p] = "persisting"
  /\ game' = StartNewPartie(game)
  /\ tasks' = ScheduleAfk(game', Fired(p), NoPlayer)
  /\ UNCHANGED <<holds, used, link, persists, registered, faults>>

\* The turns the bot may leave behind (_bot_take_turn): at least one throw in
\* all, none beyond the cap, any rank it threw.
ThrowCap(g, p) ==
  IF OneThrow(g) THEN 1
  ELSE IF p # g.round_starter_id /\ g.max_throws > 0 THEN g.max_throws ELSE Throws
BotTurns(g, p) ==
  LET left == g.turn[p].rolls_left
      first == IF left = Throws THEN Throws - 1 ELSE left
      again == {n \in 0..(first - 1) : Throws - n <= ThrowCap(g, p)}
      ranks(n) == IF n = left THEN {g.turn[p].rank} ELSE Rank
  IN  UNION {[rolls_left : {n}, rank : ranks(n), done : {TRUE}] : n \in {first} \cup again}

\* The rhythm lock _afk_timer adds for a starter, and the snapshot it keeps.
BotLocks_Never(g, p) == g
BotLocks(g, p) ==
  IF p # g.round_starter_id THEN g
  ELSE [g EXCEPT !.max_throws = IF OneThrow(g) THEN 1
                                ELSE IF RollsUsed(g, p) > 1 THEN RollsUsed(g, p) ELSE 1]
BotPlays(p) ==
  /\ \E turn \in BotTurns(game, p) : game' = BotLocks([game EXCEPT !.turn[p] = turn], p)
  /\ tasks' = [tasks EXCEPT !.afk[p] = "played",
                 !.snap[p] = [turn |-> game.turn[p],
                              cap |-> IF p = game.round_starter_id THEN game.max_throws ELSE 0]]

\* _afk_timer after its sleep: nothing to do, an eviction, a warning that
\* suspends the task, or the bot's turn.
AfkTurn(p) ==
  /\ AfkMayFire(p, "turn")
  /\ LET stale == \/ p \notin Seated(game) \/ game.turn[p] = NoTurn \/ game.turn[p].done
                  \/ CurrentPlayer(game) \notin {p, NoPlayer}
     IN  \/ stale /\ UNCHANGED <<game, faults>> /\ tasks' = Fired(p)
         \/ ~stale /\ BotPlays(p) /\ UNCHANGED faults
         \/ ~stale /\ UNCHANGED <<game, faults>> /\ tasks' = [tasks EXCEPT !.afk[p] = "warned"]
         \/ /\ ~stale /\ Departs("evict")
            /\ UNCHANGED game /\ tasks' = [tasks EXCEPT !.afk[p] = "evicting"]
  /\ UNCHANGED <<holds, used, link, persists, registered>>

\* The warning is sent; none of the tests above is made again, and without a
\* turn the bot raises, which ends the task.
AfkWarned(p) ==
  /\ registered /\ tasks.afk[p] = "warned"
  /\ IF game.turn[p] = NoTurn THEN UNCHANGED game /\ tasks' = Fired(p) ELSE BotPlays(p)
  /\ UNCHANGED <<holds, used, link, persists, registered, faults>>

\* evict_player after its first database write; the timer task then ends
\* without rescheduling.
AfkEvict(p) ==
  /\ registered /\ tasks.afk[p] = "evicting"
  /\ game' \in HostMigrations(Unseat(game, p), p)
  /\ tasks' = Fired(p)
  /\ UNCHANGED <<holds, used, link, persists, registered, faults>>

\* The bot's turn has been broadcast: the task that will commit it starts.
AfkHandoff_NoTask(p) ==
  /\ registered /\ tasks.afk[p] = "played"
  /\ tasks' = [tasks EXCEPT !.afk[p] = "none"]
  /\ UNCHANGED <<game, holds, used, link, persists, registered, faults>>
AfkHandoff(p) ==
  /\ registered /\ tasks.afk[p] = "played"
  /\ tasks' = [tasks EXCEPT !.afk[p] = "none", !.final[p] = "tracked"]
  /\ UNCHANGED <<game, holds, used, link, persists, registered, faults>>

\* _finalize_bot_turn: the grace is over.
FinalizeBot(p) ==
  /\ registered /\ tasks.final[p] # "none"
  /\ Conclude(game, EndTurn(game),
              [tasks EXCEPT !.final[p] = "none", !.snap[p] = NoSnapshot], "schedule", NoPlayer)
  /\ UNCHANGED <<holds, used, link, registered, faults>>

----------------------------------------------------------------------------
(* A room that left the registry is not modelled further.                  *)

Closed == ~registered /\ UNCHANGED vars

\* The timer task of p, whichever it is.
Timer(p) ==
  \/ AfkInitial(p) \/ AfkTiebreak(p) \/ AfkPartie(p) \/ AfkTurn(p)
  \/ AfkWarned(p) \/ AfkEvict(p) \/ AfkHandoff(p)
\* The handler of p asleep in _validate_hold.
Wake(p) == ResumeTurn(p) \/ ResumeTiebreak(p)
Afterwards == {"schedule", "nothing"}

\* The tasks and handlers whose sleep or wait is over.
Due ==
  \/ Dissolve \/ \E then \in Afterwards : ResumePartie(then)
  \/ \E p \in Player : Timer(p) \/ Wake(p) \/ FinalizeBot(p)

Next ==
  \/ Closed \/ Due
  \/ \E p \in Player :
       \/ Join(p) \/ Connect(p) \/ Disconnect(p) \/ Start(p) \/ InitialRoll(p) \/ Roll(p)
       \/ Keep(p) \/ Done(p) \/ TiebreakRoll(p) \/ Reclaim(p) \/ UpdateRoomRules(p)
       \/ Leave(p) \/ AdminKick(p) \/ \E host \in Player : Kick(host, p)

Spec == Init /\ [][Next]_vars

\* Is anything due?  This is ENABLED <<Due>>_vars, written out for TLC.
SomethingDue ==
  registered /\ \/ game.dissolving
                \/ \E then \in Afterwards : persists[then] > 0
                \/ ShortSleep
                \/ \E p \in Player : tasks.afk[p] # "none"

\* The event loop goes on running what is due: weak fairness of Due.  Nothing
\* is assumed of the players.
FairSpec == Spec /\ WF_vars(Dissolve) /\ ([]<>~SomethingDue \/ []<><<Due>>_vars)

----------------------------------------------------------------------------
(* Properties.                                                             *)

TypeOK ==
  /\ game \in Game /\ tasks \in TaskTable
  /\ holds \in [Player -> {"none", "turn", "tiebreak"}]
  /\ used \subseteq Player /\ link \subseteq used
  /\ persists \in [Afterwards -> Nat] /\ registered \in BOOLEAN /\ faults \in 0..MaxFaults

\* Everybody who joined is still at the table, connected or not.
SeatsKept == used \subseteq Known(game)

\* Whoever goes, and however: late holds, commits that outlive their turn, bot
\* turns taken back and cycles settled again after a departure make no chip.  A
\* player who goes takes its chips along; while no seat is given up, bank and
\* seated players hold the match's chips between them.
ChipsConserved ==
  /\ game.pool + Total(game.tokens, Seated(game)) <= Chips
  /\ SeatsKept => ConservesChips(game)

\* The starter throws first and caps the cycle's throws, whoever plays the
\* turns: the cap a bot starter locks is undone with the bot's turn.
StarterSetsTheRhythm == StarterLeads(game)

\* While no seat is given up, a match in play keeps two active players, with
\* chips once in décharge: no handback revives a player who sat out.
DuelAlive == SeatsKept => DuelGoesOn(game)

\* While no seat is given up, the table charges exactly while the bank has
\* chips: lost sockets, commits that come late and turns ended twice settle no
\* cycle in the wrong phase.
PoolMatchesPhase == SeatsKept => PoolFitsPhase(game)

\* A handler that wakes up, and a task that commits a bot turn, ends the turn it
\* went to sleep on and nothing more (both read current_index only after the
\* sleep): its player is still the current one and the turn still validated, not
\* taken back meanwhile.  While somebody has yet to throw in the cycle the turn
\* passes to such a player and nothing else changes; so nobody is skipped, no
\* turn is advanced twice, and only the last turn of a cycle settles it.
Unplayed(g) == {q \in Active(g) : ~g.turn[q].done}
WakesOnItsOwnTurn ==
  [][\A p \in Player :
       ResumeTurn(p) \/ FinalizeBot(p) =>
         /\ CurrentPlayer(game) = p /\ game.turn[p].done
         /\ Unplayed(game) # {} =>
              /\ CurrentPlayer(game') \in Unplayed(game)
              /\ game' = [game EXCEPT !.current_index = game'.current_index]]_vars

\* The one who must act is never without a timer: no path out of a handler
\* leaves the table waiting for a player nobody plays for.
SomeoneIsTimed ==
  LET waits == IF game.phase = "tiebreak" THEN game.tiebreak.next_pid
               ELSE IF game.phase \in {"charge", "decharge"} THEN CurrentPlayer(game)
               ELSE NoPlayer
  IN  registered /\ waits # NoPlayer =>
        \/ tasks.afk[waits] # "none" \/ tasks.final[waits] # "none"
        \/ \E p \in Player : holds[p] # "none"
        \/ \E then \in Afterwards : persists[then] > 0

\* Every departure leaves a host at the table.
HostIsSeated ==
  registered /\ game.players # <<>> => game.host_player_id \in Seated(game)

\* A departure in the middle of a cycle takes the hand from nobody but the
\* player who goes: current_index follows the seats that move up.
HandSurvivesDepartures ==
  [][\A p \in Seated(game) \ Seated(game') :
       LET c == CurrentPlayer(game)
       IN  /\ game.phase \in {"charge", "decharge"} /\ c # p
           /\ \E q \in Active(game) \ {p} : ~game.turn[q].done
           => CurrentPlayer(game') = c]_vars

\* A room's chips and scores follow the abstract rules.
MatchRules == INSTANCE Match WITH pool <- game.pool, tokens <- game.tokens,
                losses <- game.match_losses, points <- game.round_points
ImplementsMatch == MatchRules!Spec

Playing(p) == registered /\ game.phase \in {"charge", "decharge"} /\ CurrentPlayer(game) = p

\* The turn of an idle player ends up played, by its timer and the bot.  (An
\* acting player may keep and release dice as long as it likes.)
TurnsArePlayed ==
  \A p \in Player \ Acting : Playing(p) /\ ~game.turn[p].done ~> ~(Playing(p) /\ ~game.turn[p].done)

\* A validated turn, a player's or the bot's, is committed (or taken back).
TurnsAreCommitted ==
  \A p \in Player : Playing(p) /\ game.turn[p].done ~> ~(Playing(p) /\ game.turn[p].done)

\* The opening rolls go on until they are all made: equal lowest rolls may be
\* thrown again any number of times, but two players never wait for nobody.
InitialRollsAreMade ==
  \/ []<>(~registered \/ game.phase # "initial_roll" \/ Len(game.players) < 2)
  \/ []<><<game'.initial_rolls # game.initial_rolls>>_vars

\* A player left alone in a charge or décharge, or in a room that ended without
\* a partie lost, sees the room close, idle or not.  Not one left alone in a
\* tiebreak: if it is the other's throw that is awaited, next_pid stays with who
\* has gone (ws.py:1044-1050), and the room waits for a throw nobody can make.
LoneSurvivorIsReleased ==
  LET alone == /\ registered /\ Len(game.players) = 1
               /\ game.phase \in {"charge", "decharge", "finished"}
               /\ game.partie_loser_id = NoPlayer
  IN  alone ~> ~alone

\* A partie that is lost is followed by the next one: whoever waits for the
\* write is there when it returns.
PartiesGoOn ==
  LET ended == registered /\ game.partie_loser_id # NoPlayer /\ Len(game.players) >= 2
  IN  ended ~> ~ended

\* A tiebreak passes from throw to throw and is resolved.
TiebreaksMove ==
  \A p \in MaybePlayer :
    LET stays == /\ registered /\ game.phase = "tiebreak" /\ game.tiebreak.next_pid = p
                 /\ Len(game.players) >= 2
    IN  stays ~> ~stays
=============================================================================
