# A formal model of the 421 web game

This directory holds TLA+ modules for the 421 web game. On the server: the rules
engine `src/app/game/logic.py` and the live rooms of `src/app/game/ws.py` with
the services that reach into them. In the browser: the game page, from the state
it was sent to the clicks it sends back, and the pages around it with the session
they share (`src/frontend/src`). TLC checks them on small instances; TLAPS proves
theorems about the engine and the rooms for any number of players, and about the
session for any number of logins and requests.

## 1. The system

The server is one Python process. FastAPI and Starlette run every HTTP handler
and every WebSocket endpoint as a coroutine of **one event loop**; the games are
objects in memory (`state.games`), the accounts and results are rows of a
database. On the server nothing is parallel: two handlers interleave exactly where one of them
awaits. Those awaits - sleeps, broadcasts, database calls - are where the model
cuts the code into steps.

The client is one React program per tab. It is sent whole states over the
WebSocket, derives what to show, and keeps beside them a little state of its own
(notices, timers, forms, a token). It is cut into steps at the arrival of a
message or an answer, at a timer and at a click.

| Component | State it keeps | Operations | Talks to | Here |
| --- | --- | --- | --- | --- |
| Rules engine, `app/game/logic.py`, `state.py` | `Game`: seats, waiting list, bank (`pool`), chips, turns, starter, rhythm cap, tiebreak, losses, points, queued rules | opening rolls and order, throw, validate, advance, settle a cycle, tiebreak, match / round point / partie reset, admission of newcomers | called by the handlers, timers and departures; calls persistence at the end of a partie | `Rules`, `Table` |
| Room handlers, `app/game/ws.py` | one coroutine per socket, asleep or not | `join_game`, connect, disconnect, `start`, `initial_roll`, `roll`, `keep`, `done`, `tiebreak_roll`, `leave`, `kick`, `update_room_rules`, chat | engine, timers, connection manager, persistence | `Room` |
| AFK timers and bot, `app/game/ws.py` | `afk_tasks`, `bot_handback_tasks`, `bot_handback_snapshots` | `_schedule_afk`, `_cancel_afk`, the three timers, `_bot_take_turn`, `_finalize_bot_turn`, `_abort_bot_handback` | engine, eviction | `Room` |
| Connection manager, spectators | sockets by player and game | connect, close the former socket, broadcast, disconnect | handlers | part of `Room` (`link`) |
| AFK eviction and anti-grief, `app/services/afk_eviction.py` | eviction clock, audit rows, chat bans | warn, evict, count evictions, ban | engine, database, mail | part of `Room` (`AfkEvict`) |
| Partie persistence, `app/services/game_persistence.py`, `elo.py` | rows of games, players, statistics, ratings | write a partie, a leave, a dissolution | database | part of `Room` (the wait) |
| Administration, `app/routers/admin.py` | roles, bans, audit log | kick a seated player, ban, review names | a room's `Game`, database | part of `Room` (`AdminKick`) |
| Accounts, moderation, mail, contact, rankings | rows, tokens | register, log in, verify, reset, read | database, mail service | not modelled |
| Game page, `frontend/src/pages/Game.jsx`, `GameMobile.jsx`, `hooks/useGame.js` | the last state received | show a screen and its controls, send an action | the player's socket | `Screen` |
| Notices, journal, room settings, `useGame.js`, `Game.jsx`, `CommentaryTicker.jsx`, `RoomSettingsPanel.jsx` | reducer's notices, banner, toasts, timers, cards, settings form | receive a state or a notice, time out, dismiss, edit and save rules | the host's socket | `Journal`, `Client` |
| Session, `hooks/useAuth.js`, `api/auth.js` | token, its copy in `localStorage`, user, splash screen | log in, register, refresh, log out, the effect that asks who the token belongs to | HTTP | `Session` |
| Account pages, `Login.jsx`, `CompleteProfile.jsx`, `Profile.jsx`, ... | forms, their flags, the checked user name | type, send, hear the answer, navigate | session, HTTP | `SignUp`, `Pages`, `App` |
| Home, lobby, rooms, contact and rankings pages | what was loaded, error, flags | load, poll, join, create | HTTP | `Pages`, `App` |
| Admin pages | list or detail of the URL, dialog | load by filter or id, sanction, notify, dissolve, reload | HTTP | `Pages`, `App` |
| Presentation, language, theme; migrations, tests | preferences of one browser | draw, declare, test | - | not modelled |

`PROJECT.json` has the same list with its files, and the list of hazards.

### What is hard in it

* **Sleeps inside handlers.** `roll` and `done` validate a turn, sleep 1.5 s for
  the animation, and advance afterwards, reading `current_index` again. The bot's
  turn waits 3 s for its player to take it back. Timers, other messages and
  departures run meanwhile.
* **Tasks that cancel each other.** A table goes on only because somebody has a
  timer. Every handler ends by rescheduling it; every cleanup cancels it, and may
  cancel the pending commit of the bot's turn with it.
* **Four departures, written four times.** Leave, host kick, admin kick and
  eviction each repeat a part of the same cleanup: seat, chips, index, starter,
  host, tiebreak, opening roll, settlement.
* **A view that is late.** What a tab shows is the past; what it sends is answered
  against the present. The page computes again, in three places, what the server
  will accept.
* **Answers that overtake each other.** Every page asks over HTTP and shows what
  comes back, while the user changes filter, page, account; three kinds of request
  of the session answer the same question.
* **Effects and timers.** A banner goes away because a timer is left alone, a form
  comes back because a flag is cleared on every way out.
* **Long sequences.** Chips, losses, points, starter, cap and phase are kept
  together by five paths into a cycle; one forgotten reset shows many cycles
  later.

### What makes each component correct

* Engine: chips are conserved; the table charges exactly while the bank has
  chips; the starter of a cycle sets its rhythm; a match never comes down to one
  player; scores stay below their limits; the hand is always with somebody who
  may play; queued rules wait for a match boundary; the chip and score rules
  follow a simple abstract specification.
* Room: a wake-up ends the turn it fell asleep on; whoever the table waits for
  has a timer; turns, commits, opening rolls, tiebreaks and parties go on when
  players are idle; somebody who goes takes neither the hand, the host's role nor
  the chips of the others with them.
* Game page: a control it offers is one the server takes; whoever the table waits
  for has one; rhythm and winner are shown as the server keeps them; a lost match
  is announced, an absence told once, a notice of being out never taken back;
  saving one rule changes no other.
* Session: an answer about an old token ends no session and brings none back (it may
  name a user, see section 4); the splash screen ends.
* Pages: what is shown is what the URL asks for, and not older than what one did
  oneself; every button comes back; the lobby catches up; the verdict about a user
  name is about the name in the field.
* Persistence, connections, eviction, accounts on the server: see the plan,
  section 8.

## 2. The modules

```
  Match     what the engine promises about chips and scores
    ^  refinement: ImplementsMatch
  Table     players who stay            Room     sockets, sleeps, timers, departures
    ^  \                                  /
    |   Rules     the engine as operators on Game
    |
  Screen    one tab at the table: states and clicks in flight

  Client    the host's tab: notices, toasts, settings     App     a tab outside the game
    |                                                      |  \      \
  Journal   what is read from the journal                  |   SignUp  Pages
                                                           v  implements (AppIsASession)
                                                         Session

  MCTable, MCRoom, MCScreen, MCClient, MCApp   constants for TLC
  RulesProofs <- CycleProofs                   lemmas on Rules
  TableProofs (Table, CycleProofs)             theorems of Table
  RoomProofs  (Room, CycleProofs)              theorems of Room, whoever goes
  RoomTurnProofs (RoomProofs)                  theorems of Room, seats kept
  ScreenProofs (Screen, TableProofs)           theorems of Screen
  ClientProofs                                 theorems of Client and Journal
  AppProofs                                    theorems of App, Session and their pages
```

| Module | Code | State and actions |
| --- | --- | --- |
| `Rules` | `logic.py`, the engine's part of `ws.py` (guards of `roll`, `done`, ...), `state.py` | No variables. `Game` is the record of the fields of the class; each function of the engine is an operator from a game to a game, or to the set of its results where dice or equal choices decide. |
| `Table` | the handlers' calls of the engine | `game`, and `hold` for the one handler asleep in `_validate_hold`. One action per message, one per wake-up. Nobody leaves. |
| `Room` | `ws.py`; the admin kick; the eviction | `game`; `tasks` (AFK tasks, deferred commits, snapshots); `holds` (handlers asleep); `link` (running endpoints); `persists` (handlers waiting for the write); `registered` (`state.games`). One action per message, per wake-up and per departure. |
| `Match` | nothing: the abstract specification | bank, chips, losses, points; `Charge`, `Decharge`, `NewPartie`. |
| `Screen` | `Game.jsx`, `GameMobile.jsx`, `useGame.js`; `_dispatch` | Extends `Table` by one player's tab: `view` (the last state), `inbox` and `outbox` (its socket), `asleep` (the handler of this tab in a hold). `Show`, `Click`, `Receive`; every other action of the table is `Others`, which broadcasts. |
| `Journal` | effects of `Game.jsx`, `useOpponentPlayToast`, `CommentaryTicker.jsx` | Operators from a journal to a banner, a toast, a row of cards. |
| `Client` | the reducer, `Game.jsx`, `GameMobile.jsx`, `RoomSettingsPanel.jsx` | `room` is what the server has put on the wire so far, reduced to journal, plays, roster, rules and `afk_session` (`away`), with one action per handler that sends; `view`, `notes`, `banner`, `own`, `opp`, `panel` are the hooks' state. |
| `Session` | `useAuth.js`, `api/auth.js` | `session` (token, stored token, user, splash), `calls` (its requests, from the click to the last answer). |
| `SignUp` | `RegisterForm` of `Login.jsx` | `field` and `checks`: the debounced check, awaited twice. |
| `Pages` | every page under `pages/` | One record per page: who may see it, when it loads, what it forgets meanwhile, its forms, dialogs and links; the routes; where a success leads. |
| `App` | `App.jsx`, the bodies shared by the pages, `api/*.js` | `page` (the one mounted), `asks` (requests, also of pages left), `world` (versions of what the server holds). Composes `Session`, `SignUp` and `Pages`. |
| `RulesProofs`, `CycleProofs` | - | lemmas on the operators of `Rules`: what each does to types, scores, chips and turns of a game, and the sums of chips. |
| `TableProofs`, `RoomProofs`, `RoomTurnProofs` | - | theorems of `Table` and of `Room`. |
| `ScreenProofs`, `ClientProofs` | - | theorems of `Screen` and of `Client`. |
| `AppProofs` | - | theorems of `Session` and `App`. |

Definitions keep the names of the code in TLA+ spelling (`_resolve_round` is
`ResolveRound`, `_schedule_afk` is `ScheduleAfk`); the `map` of `PROJECT.json`
gives the lines of each.

A definition `X_Fault` next to a definition `X` is `X` with one plausible mistake.
No specification uses it; put in the place of `X` it violates a property, which
shows that the property says something about `X`.

### What is abstracted

* **Dice.** A throw is the place of its combination in the hierarchy (`Rank`),
  from the weakest to 4-2-1, with `Fiches` giving its worth; which dice lie on the
  table and which are kept is not modelled. Any throw may give any rank. `Keep`
  stays as an action because it takes a turn back and restarts the timer.
* **Broadcasts and sends** are one step with their handler, but for those where
  the order matters: the bot's throw (`"played"`), the AFK warning (`"warned"`),
  the eviction's database call (`"evicting"`), the write at the end of a partie
  (`persists`, and `"persisting"` when a tiebreak timer waits for it).
* **Time.** Sleeps have no length, with one exception: an AFK timeout is at least
  10 s (`create_game`), the hold 1.5 s and the grace 3 s, so an AFK timer does
  not fire while a hold or a grace that has begun is running (`AfkMayFire`).
* **Players.** An id is issued once (the server makes a new one at every join).
  A player has one socket at a time. When the host goes anybody left may follow
  (`joined_at` is not modelled).
* **Rules of a room.** The bank rule can change; capacity, AFK setting and
  spectators are constants. The counters that only feed statistics or the display
  (`round_num`, `partie_number`, manches won, journal) are left out.
* **The web client.** What is drawn is reduced to which screen, which controls and
  which notices there are. Content that is loaded is a version number of its
  subject on the server (`world`): enough to tell whose it is and whether it is
  older. Pages that do the same with different content are rows of one table,
  dialogs that differ in what they send are one, and answers carry no reason for a
  refusal. A tab keeps its width; `Client` has the table of one room without its
  rules, since `Screen` has those.
* **After its end** a room that left the registry does nothing (`Closed`).

## 3. The runs that pass

Each property is described at its definition. Players are symmetric where the
specification has no fairness and treats them alike.

| Run | Instance | Question |
| --- | --- | --- |
| `MCTable` | 3 players, 3 chips, 2 throws, 2 ranks, both rules, queued at any time, 1 point | Engine without departures: chips conserved, phase and bank agree, rhythm kept, nobody alone in a match, hand live, scores below limits, the loser opens, rules wait for a match, `Match` implemented; deadlock checked. |
| `MCRoom` | 3 players who act and come back, 2 chips, 2 throws | All interleavings of messages, holds, timers, bot turns, warnings, handbacks and writes, nobody goes: a wake-up ends its own turn and passes the hand to somebody who has yet to throw, if there is one; the rhythm is the starter's, and the match rules still hold; deadlock checked. |
| `MCRoomLinks` | 3 players who act and come back, 1 disconnection, admin kick or eviction | No chip is made, and none lost while everybody who joined is there; phase and bank agree when a connection is lost and comes back, with a handback pending or not: no late commit and no second wake-up settles a cycle anew. |
| `MCRoomDepartures` | 3 players who act and come back, 1 leave or host kick | A host stays at the table, and the hand with who has it unless that player goes. |
| `MCRoomLive` | 3 players, 1 of them acting | With idle players and the fairness below: turns are played and committed, opening rolls made, tiebreaks resolved, parties followed by the next; no path leaves the awaited player without a timer. |
| `MCRoomLone` | 2 players, 1 leave or kick, rules queued | Who is left alone in a charge, a décharge or a finished room is released. |
| `MCScreen` | 2 players, 2 messages each way, both rules | When nothing is in flight, offered controls are accepted and the awaited player has one; a throw ends the turn by itself exactly when no throw is shown to be left; the trophy goes to another than the loser; deadlock checked. |
| `MCClient` | the host and a guest, a journal of 5, 3 cards, 5 happenings, 5 clicks, 2 messages in flight, wide and narrow | Losses are announced, absences told once, notices of being out stay, other notices go away, rules nobody edited stay. |
| `MCApp` | 2 accounts (one of them staff), 2 logins, 3 requests of the session, 2 of pages, 3 clicks, 1 failure, eight tours | Answers about old tokens end no session, the splash ends, buttons come back, the lobby catches up, lists are those asked for and not older than one's own acts. |

### The bounds

* Three players are needed for a middle (a tie of two out of three, a departure
  that leaves a game, a seat before and a seat after the hand); two are enough
  where the question is about one player and the rest.
* `Chips` is 11 in the code and 2 here, 3 in `MCTable`: a charge that ends with a bank run dry
  in the middle of a transfer, a décharge in which a player sits out at zero, and a
  match that ends. Nothing in the engine depends on 11 but the comparison with the
  total.
* `Throws` is 3 in the code: 2 tell "a throw is left" from "the cap is reached";
  where a departure is the question 1 is enough. Two ranks give a winner, a loser
  and every pattern of ties of three players.
* `PointsToLose` is the points that end a partie; 1 makes the end of a partie near.
  That the limits are kept for any value is proved (section 5).
* `MaxFaults` bounds how often somebody goes: 1 where anybody may. `Exits` says how.
* In `Room` the number of pending writes is not bounded by a constant; the state
  spaces are finite because a departure is needed for a second one.

* `MaxLag` is the number of messages on their way: 2 let a click cross a state and
  a second click follow before the first is answered, and a notice be followed by
  a state.
* `Window` is 40 in the code and `MaxCards` 10: 5 and 3 let a journal lose its
  beginning and the row of cards be full. `MaxEvents` (what happens at the table) is
  as long as the window; the page is opened where everybody has lost a match and
  played, so that one more event ends a match and a round. `MaxClicks` of `Client`
  is enough to open the form twice, edit and save. `Mixes` divides what happens at a
  table into three kinds of behaviour, of which one is chosen at the start: absences
  and ties, departures and notices, rules.
* In `App`, `MaxLogins` 2 let a second login overtake the answers of the first;
  `MaxCalls` 3 are the effects of two tokens and one form; `MaxAsks` 2 let one load
  overtake another; `MaxClicks` 3 reach a dialog, its answer and the page after it;
  `MaxFailures` 1 (refusals do not count). Two `Subject`s are two filters or ids.
  `Tours` says which pages are linked in one behaviour: each tour has the pages that
  have to do with each other, and redirects leave it. `MCAppName` has two names, one
  of them taken, where `MCApp` has one. `MaxKeys` 1 lets one be typed in each; clearing
  the field does not count.

`CHECK_DEADLOCK FALSE` is said in the runs of `Room` with departures or idle
players: there a room whose players have no timer and send nothing really stops.
It is said in the runs of the client, where the user has clicked enough.

### Fairness

`FairSpec` assumes that the event loop goes on: what is due - a sleep over, a
timer expired, a write returned - is run at some time, and a dissolution that was
started is carried out. asyncio runs ready callbacks in order and every sleep of
the code is finite, so this much is given. `SomethingDue` is `ENABLED
<<Due>>_vars` in closed form, because TLC's evaluation of `ENABLED` goes through
every throw. Nothing is assumed of the players: an acting player may send nothing
for ever, or keep and release a die for ever (each message restarts its timer),
which is why `TurnsArePlayed` speaks of idle players. Nothing is assumed of dice:
equal lowest rolls may repeat, which is why `InitialRollsAreMade` asks only for
rolls to go on, and `TiebreaksMove` only for the hand to move.

In `Client` the browser hears what arrived and runs its timers; nothing is assumed
of the server, the host or the other players. In `App` every request is answered
or fails (`fetch` ends one way or the other), each load on its own (`AskSlots`) since
a later one may be answered over and over, and the lobby's interval keeps running.
Nothing is assumed of the user.

## 4. The runs that are violated

Each shows one disagreement between the code and what a document, a comment or a
test of the repository says; `PROJECT.json` quotes both.

| Run | What happens |
| --- | --- |
| `MCTableRulesSkipped` | A rule queued in the last match of a partie is not applied when the next partie starts. |
| `MCRoomLostTimer` | The player whose turn it is disconnects: its timer is cancelled and nobody plays for it. |
| `MCAppName` | The check of a user name is under way, the field is cleared, and the verdict appears beside the empty field: clearing takes no new id, so the old answer is not seen to be superseded. |

These are why a property stands in a passing run only where its hypothesis holds:
`TurnsArePlayed` and `PartiesGoOn` where sockets stay open, for instance, and
`LoneSurvivorIsReleased` neither in a tiebreak nor while a partie is being written. In the
same way the following come out of the model when a run or a property is changed, and
have no run of their own:

| Change | What happens |
| --- | --- |
| `MCRoomLinks` with `WakesOnItsOwnTurn` | A player reconnects while the bot's turn is being broadcast (`ws.py:621`). `_abort_bot_handback` finds a snapshot and no task yet, drops the snapshot and gives nothing back (`ws.py:651-653`, though the comment at `ws.py:612` counts on the snapshot being found): the turn stays validated, its commit is started, and `done` sent by the player ends the turn before the commit does, or an administrator removes a player whose handler sleeps. |
| `MCRoomLive` with `Exits = {"leave"}`, `MaxFaults = 1` and `TurnsAreCommitted` | Somebody leaves in the grace of another player's bot turn (`ws.py:1086`): rescheduling cancels the commit. |
| `MCRoomLive` with `Exits = {"disconnect"}`, `MaxFaults = 1` and `PartiesGoOn` | The player whose timer ended the partie disconnects during the write (`ws.py:715`): the task is cancelled and the next partie never starts. |
| `MCRoomLive` with `Exits = {"leave"}`, `MaxFaults = 1` | `TiebreaksMove`: a tied player leaves and the hand rests with it (`ws.py:1044-1050`). `InitialRollsAreMade`: the last player who has to roll leaves, and the order of play is never settled (`ws.py:1049`). |
| `MCRoomDepartures` with `Exits = {"admin"}` | `HandSurvivesDepartures`: the admin kick does not move the index (`admin.py:1053`). `HostIsSeated`: it keeps an empty room, and the next to join finds a host who has gone (`admin.py:1064`). |
| `MCRoomLone` with "tiebreak" among the phases of `LoneSurvivorIsReleased` | Of two tied players the one whose throw is awaited leaves (`ws.py:1044-1050`): `next_pid` stays with who has gone, and as both have fresh turns `all_done` is false and the settlement that would find one player left (`logic.py:658-662`) is not reached. The other waits for a throw nobody can make, until it leaves too. |
| `MCRoomLone` with `Exits = {"evict"}` | `LoneSurvivorIsReleased`: an eviction settles nothing (`afk_eviction.py:219`). |
| `MCRoomLinks` with `"admin"` in `Exits` and `MaxFaults = 2` | `PoolFitsPhase(game)`, said also after departures: a player comes back while its bot turn is being broadcast (`ws.py:621`), so that two wake-ups are to come; the first ends the partie, an administrator removes the loser, and the second settles the cycle of those who are left, whose tie is to return to "finished". |
| `MCRoomLinks` with `"leave"` in `Exits` | `PoolFitsPhase(game)`, said also after departures: a leave while the room is finished settles the last cycle again and may start a tiebreak that returns to "finished" (`ws.py:1083`). |
| `MCRoomLinks` with `ImplementsMatch` | The commit of a turn whose player came back during its broadcast (`ws.py:621`) and validated it again with `done`, and a handler of the cycle that followed, both settle that cycle: while the partie is being written its loser loses a match a second time, and a new match begins. |
| `MCRoom` with `"disconnect"` in `Exits` and `StarterSetsTheRhythm` | A player comes back during the broadcast of its bot turn (`ws.py:621`) and sends `done`: the hand is passed on by its handler, and once more by the commit, past a starter who has not played. |
| `MCClient` with `OpponentToastGoesAway` | On the narrow layout a state without a new play clears the timer of the opponents' toast and sets none: the toast stays (`GameMobile.jsx:611`). |
| `MCClient` with `OwnTurnIsToasted` | Once the journal is cut at its beginning, the number of one's own turns in it stops rising and the toast is not shown (`Game.jsx:129`). |
| `MCApp` with `c.by # "effect"` dropped from `OldAnswersEndNoSession`, so that no answer about an old token names anybody | A logs in and the effect's request is answered; A logs out and B logs in; then the `me` request of A's login answers (`useAuth.js:28-29`, likewise 51-52 for Google and 61-63 for `refreshUser`) and sets the user without a look at the token: the tab shows A under B's token until something asks again. |
| `MCClient` with `SavedRulesAreQueued`, `MaxClicks = 6` | A queued rule edited back to the live one differs in nothing and is not sent: the panel cannot take it back (`RoomSettingsPanel.jsx:65`, against `ws.py:1349`). |
| `MCClient` with `DissolutionIsShown` | On the narrow layout the notice that the room was dissolved is in no overlay (`Game.jsx:161`). |

Five more are written into the model as the code has them. Three are in the engine: in décharge a tie for
the best rank is not thrown again when somebody else is last (`ResolveRound`); a
queued rule takes effect at every round point, not only between parties
(`FinalizeCycle`); newcomers who wait are seated without a look at the capacity
(`AdmitWaiting`). Two are in `Client`. The entries of a bot's turn that is taken
back stay in the journal, since its length is noted after they were written
(`ws.py:617`), though the comment at `ws.py:671` means them to go; what goes is what was
logged in the grace, the return of another player for instance. And a player whose bot
turn was committed is announced as back (`log_afk_return`, `ws.py:994-1006`) only while it
is in `afk_session`, from which the rescheduling for its own next turn takes it
(`_cancel_afk` at `ws.py:823`, `ws.py:730`): at its own turn, where the comment at
`ws.py:989-992` expects the announcement, there is none (`docs/ROADMAP.md:541`, G58, asks
why it is not seen). `Scheduled` is that rescheduling, of any player; `ServerReturn` is
the announcement, where it is still made.

## 5. What is proved

Every invariant and every action property that a passing run checks is a theorem of
its specification - in `Room` with the ways to go restricted as the hypotheses below say -
for every value of the constants the assumptions admit.
The theorems of `Table`, `Room` and `Screen` are for any set of players and any values of the
constants that satisfy the assumptions of `Rules` (`PlayerAssumption`,
`BoundsAssumption`, `DiceAssumption`, `RuleAssumption`): `NoPlayer` is no player;
there is a chip, a throw, a point to lose and a combination; prices are natural
numbers; rules are "sec" or "free".

The engine's functions are operators from a game to a game, so what one of them does
is a lemma without variables, and both specifications use it: `Table`, where
nobody goes, and `Room`, where everything may happen between two steps. The lemmas
come in layers, types and scores in `RulesProofs`, chips and turns in `CycleProofs`; a theorem is the sum of one lemma per action.
(A transfer is written as two nested `EXCEPT`s: `tlapm` 1.4.5 reads a second `@` in one
`EXCEPT` from the original function, which is another value when both players are one.)

### The engine (`TableProofs` on the lemma modules)

| Theorem | Says |
| --- | --- |
| `TypeCorrect == Spec => []TypeOK` | No operation leaves the domain of a field: bank and holdings never go below zero; starter, host and hand are players or nobody. |
| `ValidatedTurnsCompare == Spec => []TurnsHaveRanks` | A turn that began has the rank of its last throw: `_resolve_round` never reads a rank that is not there. |
| `BankTellsThePhase == Spec => []PoolMatchesPhase` | Charge is played exactly as long as the bank has chips. |
| `LimitsAreActedOn == Spec => []ScoresBelowLimits` | A second lost match becomes a point and the last point ends the partie in the step that reaches it. |
| `RulesWaitForAMatch == Spec => RulesChangeBetweenMatches` | Queued rules never reach a match under way. |
| `ChipsAreConserved == Spec => []ChipsConserved` | No transfer, tiebreak, reset or admission makes or loses a chip. |
| `DuelStaysAlive == Spec => []DuelAlive` | A match in play has two active players, with chips to lose in a décharge. |
| `StarterLeadsTheCycle == Spec => []StarterSetsTheRhythm` | Nobody throws before the starter or more often. |
| `HandStaysLive == Spec => []HandIsLive` | The table waits for a player who may throw. |
| `LoserOpens == Spec => LoserOpensNextCycle` | Who takes chips opens the next cycle. |
| `TableImplementsMatch == Spec => ImplementsMatch` | The whole engine implements `Match`. |

None of them but the type is inductive. The invariants are nested:

* `TypeInv == TypeOK /\ TurnsHaveRanks` (`RulesProofs`). Settling a cycle takes the
  transfer from `Fiches[turn.rank]`, a number only when validated turns have ranks.
  `ResolveRoundCases` reduces the settlement to its five outcomes with a loser, a
  winner and a price that exist because a finite range of ranks has extremes
  (`LeastExists`); transfers fit the bank or the giver (`TakeFromBankType`,
  `GiveToLoserType`).
* `ScoreInv == TypeInv /\ Sound(game) /\ HoldFits` (`RulesProofs`). `Sound` adds that
  a partie with a loser is finished - without it a point could be added to a partie
  already lost. `HoldFits` says that the sleeping handler wakes up in the phase it
  went to sleep in: settling a cycle in the middle of a tiebreak would charge the
  wrong price and return to the wrong phase. `EndMatchSound` and `TakeFromBankSound`
  hold the arguments that matter, the limits and the empty bank; each operator above
  them only passes a game on that keeps bank and scores (`SameScores`, `SameTable`).
  `Keeps` carries along what a step may do to the rules.
* `EvenInv == ScoreInv /\ Even(game)` (`CycleProofs`). Conservation needs to know who
  is in the sum: nobody is seated twice or both seated and waiting, and who is not
  seated has neither chips nor lost matches (`Apart`), or an admitted newcomer would
  bring some. That a match goes on needs more: nobody holds every chip of a match in
  play (`Shared`), who sits out holds none, and the tied players are active ones
  the winner of the cycle is not among (`TiedPlay`), or a tiebreak would make a
  player pay itself. `ResolveRoundPays` and `TiebreakPays` say that the loser takes
  between one chip and what there is, from the bank or from one winner (`Pays`);
  `FinalizeCycleEven` closes the cycle (`Settles`). `NextEven` sums up what a step
  does to a match (`MatchStep`), and `NextImplements` reads off which action of
  `Match` that is.
* `TurnInv == EvenInv /\ Turns(game, hold)` (`CycleProofs`) says how far the cycle is.
  Counted from the starter's seat, the hand is some `d` places on; the active players
  before it have validated and those behind it have not thrown (`Round`); the player
  with the hand may throw, or is done while its handler sleeps (`Hand`); and the cap
  is one to `Throws`, at most the starter's throws once it is done, at least
  everybody else's (`Capped`). In a tiebreak the order names nobody twice and, from
  the hand on, no tied player has thrown (`TieHand`). `Advance` skips who sits out, so
  the proof counts seats modulo the table (`ModApart`, `ModAdd`, `ModTurn`): within
  one turn nobody is met twice (`SeatsDiffer`) and everybody is met (`SeatsReached`),
  so either somebody behind the hand has not thrown or all are done (`AdvanceHand`).
  `Takes` is carried through the end of a cycle for `LoserOpens`.

The last section of `RulesProofs` has what the chips need of `Total`, the sum over a set of seats: it is a
natural number, zero when every share is, moves with a transfer, and equals the share
of one player exactly when the others have none. `Total` is a fold; the fold is a
recursive function on the subsets of a finite set, and each fact is shown by looking at
a smallest subset on which it would fail (`SmallestSubset`) instead of by induction.

### The room (`RoomProofs`)

| Theorem | Says |
| --- | --- |
| `RoomTypeCorrect == Spec => []TypeOK` | Whatever the players send, whoever goes, in whatever way and at whatever moment, a room stays well-formed, its tasks, sleepers and snapshots included. |
| `RoomConservesChips == Spec => []ChipsConserved` | Whoever goes, and in whatever way, no interleaving of holds, bot turns, handbacks, lost sockets, departures and writes makes a chip; while everybody who joined is there, none is lost. |
| `HostStaysSeated`: `Exits \subseteq {"disconnect", "leave", "kick"}` gives `Spec => []HostIsSeated` | A room with players has its host among them. |
| `HandSurvives`: the same gives `Spec => HandSurvivesDepartures` | A departure takes the hand from nobody but the player who goes. |

The invariant is `RoomInv`: `TypeOK`; the game is `Tidy`, that is well-typed with ranks
where turns need them and with nobody seated twice (`Apart`); the tasks are `Timed` -
snapshots can be given back to a game, nobody is evicted where evictions do not happen;
who is known to the game was seen at the door; bank and seated players have at most the
match's chips, and while the seats are kept exactly those. That a seat once given up is
never taken again carries the last part over each step (`GoneForGood`: who goes from the
table is neither seated nor waiting any more, and does not join a second time). The
invariant is far weaker than the one of `Table`, and has to be: a departure settles a
cycle in whatever phase the room is, a commit comes after the turn it was for, a
handback gives back the rhythm of a cycle that is over. So each lemma about the engine
is proved a second time for **any** tidy game (`Upholds`: stays tidy, the index stays at
the table, host, seats and total are kept; `GoneTakes` for who goes), without the
hypotheses on phase and hand under which `Table` calls it. `EngineStep` and `GoneStep`
turn it into the effect of a step with and without a departure (`Orderly`).

`HostStaysSeated` rests on `HostInv`: a registered room is as it was created or has its
host seated - a host who leaves passes the role on before the cycle is settled, and
settling seats newcomers but unseats nobody. `HandSurvives` needs that the index is
at the table: then the seats before the hand move up by one with the index
(`SeatsMoveUp`), and the walk to the next active seat meets the same players
in the same order without the one who went (`OrderStays`, `HandPasses`), all the way
round if it must (`OnceRound`). The hypothesis on `Exits` is not for convenience: TLC
shows both properties violated with `"admin"` or `"evict"` (section 4), which move
neither index nor starter, and keep an emptied room whose first newcomer finds a host
who has gone.

### The room nobody leaves (`RoomTurnProofs`)

Here `Exits = {}`: the players send what they like, fall idle, let the bot play and
take turns back, but nobody leaves, is removed or loses the connection. The
hypothesis is not for convenience here either: section 4 has a run in which a lost
connection violates the first, the second and the last.

| Theorem | Says |
| --- | --- |
| `WakesOnOwnTurn == Spec => WakesOnItsOwnTurn` | A hold that is over and a commit of the bot's turn end the turn they began with: it is the current player's and validated, and while somebody has yet to throw the hand passes to such a player, and that is all that happens. |
| `StarterLeadsTheRoom == Spec => []StarterSetsTheRhythm` | Nobody throws before the starter or more often, bot turns and turns taken back included. |
| `AwaitedIsTimed`: `AfkBot` and `~Returns` give `Spec => []SomeoneIsTimed` | Whoever the table waits for has a timer or a commit, or a handler is about to go on. |
| `RoomImplementsMatch == Spec => ImplementsMatch` | The whole room implements `Match`: no cycle is settled twice. |

The invariant is `RoomTurnInv`: `RoomInv`, `Sound` and `Even` as for the table, and
`Stage`. A room is at every moment in one of four stages:

* `Free`: no handler sleeps, no write is under way, and a timer that will play a turn
  belongs to the player with the hand, who has yet to play (`TimersFit`). The game is
  as between two steps of `Table` (`Turns(game, "none")`), and with the bot the awaited
  player is `Watched`.
* `Ending(p)`: the turn of `p`, who has the hand, is validated and not advanced. Either
  `p`'s handler sleeps, or the bot played it (`BotCommits`) and its commit is to come -
  never both, and nobody else's timer will move the hand. For a bot turn the snapshot
  matters: giving it back must lead to a `Free` room again (`GivenBack`), with the cap
  of the rhythm as it was.
* `Tying(p)`: `p`'s throw decided a tiebreak and its handler sleeps.
* `Writing`: the partie is lost and exactly one task or handler waits for the write.

A weaker invariant - each task fits the hand, each snapshot fits its turn - is not kept:
two commits under way would each advance the hand, and only `Stage` says that there is
one. The steps then read as moves between stages. `TurnTimerFits` has the timer's turn,
`BotPlaysGoes` the way from `Free` to `Ending`, `TakesBack` the way back, `TurnEndsGoes`
and `TiebreakEndsGoes` the way on (`TurnEndsPasses`: as long as somebody has yet to throw, to
such a player and no further), to a free room or one that writes (`Concluded`), and
`PartieGoes` from there. Messages either leave the hand alone (`SameHandStage`) or are
accepted only from the player who has it. That a turn can be validated a second time while
the bot's is on display, through `done`, is not excluded by the code; `ValidateAgain`
shows that the cap stays one the starter reached. Each step does to the game
what a step of `Table` does, or gives a turn back (`EndTurnFollows`, `TiebreakFollows`,
`StartNewPartieFollows`, `TurnAndCapAreSame`), so `Even` and `Match` follow from the
lemmas on the engine.

`AwaitedIsTimed` is about the bot switched on. Without `~Returns` it is false: the
player who takes a turn back by a new connection has no timer until it sends a
message (`ws.py:1422`: the handback is aborted and nothing rescheduled).

### The room whose players lose their connection (`RoomTurnProofs`, second part)

Here `"leave" \notin Exits`: connections are lost and come back any number of times,
and hosts, administrators and evictions remove players at any moment. Both properties
are said while everybody who joined is still there (`SeatsKept`).

| Theorem | Says |
| --- | --- |
| `RoomBankTellsThePhase`: gives `Spec => []PoolMatchesPhase` | Charge is played exactly as long as the bank has chips. |
| `RoomDuelStaysAlive`: gives `Spec => []DuelAlive` | A match in play has two active players, with chips to lose in a décharge. |

`Stage` does not describe this room: a player who comes back while the bot's turn is being
broadcast (`ws.py:621`) keeps the validated turn, whose commit is still to come, and may
validate it a second time, so two wake-ups may be to come for one turn, and a sleeper does not look again at the phase it wakes in. The invariant is
`LinksSafe == SeatsKept => LinksInv`, which says nothing of who sleeps. `LinksInv` has
four parts:

* `BankFits`: phase and bank agree, nobody but the loser of a finished partie holds all
  chips, two players sit, the tied are active; who sits out has no chips, nobody sits
  out in a charge, and in a décharge the active players have chips (`MatchFits`).
* `TimersKnow`: a timer that has warned its player plays a turn that is not over, turn
  timers belong to seated players, and a snapshot to be given back is of a turn that was
  not over, with no turn timer beside it.
* `Settling`, the heart of it: in a tiebreak somebody active has yet to play whom no turn
  timer is about to play for (`Unfinished`), so a wake-up that comes there advances the
  index and settles nothing. In a finished partie the same, or the turns at the table
  are those that ended it and end it again (`Over`): settling them once more finds the
  same loser with all chips, and no tie.
* `Quiet`: before the first match nobody sleeps or waits, so no wake-up comes then.

The engine lemmas say what a settlement does from such a state (`ResolveRoundFits`,
`EndTurnFits`, `ResolveTiebreakFits`, `StartNewPartieFits`), and each message and timer
keeps the four parts (`NextLinked`). A removal ends `SeatsKept` for good
(`TheRemovedAreMissed`, `GoneForGood`), so nothing is left to show after it.
`RoomDuelStaysAlive` adds the chips of `RoomInv`: with the bank empty the seats hold all
of them, nobody holds all alone, so two players have some (`TwoPlayOn`), and who has
chips does not sit out. No run has `DuelAlive` of a room (`MCTable` has that of the
engine): here the theorem stands for it.

`"leave"` is left out because of a player who only waits for a seat. Its leave keeps
`SeatsKept` - the waiting list is not touched (`ws.py:1044`) - and yet settles the cycle
or sets a timer, also for a turn that is validated (`ws.py:1083`); when it starts a tie no
timer is set, so timers of validated turns may be left for all who throw for it, and
`Settling` does not follow. TLC finds neither property violated with `"leave"`, three
players and two departures; the proof does not reach it.

### The page at the table (`ScreenProofs`)

For any table, any player `Me` and any `MaxLag` above zero (`TabAssumption`):

| Theorem | Says |
| --- | --- |
| `TabPlaysTheTable == TabSpec => Spec` | Whatever the tab sends and however late it arrives, the table takes a step of its own: what is proved of `Table` holds of the table the tab plays at. |
| `TabTypeCorrect == TabSpec => []TabTypeOK` | View, inbox and outbox stay well-formed. |
| `NoOfferIsRefused == TabSpec => []OffersAreAccepted` | No control of an up-to-date screen is refused. |
| `NobodyWaitsWithoutControl == TabSpec => []AwaitedIsOffered` | Whoever the table waits for has a control. |
| `TrophyNeverToTheLoser == TabSpec => []TrophyIsEarned` | The player who lost the partie is never shown as its winner. |
| `RhythmIsShown == TabSpec => RhythmShownIsKept` | A throw ends the turn exactly when the next state shows none left. |

A screen shows a state of the past, so the argument has two halves.

* `ToldInv == TurnInv /\ Told(game)` is about the table alone: what the page makes of a
  state is right for every state of the table. `Told` has what `TurnInv` does not say
  because the engine does not need it: seated players are asked for an opening roll
  (`Asked`); somebody seated has fewer chips than who lost the partie (`Earned`); the
  cap is that of the rules before the starter validates and one afterwards if only one
  throw is allowed (`Paced`). It is kept because whatever ends a cycle leads to a fresh
  cycle, a tiebreak or the end (`Opened`).
* `ChannelInv` is about the socket: the newest state among inbox and view is the state
  of the table (`Synced`), and whatever is under way satisfies `Earned`
  (`WereTables`). `TrophyIsEarned` is said of any view, also one long out of date, and
  therefore needs the second; the controls are about an up-to-date screen and need the
  first (`ShowsTheTable`).

The theorems about the controls then compare two ways to compute the same thing, phase by
phase (`OfferedIsAccepted`, `AcceptedIsOffered`): `canRoll` and `canDone` work with the
throws left, the server with the cap, and they agree because a turn that reached its
cap was validated on the spot (`Hand`). For `RhythmIsShown` it must also be known that
nothing but a throw adds to a turn (`OnlyRollsThrow`, from `Renewed`: whatever settles
a cycle leaves, renews or takes away a turn).

### The notices (`ClientProofs`)

For any players, fields, mixes of happenings, lag and clicks, any `Window` and
`MaxCards` above zero (`JournalAssumption`: 40 and 10 in the code) and any encoding of
"nobody" that is no player and no event (`NobodyAssumption`):

| Theorem | Says |
| --- | --- |
| `OutIsKept == Spec => OutStaysOut` | Who was told it is out is told so for good. |
| `OtherRulesStay == Spec => RulesNotEditedStay` | A save from a form opened on an up-to-date view leaves what the host did not touch. |
| `LossesAnnouncedOnce == Spec => LossesAreAnnounced` | Every lost match is announced as it arrives, and once. |
| `AbsencesToldOnce == Spec => []AbsenceIsToldOnce` | The takeovers of one absence are never on two cards, and on one while there is room; an absence ends by a handback in the grace or by a later action. |

`PageInv` is the invariant they share: the room, every message under way, the view and
the form are well-formed, and every journal among them has its entries numbered in the
order in which they were written (`Ordered`). Each of the server's handlers moves the
room to another and appends the messages about it (`Serves`, `ServerServes`), so that
each further invariant says something of three places at once: the room, the messages,
and what the page made of the last one it was shown.

* `OutInv`: a message that evicts `Me` has no other eviction behind it, and `Me` is no
  longer at the table; otherwise a second eviction would take the first notice away.
* `RulesInv`: a field the host has not touched has in the form, and in the diff that was
  sent, the value it has on the server, or is not sent. It is restricted to forms and
  saves that are `fresh`, as the property is; a form opened on an
  older view may send back what has changed since.
* `LossInv`: the page knows a loss by its fingerprint, a name and a count, and the
  journal is cut to `Window` entries, so that a loss can have fallen out of it when the
  next one comes. The same player may lose with the same count again, but not twice in a
  row: `Chain` says that along the journals shown, under way and in the room each loss
  that is new has another fingerprint than the one kept then (`News`), and that the
  last fingerprint `Fits` the losses the server counts, one in the round so far or the
  second, which ended the round. It names the journals shown and the fingerprints kept
  message by message as functions, which makes it inductive (`ChainAdds` for a message
  sent, `ChainShown` for one received).

`AbsenceIsToldOnce` follows from `PageInv` alone, as it is about any journal in order. `Cards`
is a fold over the journal with a test of the cards before; the fold is unfolded into
its values after each entry (`FoldExists`, `CardsUnfold`) and `CardsInv` is shown to be kept
by each of them: no two cards are of one event, a takeover's card stands for it alone,
and while there is room every takeover told has a card. Which takeovers are told is
decided before the fold: of one absence never two (`OneIsTold`), and always the first
(`FirstIsTold`). The headlines are a filtered list, whose places are found by counting
(`At`, `Above`, `HeadlinesAre`).

### The tab outside the game (`AppProofs`)

For any accounts, subjects, staff, tours and bounds that satisfy `SessionAssumption` (a
token is nobody's value for "none", there is room for a login and a request) and
`AppAssumption` (staff are accounts, tours are sets of pages):

* `AppIsASession == Spec => SessionSpec`: whatever the pages, forms, dialogs and
  redirects do, the tab takes steps of `Session` or leaves it alone. It is the
  composition that is proved here: what holds of every session holds of the tab.
* `SessionTypeCorrect == Spec => []SessionTypeOK`: in particular the token in use and
  the stored one never differ.
* `SplashEnds == Spec => []SplashIsAwaited`: the splash screen is up only while the
  effect of the current token has a live request.
* `OldAnswersAreHarmless == Spec => OldAnswersEndNoSession`: an answer about an old token
  leaves token, stored token and splash screen alone, and the effect's names nobody.
  One of `login` or `refreshUser` may: it sets the user to the account it asked about.
* `UrlIsShown == Spec => []ShownIsAsked`: a page about one filter, account or room shows
  what its URL asks for.
* `ActsAreSeen == Spec => []OwnActsAreSeen`: no load that was answered before a change
  the user was told of is on display after it.

`SplashIsAwaited` is not inductive: an effect's answer takes the splash away, so it
matters that no other live request of an effect is under way, about a token that is
gone. `SessionInv` adds `LiveIsOfToken`, a live request of the effect is about the
token of the session. `TokenSetCalls` is where it is decided: setting a token
cancels every live request before it sends one. `OldAnswersAreHarmless` follows from
the same invariant, because an answer of the effect that changes something is live, and
the other requests never touch token or splash (`FormStep`).

`PageInv` is the invariant of the pages. What is on display was heard, so it follows
what may still be heard:

* `Asking`: a load the mounted page hears was sent for its key and, if it is answered,
  was answered after the change the page was told of (`Fits`). It is kept because the
  cleanup of an effect unhears every load before the effect sends one (`LoadedFits`:
  the one place where it is decided), and because only pages without a key ask
  again without forgetting (`AskMoreGoes`: the lobby's poll, Profile's focus).
* `Showing`: with a token, a page with a key that neither loads nor failed has content
  that `Fits`. It needs that such a page is blanked by every effect and shows its
  failures (`RouteRows`, which goes through the table of pages), and that it asks
  whenever there is a token: it is a page for the staff, and `Seen` says that who is on
  it is staff, since every new session is either admitted or sent elsewhere
  (`AdmittedIsRoute`, `RedrawnFits`).
* `Based`: requests have numbers of their own, also beside those of the session
  (`AskSlotFree`, by counting); an answer or an acknowledged change is not newer than
  the server, so a load that is answered later cannot be older (`GetsOn`); dialogs and
  what they acknowledge belong to pages with a key.
* `Veiled`: under the splash screen, where no page is mounted, nothing is asked but by
  the session's effect.

Every action then goes to a page that fits: it mounts or loads one (`GoToFits`,
`LandFits`, `RedrawnFits`), changes nothing one can see and hears no more
(`LessHeardNext`), sends a request (`OneMore`) or gets one on (`GetsOnNext`). The proof
showed that the drawing of a page for a new session (`Redrawn`) was written with cases
that overlap, where TLA+ leaves the choice open and TLC takes the first; they are
ordered now.

## 6. What is only model-checked

* Liveness under fairness, and the absence of deadlock (`ENABLED`).
* Of `Room`: `PoolMatchesPhase` and `DuelAlive` where a waiting player may leave
  (section 5). And a refinement of `Table` by `Room` is not among
  the proofs even where nobody goes: the bot throws and validates in one step, and a
  handback undoes it.
* The type invariant of `Client`: one field is a journal filtered by `SelectSeq`, of which
  the provers know nothing. No theorem needs it.
* Of `App` and `Client`: that forms come back, the lobby catches up and notices go away,
  which are liveness.
  `ShownIsAsked` and `OwnActsAreSeen` are said while there is a token, in the runs as in
  the theorems: any failure of the effect's request forgets the token but not the user
  (`useAuth.js:15-19`), and a page with a user and no token asks for nothing, while
  it goes on showing what it has.

## 7. What is not modelled, and why

On the server, accounts, mail, contact forms, rankings and moderation are single
transactions or pure functions around a database; middleware and start-up are
wiring. Broadcast failures, chat and its limits, spectators and overlapping sockets
of one player are not modelled. In the client, language and theme, consent and the
static pages keep preferences of one browser; which dice are kept, the chat, the
admin's banner, a reload or a change of width in the middle of a game, the redirect
of a complete account away from `CompleteProfile`, and the validation of fields
other than the user name are left out. The hazards that no property covers are
listed in `PROJECT.json` with the reason.

## 8. Plan

In the order of what matters most; done items first.

1. *Done.* `Rules`, `Table`, `Match`: the engine, its invariants, its abstract
   specification.
2. *Done.* `Room`: handlers, sleeps, timers, bot, departures.
3. *Done.* Proofs of every property of `Table` and of the refinement of `Match`; of
   `Room` type correctness, chips, host and hand under departures, phase, bank and
   duel under lost connections as long as the seats are kept, and turns, rhythm, timers
   and `Match` where nobody goes (`RulesProofs`, `CycleProofs`, `TableProofs`,
   `RoomProofs`, `RoomTurnProofs`).
4. *Done.* `Screen`, `Journal`, `Client`: the game page beside the server, with the
   proofs of its controls and of its notices (`ScreenProofs`, `ClientProofs`).
5. *Done.* `Session`, `SignUp`, `Pages`, `App`: the tab outside the game, with the
   proofs that it is a session and that its pages show what was asked for.
6. `Connections`: the sockets of one player as they overlap - the scan and close in
   `ConnectionManager.connect`, the `finally` block of an old socket after a new
   one came, `done` sent on both; spectators. Runs with two sockets per player.
7. `Persistence`: the write of a partie as read, add and write in two rooms of one
   account, failures swallowed, a leave while the room is finished; abstract
   specification "each partie counts once for each of its players". The manche
   counters join `Rules` here.
8. `Eviction`: clock, warnings, anti-grief count and chat ban, with concurrent
   evictions of one account.
9. `Dice`: classification of three dice against a reference ordering, all 216
   throws; the bot's keepers; the hierarchy that `Fiches` abstracts. `Elo`: ratings
   over bounded tables, sums and floors.
10. `Accounts`: reset and verification tokens under concurrent requests.
11. A theorem that names what survives in `Room` when players are removed, beyond
    chips, host and hand: with `"leave"` or `"admin"` phase and bank may part (section 4).

## 9. Running

```
tlc -workers 2 -config MCTable.cfg MCTable.tla
tlapm RulesProofs.tla
tlapm CycleProofs.tla
tlapm TableProofs.tla
tlapm RoomProofs.tla
tlapm RoomTurnProofs.tla
tlapm ScreenProofs.tla
tlapm ClientProofs.tla
tlapm AppProofs.tla
```

The longest run, `MCClient`, takes about three minutes with two workers; the proofs
a few minutes from nothing.
