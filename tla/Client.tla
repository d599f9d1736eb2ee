------------------------------- MODULE Client ------------------------------
(***************************************************************************)
(* The game page beside the play itself: the reducer of hooks/useGame.js   *)
(* with its notices, the banners and toasts of pages/Game.jsx and          *)
(* pages/GameMobile.jsx with their timers, and RoomSettingsPanel.jsx.  One *)
(* tab of the host of one room.                                            *)
(*                                                                         *)
(* The room is what the server puts on the wire, in the order in which its *)
(* handlers send it (app/game/ws.py, app/routers/admin.py,                 *)
(* app/services/afk_eviction.py); Screen.tla has the play controls.        *)
(***************************************************************************)
EXTENDS Journal

CONSTANTS
  Me,          \* the player of this tab
  Field,       \* the rules a host may queue
  MaxLag,      \* messages on their way to the tab, at most
  MaxEvents,   \* things that happen at the table, at most
  MaxClicks,   \* clicks on the settings, at most
  Mixes        \* what may happen in one behaviour: sets of Happening

Happening == {"play", "absence", "goes", "notice", "rules", "tiebreak"}
ASSUME TabAssumption == Me \in Player
ASSUME MixesAssumption == Mixes \subseteq SUBSET Happening

VARIABLES
  room,      \* the server's side: journal, plays of the cycle, roster, rules
  inbox,     \* messages on their way
  view,      \* the reducer's state: the last state received
  notes,     \* its notices: kicked, dissolved, warned, evicted, connected
  banner,    \* matchEnd and lastMatchEndFpRef
  own,       \* selfPlay and selfTurnsSeenRef
  opp,       \* useOpponentPlayToast
  panel,     \* RoomSettingsPanel: open, editing, draft
  mobile,    \* useMediaQuery: the narrow layout, of one width all along
  saves,     \* update_room_rules on their way to the server
  clicks,    \* spent of MaxClicks
  mix        \* of Mixes, chosen at the start
clientVars == <<room, inbox, view, notes, banner, own, opp, panel, mobile, saves, clicks, mix>>
serverVars == <<view, notes, banner, own, opp, panel, mobile, saves, clicks, mix>>

Value == {1, 2}                 \* the two values a rule may take
Unset == 0                      \* a field with nothing queued
RoomState == [log : Seq(Event), plays : Seq(Player), players : SUBSET Player,
              losses : [Player -> 0..1], phase : {"charge", "tiebreak"},
              rules : [Field -> Value], pending : [Field -> Value \cup {Unset}],
              open : BOOLEAN, n : Nat, away : SUBSET Player]
NoView == [log |-> <<>>, plays |-> <<>>, players |-> {}, phase |-> "none",
           rules |-> [f \in Field |-> 1], pending |-> [f \in Field |-> Unset]]
NoNotes == [connected |-> FALSE, kicked |-> FALSE, dissolved |-> FALSE,
            warned |-> FALSE, evicted |-> Nobody]
\* "touched" and "fresh" only serve RulesNotEditedStay: the fields set in
\* this form, and whether it was opened on an up-to-date view.
Closed == [open |-> FALSE, edit |-> FALSE, draft |-> [f \in Field |-> 1],
           touched |-> {}, fresh |-> TRUE]

----------------------------------------------------------------------------
(* The server.                                                             *)

NewRoom ==
  [log |-> <<>>, plays |-> <<>>, players |-> Player, losses |-> [p \in Player |-> 0],
   phase |-> "charge", rules |-> [f \in Field |-> 1],
   pending |-> [f \in Field |-> Unset], open |-> TRUE, n |-> 0, away |-> {}]

Logged(r, key, p, count) ==
  [r EXCEPT !.n = @ + 1,
            !.log = Sent(Append(@, [key |-> key, name |-> p, count |-> count, n |-> r.n + 1]))]

\* What game_state() holds of the room.
StateOf(r) == [log |-> r.log, plays |-> r.plays, players |-> r.players, phase |-> r.phase,
               rules |-> r.rules, pending |-> r.pending]
StateMsg(r) == [type |-> "state", state |-> StateOf(r)]
NoteMsg(type, p) == [type |-> type, player |-> p]

\* The handler's messages leave in its order; the tab hears them while it is
\* seated and the room is open.
Send(r, msgs) ==
  /\ Len(inbox) + Len(msgs) <= MaxLag
  /\ room' = r /\ inbox' = inbox \o msgs
  /\ UNCHANGED serverVars

Running(kind) == room.open /\ Me \in room.players /\ room.n < MaxEvents /\ kind \in mix
InPlay == room.phase = "charge"

\* _schedule_afk, the last call of most handlers: who must act now gets a timer
\* and leaves afk_session, unless the bot is switched off.
Scheduled(r) == {r} \cup {[r EXCEPT !.away = @ \ {q}] : q \in Player}

\* A turn is validated: by its player or, after a takeover, by the bot.  An
\* action of a player who is still away logs its return first.
ServerTurn(p) ==
  /\ Running("play") /\ InPlay /\ p \in room.players \ (ToSet(room.plays) \cup room.away)
  /\ LET r == [Logged(room, "turn", p, 0) EXCEPT !.plays = Append(@, p)]
     IN  Send(r, <<StateMsg(r)>>)

ServerBotTurn(p) ==
  /\ Running("absence") /\ InPlay
  /\ p \in room.players \ (ToSet(room.plays) \cup room.away)
  /\ LET r == [Logged(Logged(room, "takeover", p, 0), "afk_turn", p, 0)
                 EXCEPT !.plays = Append(@, p), !.away = @ \cup {p}]
     IN  Send(r, <<StateMsg(r)>>)

\* _abort_bot_handback: the player takes the turn back within the grace.  What
\* was logged after the bot's turn, the return of somebody (one at most here),
\* goes from the journal; the takeover and the bot's turn stay.
ServerHandback(p) ==
  /\ Running("absence") /\ room.plays # <<>> /\ Last(room.plays) = p /\ room.log # <<>>
  /\ LET cut == IF Last(room.log).key = "return" THEN Front(room.log) ELSE room.log
         kept == [room EXCEPT !.log = cut]
         r == [Logged(kept, "handback", p, 0)
                 EXCEPT !.plays = Front(@), !.away = @ \ {p}]
     IN  /\ cut # <<>> /\ Last(cut).key = "afk_turn" /\ Last(cut).name = p
         /\ Send(r, <<StateMsg(r)>>)

\* _dispatch, before the action itself: the first action of a player whose bot
\* turn was committed.  When the action is refused no state follows.
ServerReturn(p) ==
  /\ Running("absence") /\ p \in room.away
  /\ LET r == [Logged(room, "return", p, 0) EXCEPT !.away = @ \ {p}]
     IN  Send(r, <<StateMsg(r)>>) \/ Send(r, <<>>)

\* _finalize_bot_turn, and the handler that wakes from its hold: the turn is
\* advanced and the next player scheduled.
ServerAdvances ==
  /\ Running("absence") /\ room.away # {}
  /\ \E r \in Scheduled(room) \ {room} : Send(r, <<StateMsg(r)>>)

\* _finalize_cycle: the plays are cleared; a match may end, its second loss
\* ends a round, and the queued rules take effect.
ServerCycle(loser) ==
  /\ Running("play") /\ InPlay /\ room.plays # <<>> /\ ToSet(room.plays) = room.players
  /\ LET count   == room.losses[loser] + 1
         settled == [room EXCEPT !.plays = <<>>]
         lost    == [Logged(settled, "match_lost", loser, count) EXCEPT
                       !.losses = IF count = 2 THEN [p \in Player |-> 0]
                                  ELSE [@ EXCEPT ![loser] = 1],
                       !.rules = IF count = 2
                                 THEN [f \in Field |-> IF room.pending[f] = Unset THEN @[f]
                                                       ELSE room.pending[f]]
                                 ELSE @,
                       !.pending = IF count = 2 THEN [f \in Field |-> Unset] ELSE @]
     IN  \E r \in Scheduled(settled) \cup Scheduled(lost) : Send(r, <<StateMsg(r)>>)

ServerTiebreak ==
  /\ Running("tiebreak")
  /\ LET moved == [room EXCEPT !.phase = IF InPlay THEN "tiebreak" ELSE "charge", !.n = @ + 1]
     IN  \E r \in Scheduled(moved) : Send(r, <<StateMsg(r)>>)

\* Another player goes: evicted by its timer, or leaving.
ServerGoes(p, evicted) ==
  /\ Running("goes") /\ p \in room.players \ {Me}
  /\ LET gone == [room EXCEPT !.players = @ \ {p}, !.n = @ + 1,
                              !.plays = SelectSeq(@, LAMBDA q : q # p), !.away = @ \ {p}]
         left == IF evicted THEN Logged(gone, "evicted", p, 0) ELSE gone
     IN  \E r \in Scheduled(left) :
           Send(r, (IF evicted THEN <<NoteMsg("player_evicted_afk", p)>> ELSE <<>>)
                     \o <<StateMsg(r)>>)

\* This player is warned, evicted or kicked; an admin dissolves the room.
ServerWarns == Running("notice") /\ Send([room EXCEPT !.n = @ + 1], <<NoteMsg("eviction_warning", Me)>>)
ServerEvictsMe ==
  /\ Running("notice")
  /\ LET r == [Logged(room, "evicted", Me, 0) EXCEPT !.players = @ \ {Me}]
     IN  Send(r, <<NoteMsg("player_evicted_afk", Me), StateMsg(r)>>)
ServerKicksMe ==
  /\ Running("notice")
  /\ LET r == [room EXCEPT !.players = @ \ {Me}, !.n = @ + 1]
     IN  Send(r, <<NoteMsg("kicked", Me), StateMsg(r)>>)
ServerDissolves ==
  /\ Running("notice")
  /\ Send([room EXCEPT !.open = FALSE], <<NoteMsg("room_dissolved", Me), NoteMsg("close", Me)>>)
\* The socket drops.
Drop == Running("notice") /\ Send([room EXCEPT !.open = FALSE], <<NoteMsg("close", Me)>>)

\* update_room_rules: a value equal to the live one drops what was queued.
ReceiveSave ==
  /\ saves # <<>> /\ Len(inbox) < MaxLag
  /\ LET diff == Head(saves).diff
         r == [room EXCEPT !.pending = [f \in Field |->
                 CASE diff[f] = Unset -> @[f]
                   [] diff[f] = room.rules[f] -> Unset
                   [] OTHER -> diff[f]]]
     IN  room' = r /\ inbox' = Append(inbox, StateMsg(r))
  /\ saves' = Tail(saves)
  /\ UNCHANGED <<view, notes, banner, own, opp, panel, mobile, clicks, mix>>

----------------------------------------------------------------------------
(* The page.                                                               *)

Piste(v) == v.phase # "tiebreak"
MobileShown(v) == mobile /\ Piste(v)

\* GameMobile forgets its toast whenever another screen takes its place.
NextOpponentToast(v) ==
  IF ~MobileShown(v) THEN Quiet
  ELSE ToastOpponent(IF MobileShown(view) THEN opp ELSE Quiet, v.plays, Me)

\* The panel is drawn on the piste only; coming back it is drawn anew, open
\* on the wide layout, whose page keeps showRoomSettings.
NextPanel(v) ==
  IF Piste(v) THEN panel ELSE [Closed EXCEPT !.open = panel.open /\ ~mobile]

\* Reducer: STATE is laid over what is there, the notices stay.
Kept_Fresh(ns) == [NoNotes EXCEPT !.connected = TRUE]
Kept(ns) == [ns EXCEPT !.connected = TRUE]

ShowState ==
  /\ inbox # <<>> /\ Head(inbox).type = "state"
  /\ LET v == Head(inbox).state
     IN  /\ view' = v
         /\ notes' = Kept(notes)
         /\ banner' = Announce(banner, v.log)
         /\ own' = IF Me \in v.players THEN ToastOwnTurn(own, v.log, Me) ELSE own
         /\ opp' = NextOpponentToast(v)
         /\ panel' = NextPanel(v)
  /\ inbox' = Tail(inbox)
  /\ UNCHANGED <<room, mobile, saves, clicks, mix>>

\* Reducer: KICKED, ROOM_DISSOLVED, EVICTION_WARNING, PLAYER_EVICTED_AFK,
\* DISCONNECTED.
Noted(ns, m) ==
  CASE m.type = "kicked" -> [ns EXCEPT !.kicked = TRUE]
    [] m.type = "room_dissolved" -> [ns EXCEPT !.dissolved = TRUE]
    [] m.type = "eviction_warning" -> [ns EXCEPT !.warned = TRUE]
    [] m.type = "player_evicted_afk" -> [ns EXCEPT !.evicted = m.player]
    [] m.type = "close" -> [ns EXCEPT !.connected = FALSE]

ShowNotice ==
  /\ inbox # <<>> /\ Head(inbox).type # "state"
  /\ notes' = Noted(notes, Head(inbox)) /\ inbox' = Tail(inbox)
  /\ UNCHANGED <<room, view, banner, own, opp, panel, mobile, saves, clicks, mix>>

BannerTimeout_Piste ==
  /\ Piste(view) /\ banner.shown # Nobody /\ banner' = [banner EXCEPT !.shown = Nobody]
  /\ UNCHANGED <<room, inbox, view, notes, own, opp, panel, mobile, saves, clicks, mix>>

\* Timers, and the click that does the same earlier.
BannerTimeout ==
  /\ banner.shown # Nobody /\ banner' = [banner EXCEPT !.shown = Nobody]
  /\ UNCHANGED <<room, inbox, view, notes, own, opp, panel, mobile, saves, clicks, mix>>
OwnToastTimeout ==
  /\ own.shown # Nobody /\ own' = [own EXCEPT !.shown = Nobody]
  /\ UNCHANGED <<room, inbox, view, notes, banner, opp, panel, mobile, saves, clicks, mix>>
OpponentToastTimeout ==
  /\ opp.timer /\ opp' = [opp EXCEPT !.shown = Nobody, !.timer = FALSE]
  /\ UNCHANGED <<room, inbox, view, notes, banner, own, panel, mobile, saves, clicks, mix>>

\* What lies over the page, as Game.jsx and GameMobile.jsx draw it.
Alone == notes.evicted \notin {Nobody, Me} /\ Cardinality(view.players) <= 1
Overlays ==
  IF ~Piste(view) THEN {}
  ELSE {o \in {"OpponentLeft"} : Alone} \cup
       (IF mobile THEN {}
        ELSE {o \in {"Kicked"} : notes.kicked} \cup {o \in {"Dissolved"} : notes.dissolved}
               \cup {o \in {"EvictionWarning"} : notes.warned}
               \cup {o \in {"Evicted"} : notes.evicted = Me})

DismissWarning ==
  /\ "EvictionWarning" \in Overlays /\ notes' = [notes EXCEPT !.warned = FALSE]
  /\ UNCHANGED <<room, inbox, view, banner, own, opp, panel, mobile, saves, clicks, mix>>

\* The settings panel, as the host uses it.
Effective(r, f) == IF r.pending[f] = Unset THEN r.rules[f] ELSE r.pending[f]
Seed_Live(v) == v.rules
Seed(v) == [f \in Field |-> Effective(v, f)]
CanEdit == view.phase \in {"charge", "tiebreak"}
Put(p) == panel' = p /\ UNCHANGED <<room, inbox, view, notes, banner, own, opp, mobile, mix>>
Use(p) == clicks < MaxClicks /\ clicks' = clicks + 1 /\ Put(p)

OpenPanel == Piste(view) /\ view.players # {} /\ ~panel.open
             /\ Put([Closed EXCEPT !.open = TRUE]) /\ UNCHANGED <<saves, clicks>>
\* The cross, or a click beside the dialog, with a form open or not.
ClosePanel == panel.open /\ Piste(view) /\ Put(Closed) /\ UNCHANGED <<saves, clicks>>
StartEdit == panel.open /\ Piste(view) /\ CanEdit /\ ~panel.edit
             /\ Use([panel EXCEPT !.edit = TRUE, !.draft = Seed(view), !.fresh =
                        \A f \in Field : Effective(view, f) = Effective(room, f) /\ saves = <<>>])
             /\ UNCHANGED saves
SetDraft(f, x) == panel.edit /\ panel.draft[f] # x
                  /\ Use([panel EXCEPT !.draft[f] = x, !.touched = @ \cup {f}]) /\ UNCHANGED saves
\* Escape and Cancel.
CloseEdit == panel.edit /\ Piste(view) /\ Put([Closed EXCEPT !.open = TRUE]) /\ UNCHANGED <<saves, clicks>>

\* saveEdit sends what differs from the live rules.
Diff(draft) == [f \in Field |-> IF draft[f] = view.rules[f] THEN Unset ELSE draft[f]]
SaveEdit ==
  /\ panel.edit /\ Piste(view) /\ CanEdit /\ saves = <<>>
  /\ Use([Closed EXCEPT !.open = TRUE])
  /\ saves' = IF notes.connected /\ \E f \in Field : Diff(panel.draft)[f] # Unset
              THEN <<[diff |-> Diff(panel.draft), draft |-> panel.draft,
                      touched |-> panel.touched, fresh |-> panel.fresh]>>
              ELSE saves

----------------------------------------------------------------------------

\* The page is opened when everybody has lost a match of the round and has
\* played in the cycle.
Init ==
  /\ room = [NewRoom EXCEPT !.losses = [p \in Player |-> 1], !.plays = SetToSeq(Player)]
  /\ inbox = <<StateMsg(room)>>
  /\ mix \in Mixes /\ view = NoView /\ notes = NoNotes
  /\ banner = NoBanner /\ own = NoToast /\ opp = Quiet /\ panel = Closed
  /\ mobile \in BOOLEAN /\ saves = <<>> /\ clicks = 0

Server ==
  \/ \E p \in Player : ServerTurn(p) \/ ServerBotTurn(p) \/ ServerHandback(p) \/ ServerReturn(p)
                       \/ ServerCycle(p) \/ \E e \in BOOLEAN : ServerGoes(p, e)
  \/ ServerAdvances \/ ServerTiebreak \/ ServerWarns \/ ServerEvictsMe \/ ServerKicksMe
  \/ ServerDissolves \/ Drop
Panel ==
  /\ "rules" \in mix
  /\ OpenPanel \/ StartEdit \/ CloseEdit \/ ClosePanel \/ SaveEdit
     \/ \E f \in Field, x \in Value : SetDraft(f, x)
Next ==
  \/ Server \/ ReceiveSave \/ ShowState \/ ShowNotice \/ BannerTimeout \/ OwnToastTimeout
  \/ OpponentToastTimeout \/ DismissWarning \/ Panel

Spec == Init /\ [][Next]_clientVars

\* The browser delivers what arrived and runs its timers.
FairSpec == Spec /\ WF_clientVars(ShowState \/ ShowNotice) /\ WF_clientVars(BannerTimeout)
                 /\ WF_clientVars(OwnToastTimeout) /\ WF_clientVars(OpponentToastTimeout)

----------------------------------------------------------------------------
(* Properties.                                                             *)

TypeOK ==
  /\ room \in RoomState
  /\ view.players \subseteq Player /\ view.phase \in {"none", "charge", "tiebreak"}
  /\ banner.shown \in Event \cup {Nobody} /\ own.shown \in Event \cup {Nobody}
  /\ opp.shown \in Player \cup {Nobody} /\ (opp.timer => opp.shown # Nobody)
  /\ notes.evicted \in Player \cup {Nobody}
  /\ panel.draft \in [Field -> Value] /\ (panel.edit => panel.open)

\* Every lost match is announced as it arrives, and once: the fingerprint
\* name:count never takes a new loss for the last one nor the last one for a
\* new one, however often the state is sent again and whatever else the journal
\* holds ("G13: pop a transient banner whenever a new manche event lands").
NewestLoss(v) == Newest(v.log, {"match_lost"})
LossesAreAnnounced ==
  [][ShowState => banner'.shown = IF NewestLoss(view') \in {Nobody, NewestLoss(view)}
                                  THEN banner.shown ELSE NewestLoss(view')]_clientVars

\* The banner and the toast of one's own turn do not stay for good: their
\* timers depend on nothing the states that follow would reset.
NoticesGoAway ==
  /\ (banner.shown # Nobody) ~> (banner.shown = Nobody)
  /\ (own.shown # Nobody) ~> (own.shown = Nobody)

\* Saving one rule leaves the others as they are: a form that was opened on an
\* up-to-date view requeues or drops nothing the host did not touch, whatever
\* took effect while it was open or while the save was on its way.
RulesNotEditedStay ==
  [][saves # <<>> /\ saves' = <<>> /\ Head(saves).fresh =>
       \A f \in Field \ Head(saves).touched : Effective(room', f) = Effective(room, f)]_clientVars

\* Who was told it is out (kicked, evicted, room dissolved) is still told so
\* after any state that arrives later.
OutStaysOut ==
  [][/\ notes.kicked => notes'.kicked
     /\ notes.dissolved => notes'.dissolved
     /\ notes.evicted = Me => notes'.evicted = Me]_clientVars

\* The ticker tells every absence once: the takeovers of an absence, however
\* many turns the bot plays, are on one card, and while there is room each
\* absence of the journal has its card.
Absence(log, i) ==
  {j \in Places(log, {"takeover"}) :
     /\ log[j].name = log[i].name
     /\ ~\E k \in DOMAIN log : /\ log[k].key \in BackKey /\ log[k].name = log[i].name
                               /\ (i < k /\ k < j) \/ (j < k /\ k < i)}
AbsenceIsToldOnce ==
  LET log == view.log
      cards == Cards(log)
      tells(c, i) == \E j \in Absence(log, i) : c.event = log[j]
  IN  \A i \in Places(log, {"takeover"}) :
        LET telling == {k \in DOMAIN cards : tells(cards[k], i)}
        IN  /\ Cardinality(telling) <= 1
            /\ \A k \in telling : cards[k].repeat = 1
            /\ Len(cards) < MaxCards => telling # {}

----------------------------------------------------------------------------
(* What the documents say of the page and it does not do.                  *)

\* GameMobile.jsx: the opponent-play toast "Auto-dismisses after 4.2s".  Every
\* state clears the timer, and only a new play sets another.
OpponentToastGoesAway == (opp.shown # Nobody) ~> (opp.shown = Nobody)

\* Game.jsx, G23: "pop a small bottom-right toast when MY turn ends".  The
\* turns are counted in a journal of which only the end is sent.
OwnTurnIsToasted ==
  [][\A e \in ToSet(view'.log) \ ToSet(view.log) :
       view.phase # "none" /\ e.key \in {"turn", "afk_turn"} /\ e.name = Me
         => own'.shown = e]_clientVars

\* ws.py: "Edited back to the current value -> drop the pending entry".  The
\* panel leaves a field out that was edited back to the live value.
SavedRulesAreQueued ==
  [][SaveEdit /\ notes.connected /\ panel.fresh => \A f \in panel.touched :
       panel.draft[f] # Effective(view, f) =>
         saves' # <<>> /\ saves'[1].diff[f] # Unset]_clientVars

\* Game.jsx, G95: "room dissolved by admin - full takeover screen".
DissolutionIsShown == notes.dissolved => "Dissolved" \in Overlays
=============================================================================
