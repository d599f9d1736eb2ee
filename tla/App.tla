--------------------------------- MODULE App ---------------------------------
(***************************************************************************)
(* One tab of the web client outside the game: App.jsx with the session    *)
(* (Session.tla), the page that is mounted (Pages.tla), what that page has *)
(* asked of the server, and the form for a new account (SignUp.tla).       *)
(*                                                                         *)
(* A page is unmounted while its requests go on.  What it sets from their  *)
(* answers is lost with it, where they navigate to is not: "heard" holds   *)
(* the requests whose answers the mounted page still takes.                *)
(***************************************************************************)
EXTENDS Session, SignUp, Pages

CONSTANTS
  Staff,        \* accounts whose role is admin or moderator
  Subject,      \* filters and ids a URL may hold
  Whole,        \* what a page without one asks for
  MaxAsks,      \* requests of pages under way at which polls and clicks stop
  MaxClicks,    \* links, buttons and changes on the server, at most
  MaxFailures,  \* requests that fail without a reason, at most
  Tours         \* sets of Route, one of which is toured

ASSUME AppAssumption ==
  /\ Staff \subseteq Account /\ Whole \notin Subject
  /\ MaxAsks \in Nat \ {0} /\ MaxClicks \in Nat /\ MaxFailures \in Nat
  /\ Tours \subseteq SUBSET Route

VARIABLES
  page,    \* the mounted page; under the splash screen, the page of the URL
  asks,    \* its requests under way, and those of pages left
  world,   \* versions of what the server holds, per subject
  timer,   \* ResetPassword's setTimeout
  spent,   \* clicks and failures so far
  tour
pageVars == <<page, asks, world, timer, spent, tour>>
appVars == <<session, calls, logins, field, checks, page, asks, world, timer, spent, tour>>

Nothing == [key |-> Whole, ver |-> 0]
Topic == Subject \cup {Whole}
\* "acked" only serves OwnActsAreSeen: the newest change of a subject that this
\* page was told has been made.
PageState ==
  [at : Route, key : Topic, loading : BOOLEAN, error : BOOLEAN,
   data : [key : Topic, ver : Nat], heard : SUBSET Nat, modal : Modal \cup {"none"},
   sending : Nat, busy : SUBSET (Form \cup Entrance), done : BOOLEAN,
   acked : [key : Topic, ver : Nat]]
Ask == [n : Nat, what : {"load", "seat"} \cup Command, step : {"sent", "done", "lost"},
        key : Topic, token : Token \cup {Nobody}, ver : Nat]

----------------------------------------------------------------------------
(* Mounting, loading and redirecting.  Each operator gives the page and    *)
(* the requests, as one record.                                            *)

Row(at) == Routes[at]
AskSlot(as) == CHOOSE n \in (MaxCalls + 1)..(MaxCalls + 1 + Cardinality(as)) :
                 \A a \in as : a.n # n
IsStaff(s) == s.user \in Staff

Fresh(at, k) ==
  [at |-> at, key |-> k, loading |-> Row(at).loads # "never", error |-> FALSE,
   data |-> Nothing, heard |-> {}, modal |-> "none", sending |-> 0, busy |-> {},
   done |-> FALSE, acked |-> Nothing]

\* <Navigate>: to the login page, or to one's profile.
Admitted(at, s) ==
  IF Row(at).needs # "staff" \/ IsStaff(s) THEN at
  ELSE IF s.user = Nobody THEN "login" ELSE "profile"

\* The first line of the effects.
Wants(at, s) ==
  CASE Row(at).loads = "never" -> FALSE
    [] Row(at).needs = "staff" -> s.token # Nobody /\ IsStaff(s)
    [] Row(at).needs = "user" -> s.token # Nobody /\ s.user # Nobody
    [] OTHER -> TRUE

Asked(pg, as, s, what) ==
  [n |-> AskSlot(as), what |-> what, step |-> "sent", key |-> pg.key,
   token |-> s.token, ver |-> 0]

\* cancelled = true, for the load of the effect that is cleaned up.
Unheard_Never(pg, as) == pg.heard
Unheard(pg, as) == pg.heard \ {a.n : a \in {b \in as : b.what = "load"}}

\* An effect runs (again): blanked, the page has no dialog, whose "submitting"
\* is gone when it comes back.
Loaded(pg, as, s) ==
  LET a == Asked(pg, as, s, "load")
      blank == Row(pg.at).blanks
  IN  IF Wants(pg.at, s)
      THEN [asks |-> as \cup {a},
            page |-> [pg EXCEPT !.loading = @ \/ blank, !.error = @ /\ ~Row(pg.at).forgets,
                                !.sending = IF blank THEN 0 ELSE @,
                                !.heard = Unheard(pg, as) \cup {a.n}]]
      ELSE [asks |-> as, page |-> [pg EXCEPT !.heard = Unheard(pg, as)]]

\* navigate(): a page stays mounted when only its key changes.
GoTo(u, s, at, k) ==
  LET to == Admitted(at, s)
  IN  IF to # u.page.at THEN Loaded(Fresh(to, k), u.asks, s)
      ELSE IF k # u.page.key THEN Loaded([u.page EXCEPT !.key = k], u.asks, s) ELSE u
Land(u, s, c) == IF LandsOn(c) = "stay" THEN u ELSE GoTo(u, s, LandsOn(c), Whole)

\* The page is drawn again for a new session; "named" says that setUser was
\* called, with an object of its own even for the same user.  Profile compares
\* user names, and without a user draws none of its cards.
Deps(pg, s, t, named) ==
  CASE Row(pg.at).needs = "staff" -> s.token # t.token \/ named
    [] Row(pg.at).needs = "user" -> s.token # t.token \/ s.user # t.user
    [] OTHER -> FALSE
Redrawn(u, s, t, named) ==
  LET pg == u.page
      to == Admitted(pg.at, t)
  IN  IF t.splash THEN u
      ELSE IF s.splash \/ to # pg.at THEN Loaded(Fresh(to, pg.key), u.asks, t)
      ELSE IF Deps(pg, s, t, named)
           THEN Loaded([pg EXCEPT !.busy = IF t.user = Nobody THEN {} ELSE @], u.asks, t)
           ELSE u

\* What a loading page shows; the others show what they have.
Shown(pg) ==
  IF pg.loading THEN "loading" ELSE IF pg.error /\ Row(pg.at).tells THEN "error" ELSE "data"

Here == [page |-> page, asks |-> asks]
Opens(u) == page = u.page /\ asks = u.asks
Becomes(u) == page' = u.page /\ asks' = u.asks
Clicked == ~session.splash /\ spent.clicks < MaxClicks /\ Cardinality(asks) < MaxAsks
           /\ spent' = [spent EXCEPT !.clicks = @ + 1]
FieldAfter == IF page'.at = "signup" THEN UNCHANGED signUpVars
              ELSE field' = EmptyForm /\ checks' = {}

----------------------------------------------------------------------------
(* The user.                                                               *)

Links == Row(page.at).links \cup TopBar(page.at, session.user # Nobody, IsStaff(session))

Visit(at, k) ==
  /\ Clicked /\ at \in Links \cap tour /\ (k = Whole <=> ~Row(at).keyed)
  /\ Becomes(GoTo(Here, session, at, k)) /\ page' # page
  /\ FieldAfter /\ UNCHANGED <<sessionVars, world, timer, tour>>

\* The refresh button of the room list: the effect runs again.
Refreshes ==
  /\ Clicked /\ page.at = "rooms" /\ Becomes(Loaded(page, asks, session))
  /\ UNCHANGED <<sessionVars, signUpVars, world, timer, tour>>

\* Asking once more without forgetting what was asked before: the lobby's
\* refresh button, its interval, and the window regaining the focus on Profile.
AskMore == LET a == Asked(page, asks, session, "load")
           IN  Becomes([asks |-> asks \cup {a}, page |-> [page EXCEPT !.heard = @ \cup {a.n}]])
AsksAgain ==
  /\ Clicked /\ page.at \in {"lobby", "profile"} /\ Wants(page.at, session) /\ AskMore
  /\ UNCHANGED <<sessionVars, signUpVars, world, timer, tour>>
Poll_Once == FALSE
Poll ==
  /\ page.at = "lobby" /\ ~session.splash /\ Cardinality(asks) < MaxAsks /\ AskMore
  /\ UNCHANGED <<sessionVars, signUpVars, world, timer, spent, tour>>

OpenModal(m) ==
  /\ Clicked /\ Shown(page) = "data" /\ m \in Row(page.at).modals /\ page.modal = "none"
  /\ page' = [page EXCEPT !.modal = m]
  /\ UNCHANGED <<sessionVars, signUpVars, asks, world, timer, tour>>

\* "Cancel", or a click beside the dialog; its request goes on.
CloseModal ==
  /\ ~session.splash /\ Shown(page) = "data" /\ page.modal # "none"
  /\ page' = [page EXCEPT !.modal = "none", !.sending = 0]
  /\ UNCHANGED <<sessionVars, signUpVars, asks, world, timer, spent, tour>>

\* A dialog's button is disabled while its own request is under way.
SendModal ==
  /\ Clicked /\ Shown(page) = "data" /\ page.modal # "none" /\ page.sending = 0
  /\ LET a == Asked(page, asks, session, page.modal)
     IN  Becomes([asks |-> asks \cup {a},
                  page |-> [page EXCEPT !.sending = a.n, !.heard = @ \cup {a.n}]])
  /\ UNCHANGED <<sessionVars, signUpVars, world, timer, tour>>

\* The forms disable their button; joining a table and lifting a ban do not.
Unguarded == {"join", "joinCode", "lift", "google"}
MaySubmit(c) ==
  /\ c \in Row(page.at).sends /\ ~page.done /\ c \notin page.busy
  /\ page.at = "profile" => session.user # Nobody
  /\ page.at \in {"profile", "lobby", "userDetail"} => Shown(page) = "data"
  /\ c = "register" => MaySend
Flagged(pg, c, n) == [pg EXCEPT !.heard = @ \cup {n},
                                !.busy = IF c \in Unguarded THEN @ ELSE @ \cup {c}]
Submit(c) ==
  /\ Clicked /\ c \notin Entrance /\ MaySubmit(c)
  /\ LET a == Asked(page, asks, session, c)
     IN  Becomes([asks |-> asks \cup {a}, page |-> Flagged(page, c, a.n)])
  /\ UNCHANGED <<sessionVars, signUpVars, world, timer, tour>>
SubmitEntrance(by, account) ==
  /\ Clicked /\ MaySubmit(by) /\ Enter(by, account)
  /\ page' = Flagged(page, by, Slot(calls))
  /\ UNCHANGED <<signUpVars, asks, world, timer, tour>>

LogOut ==
  /\ Clicked /\ page.at # "game" /\ session.user # Nobody /\ Logout
  /\ Becomes(Redrawn(Here, session, session', TRUE))
  /\ FieldAfter /\ UNCHANGED <<world, timer, tour>>

TypeName(x) ==
  /\ page.at = "signup" /\ ~session.splash /\ Type(x)
  /\ UNCHANGED <<sessionVars, pageVars>>

----------------------------------------------------------------------------
(* The server.                                                             *)

\* Whose token a request needs.
Allowed(a) ==
  CASE a.what \in Modal \cup Direct -> a.token # Nobody /\ a.token.owner \in Staff
    [] a.what \in {"complete", "edit", "avatar", "export", "deleteAccount"} -> a.token # Nobody
    [] OTHER -> TRUE
Changes(a) == a.what \in Modal \cup Direct

Serve(a) ==
  /\ a \in asks /\ a.step = "sent" /\ Allowed(a)
  /\ world' = IF Changes(a) THEN [world EXCEPT ![a.key] = @ + 1] ELSE world
  /\ asks' = (asks \ {a}) \cup {[a EXCEPT !.step = "done", !.ver = world'[a.key]]}
  /\ UNCHANGED <<sessionVars, signUpVars, page, timer, spent, tour>>

\* Refused, or failing on its way there or back.
Lost(a) == asks' = (asks \ {a}) \cup {[a EXCEPT !.step = "lost", !.ver = 0]}
Refuse(a) ==
  /\ a \in asks /\ a.step = "sent" /\ ~Allowed(a) /\ Lost(a)
  /\ UNCHANGED <<sessionVars, signUpVars, page, world, timer, spent, tour>>
Fail(a) ==
  /\ a \in asks /\ a.step # "lost" /\ spent.failures < MaxFailures /\ Lost(a)
  /\ spent' = [spent EXCEPT !.failures = @ + 1]
  /\ UNCHANGED <<sessionVars, signUpVars, page, world, timer, tour>>

\* Somebody opens or closes a table.
TablesChange ==
  /\ Clicked /\ "lobby" \in tour /\ world' = [world EXCEPT ![Whole] = @ + 1]
  /\ UNCHANGED <<sessionVars, signUpVars, page, asks, timer, tour>>

----------------------------------------------------------------------------
(* Answers.                                                                *)

Heard(a) == a.n \in page.heard
Without(a) == [page EXCEPT !.heard = @ \ {a.n}]
\* The request is over; the page becomes pg if it heard the answer.
Over(a, pg) == [page |-> IF Heard(a) THEN pg ELSE page, asks |-> asks \ {a}]

ShowLoad(a) ==
  /\ a \in asks /\ a.what = "load" /\ a.step # "sent"
  /\ Becomes(Over(a,
       IF a.step = "done"
       THEN [Without(a) EXCEPT !.loading = FALSE, !.data = [key |-> a.key, ver |-> a.ver],
                               !.error = @ /\ page.at # "lobby"]
       ELSE [Without(a) EXCEPT !.loading = FALSE, !.error = TRUE]))
  /\ UNCHANGED <<sessionVars, signUpVars, world, timer, spent, tour>>

\* The finally of a form, or its catch; ForgotPassword always says "sent".
Cleared_OnSuccess(pg, a) ==
  [pg EXCEPT !.busy = IF a.step = "done" THEN @ \ {a.what} ELSE @]
Cleared(pg, a) == [pg EXCEPT !.busy = @ \ {a.what}]
\* The form that made a room is the one that waits for the seat.
FormOf(a) == IF a.what = "seat" THEN [a EXCEPT !.what = "create"] ELSE a

\* A command failed.
HearFailure(a) ==
  /\ a \in asks /\ a.what # "load" /\ a.step = "lost"
  /\ Becomes(Over(a, [Cleared(Without(a), FormOf(a))
                      EXCEPT !.done = @ \/ a.what = "forgot",
                             !.error = @ \/ a.what = "join",
                             !.sending = IF @ = a.n THEN 0 ELSE @]))
  /\ UNCHANGED <<sessionVars, signUpVars, world, timer, spent, tour>>

\* A dialog was answered: it closes, whichever is open by then, and the page is
\* loaded again; a ban that was lifted only does the latter.
Reloaded_Never(u, s) == u
Reloaded(u, s) == Loaded(u.page, u.asks, s)
HearDialog(a) ==
  /\ a \in asks /\ a.what \in {"sanction", "notice", "lift"} /\ a.step = "done"
  /\ LET u == Over(a, [Without(a) EXCEPT !.modal = IF a.what = "lift" THEN @ ELSE "none",
                                         !.sending = IF a.what = "lift" THEN @ ELSE 0,
                                         !.acked = [key |-> a.key, ver |-> a.ver]])
     IN  Becomes(IF Heard(a) THEN Reloaded(u, session) ELSE u)
  /\ UNCHANGED <<sessionVars, signUpVars, world, timer, spent, tour>>

\* The room is made, and joined next; if that fails it stays without anybody.
HearCreated(a) ==
  /\ a \in asks /\ a.what = "create" /\ a.step = "done"
  /\ asks' = (asks \ {a}) \cup {[a EXCEPT !.what = "seat", !.step = "sent"]}
  /\ UNCHANGED <<sessionVars, signUpVars, page, world, timer, spent, tour>>

\* A form was answered that ends here; "reset" starts its two seconds.
HearDone(a) ==
  /\ a \in asks /\ a.step = "done"
  /\ a.what \in {"contact", "forgot", "reset", "export", "join", "joinCode", "seat",
                 "deleteUser", "dissolve"}
  /\ Becomes(Land(Over(a, [Cleared(Without(a), FormOf(a))
                           EXCEPT !.done = @ \/ a.what \in {"contact", "forgot", "reset"}]),
                  session, FormOf(a).what))
  /\ timer' = (timer \/ a.what = "reset")
  /\ FieldAfter /\ UNCHANGED <<sessionVars, world, spent, tour>>

\* onLogout and navigate('/').
HearDeleted(a) ==
  /\ a \in asks /\ a.what = "deleteAccount" /\ a.step = "done"
  /\ Logout
  /\ Becomes(Land(Redrawn(Over(a, Without(a)), session, session', TRUE), session', a.what))
  /\ FieldAfter /\ UNCHANGED <<world, timer, spent, tour>>

\* refreshUser follows; the form waits for it as well.
HearSaved(a) ==
  /\ a \in asks /\ a.what \in Refresher /\ a.step = "done"
  /\ Refresh(a.what, a.token)
  /\ asks' = asks \ {a}
  /\ page' = [page EXCEPT !.heard = IF Heard(a) THEN (@ \ {a.n}) \cup {Slot(calls)} ELSE @]
  /\ UNCHANGED <<signUpVars, world, timer, spent, tour>>

\* The answers to the session's requests, with what becomes of the page.
HearEffect(c) ==
  /\ EffectKnowsUser(c) \/ EffectFails(c)
  /\ Becomes(Redrawn(Here, session, session', c.live))
  /\ FieldAfter /\ UNCHANGED <<world, timer, spent, tour>>

\* The last answer of a form: the flag is cleared, and the page left if it led
\* somewhere; a login does so only when it learnt who the user is.
Finished(c, ok, to) ==
  LET here == [page EXCEPT !.heard = @ \ {c.n},
                           !.busy = IF c.n \in page.heard THEN @ \ {c.by} ELSE @]
      u == Redrawn([page |-> here, asks |-> asks], session, session', ok)
  IN  Becomes(IF to = "stay" THEN u ELSE GoTo(u, session', to, Whole))
LeadsTo(c, ok) ==
  CASE c.by = "google" -> {"home", "complete"}
    [] c.by = "login" /\ ~ok -> {"stay"}
    [] OTHER -> {LandsOn(c.by)}

HearMe(c) ==
  /\ c.by # "effect" /\ c.step = "me"
  /\ \/ MeKnowsUser(c) /\ \E to \in LeadsTo(c, TRUE) : Finished(c, TRUE, to)
     \/ MeFails(c) /\ \E to \in LeadsTo(c, FALSE) : Finished(c, FALSE, to)
  /\ FieldAfter /\ UNCHANGED <<world, timer, spent, tour>>
HearRefused(c) ==
  /\ EntryRefused(c) /\ Finished(c, FALSE, "stay")
  /\ FieldAfter /\ UNCHANGED <<world, timer, spent, tour>>
HearAccepted(c) ==
  /\ EntryAccepted(c) /\ Becomes(Redrawn(Here, session, session', FALSE))
  /\ FieldAfter /\ UNCHANGED <<world, timer, spent, tour>>

\* Two seconds after a new password was accepted, wherever one is by then; on
\* the login page, whichever tab is open stays.
TimerFires ==
  /\ timer /\ timer' = FALSE
  /\ Becomes(IF page.at = "signup" THEN Here ELSE GoTo(Here, session, "login", Whole))
  /\ FieldAfter /\ UNCHANGED <<sessionVars, world, spent, tour>>

\* Waiting: the state of the room says that the game has begun.
GameBegins ==
  /\ page.at = "waiting" /\ ~session.splash /\ Becomes(GoTo(Here, session, "game", Whole))
  /\ UNCHANGED <<sessionVars, signUpVars, world, timer, spent, tour>>

----------------------------------------------------------------------------

\* The tab is opened on a page of the tour.
Init ==
  /\ SessionInit /\ FormInit
  /\ tour \in Tours /\ world = [t \in Topic |-> 1] /\ timer = FALSE
  /\ spent = [clicks |-> 0, failures |-> 0]
  /\ \E at \in tour, k \in Topic :
       /\ k = Whole <=> ~Row(at).keyed
       /\ Opens(IF session.splash THEN [page |-> Fresh(at, k), asks |-> {}]
                   ELSE Loaded(Fresh(Admitted(at, session), k), {}, session))

User ==
  \/ \E at \in Route, k \in Topic : Visit(at, k)
  \/ Refreshes \/ AsksAgain \/ CloseModal \/ SendModal \/ LogOut
  \/ \E m \in Modal : OpenModal(m)
  \/ \E c \in Command : Submit(c)
  \/ \E by \in Entry, a \in Account : SubmitEntrance(by, a)
  \/ \E x \in Name \cup {NoName} : TypeName(x)
Server == TablesChange \/ \E a \in asks : Serve(a) \/ Refuse(a) \/ Fail(a)
Hear(a) == ShowLoad(a) \/ HearFailure(a) \/ HearDialog(a) \/ HearCreated(a) \/ HearDone(a)
           \/ HearDeleted(a) \/ HearSaved(a)
HearCall(c) == HearEffect(c) \/ HearMe(c) \/ HearRefused(c) \/ HearAccepted(c)
SignUpTask ==
  /\ \E c \in checks : CheckStarts(c) \/ CheckAnswered(c) \/ CheckRead(c) \/ CheckFails(c)
  /\ UNCHANGED <<sessionVars, pageVars>>

Next ==
  \/ User \/ Server \/ Poll \/ SignUpTask \/ TimerFires \/ GameBegins
  \/ \E a \in asks : Hear(a)
  \/ \E c \in calls : HearCall(c)

Spec == Init /\ [][Next]_appVars

\* Every request is answered or fails, in whatever order; the interval of the
\* lobby keeps running.
AskSlots == (MaxCalls + 1)..(MaxCalls + MaxAsks + 1)
Answered(a) == Serve(a) \/ Refuse(a) \/ Hear(a)
FairSpec ==
  /\ Spec /\ WF_appVars(Poll) /\ WF_appVars(\E c \in calls : HearCall(c))
  /\ WF_appVars(\E a \in asks : a.what # "load" /\ Answered(a))
  /\ \A n \in AskSlots : WF_appVars(\E a \in asks : a.n = n /\ a.what = "load" /\ Answered(a))

----------------------------------------------------------------------------
(* Properties.                                                             *)

TypeOK ==
  /\ SessionTypeOK /\ page \in PageState /\ asks \subseteq Ask
  /\ \A a, b \in asks : a.n = b.n => a = b
  /\ page.sending \in {0} \cup {a.n : a \in asks}
  /\ page.heard \subseteq {a.n : a \in asks} \cup {c.n : c \in calls}

\* While there is a token, a page about one filter, account or room never shows
\* the content of another as its own: however the answers of successive filters
\* overtake each other, what is on display was asked for by the URL.
SignedIn == session.token # Nobody
ShownIsAsked ==
  SignedIn /\ Row(page.at).keyed /\ Shown(page) = "data" => page.data.key = page.key

\* Who was told that a sanction, a notice or a lifted ban went through sees its
\* effect: no load that was answered before it is displayed after it.
OwnActsAreSeen ==
  SignedIn /\ Shown(page) = "data" /\ page.acked.ver > 0 /\ page.acked.key = page.data.key
    => page.data.ver >= page.acked.ver

\* No button stays disabled: whichever request of a form or a dialog is refused
\* or fails, once the user stops clicking every flag is cleared or its page left.
Waiting == page.busy # {} \/ page.sending # 0
FormsComeBack == Waiting ~> ~Waiting

\* Whoever stays in the lobby ends up with the list the server has, though the
\* answers of its polls may overtake each other and some of them are lost.
LobbyCatchesUp ==
  <>[](page.at = "lobby") => <>[](page.data.ver = world[Whole])
=============================================================================
