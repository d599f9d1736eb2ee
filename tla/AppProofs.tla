----------------------------- MODULE AppProofs -----------------------------
(***************************************************************************)
(* Proofs about App.tla and Session.tla, for any accounts, subjects, tours *)
(* and bounds.  Whatever the pages do, the tab takes the steps of a        *)
(* session (AppIsASession); what is proved of every session then holds of  *)
(* the tab.  What a page about one filter, account or room shows is what   *)
(* its URL asks for (ShownIsAsked), and no older than the change the user  *)
(* was told of (OwnActsAreSeen).                                           *)
(***************************************************************************)
EXTENDS App, TLAPS, FiniteSetTheorems

----------------------------------------------------------------------------
(* Requests.                                                               *)

\* A free slot is one of the slots.
LEMMA SlotFree ==
  ASSUME NEW cs, MayAsk(cs)
  PROVE  Slot(cs) \in 1..MaxCalls
  BY DEF MayAsk, Slot

\* Asking who a token belongs to makes a request of the session.
LEMMA AskMeIsCall ==
  ASSUME NEW n \in 1..MaxCalls, NEW by \in {"effect"} \cup Entry \cup Refresher,
         NEW t \in Token
  PROVE  AskMe(n, by, t) \in Call
  BY DEF AskMe, Call, Token

\* The effect's cleanup leaves requests of the session, none of them the
\* effect's and live, and touches no request that was dead before.
LEMMA CancelledCalls ==
  ASSUME NEW cs \in SUBSET Call
  PROVE  /\ Cancelled(cs) \in SUBSET Call
         /\ \A c \in Cancelled(cs) : c.by = "effect" => ~c.live
         /\ \A c \in cs : ~(c.by = "effect" /\ c.live) => c \in Cancelled(cs)
<1>1. \A c \in Call : [c EXCEPT !.live = FALSE] \in Call
  BY DEF Call
<1>2. \A c \in Call : [c EXCEPT !.live = FALSE].live = FALSE
  BY DEF Call
<1>3. \A c \in Call : ~c.live => [c EXCEPT !.live = FALSE] = c
  BY DEF Call
<1> QED BY <1>1, <1>2, <1>3 DEF Cancelled

----------------------------------------------------------------------------
(* The invariant: a request of the effect that is live is about the token  *)
(* of the session.                                                         *)

LiveIsOfToken ==
  \A c \in calls : c.by = "effect" /\ c.live => c.token = session.token
SessionInv == SessionTypeOK /\ LiveIsOfToken /\ SplashIsAwaited

\* A new token starts one live request about it, and dead ones stay as they are.
LEMMA TokenSetCalls ==
  ASSUME SessionInv, NEW cs \in SUBSET Call, NEW t \in Token \cup {Nobody},
         cs \subseteq calls \cup {c \in Call : c.by # "effect"}, TokenSet(cs, t)
  PROVE  /\ calls' \in SUBSET Call
         /\ \A c \in calls' : c.by = "effect" /\ c.live => c.token = t
         /\ \A c \in cs : ~(c.by = "effect" /\ c.live) => c \in calls'
<1>1. CASE t = session.token /\ calls' = cs
  BY <1>1 DEF SessionInv, LiveIsOfToken
<1>2. CASE t = Nobody /\ calls' = Cancelled(cs)
  BY <1>2, CancelledCalls
<1>3. CASE t # Nobody /\ MayAsk(cs) /\ calls' = Cancelled(cs) \cup {AskMe(Slot(cs), "effect", t)}
  <2>1. Slot(cs) \in 1..MaxCalls
    BY <1>3, SlotFree
  <2>2. AskMe(Slot(cs), "effect", t) \in Call
    BY <1>3, <2>1, AskMeIsCall
  <2>3. AskMe(Slot(cs), "effect", t).token = t
    BY DEF AskMe
  <2> QED BY <1>3, <2>2, <2>3, CancelledCalls
<1> QED BY <1>1, <1>2, <1>3 DEF TokenSet

\* The tab opens without a token, or asking about the one it has stored.
LEMMA SessionInvInit == SessionInit => SessionInv
<1> SUFFICES ASSUME SessionInit PROVE SessionInv
  OBVIOUS
<1> USE SessionAssumption DEF SessionInv, LiveIsOfToken, SplashIsAwaited, SessionTypeOK, Session
<1>1. CASE /\ session = [token |-> Nobody, stored |-> Nobody, user |-> Nobody, splash |-> FALSE]
           /\ calls = {} /\ logins = 0
  BY <1>1
<1>2. CASE \E t \in Token :
             /\ t.n = 1 /\ logins = 1
             /\ session = [token |-> t, stored |-> t, user |-> Nobody, splash |-> TRUE]
             /\ calls = {AskMe(1, "effect", t)}
  <2>1. PICK t \in Token :
          /\ t.n = 1 /\ logins = 1
          /\ session = [token |-> t, stored |-> t, user |-> Nobody, splash |-> TRUE]
          /\ calls = {AskMe(1, "effect", t)}
    BY <1>2
  <2>2. AskMe(1, "effect", t) \in Call
    BY AskMeIsCall
  <2>3. /\ AskMe(1, "effect", t).by = "effect" /\ AskMe(1, "effect", t).live
        /\ AskMe(1, "effect", t).token = t
    BY DEF AskMe
  <2> QED BY <2>1, <2>2, <2>3
<1> QED BY <1>1, <1>2 DEF SessionInit

----------------------------------------------------------------------------
(* The steps of a session.  A request that is answered, c, is one of its   *)
(* requests; each lemma shows both the invariant and that an old token's   *)
(* answer ends no session.                                                 *)

\* What OldAnswersEndNoSession says of one step.
OldUnheard ==
  \A c \in calls \ calls' :
    c.step = "me" /\ c.token # session.token =>
      /\ session'.token = session.token /\ session'.stored = session.stored
      /\ session'.splash = session.splash
      /\ session'.user # session.user => c.by # "effect" /\ session'.user = c.account

\* The effect learns who the user is.
LEMMA EffectKnowsUserStep ==
  ASSUME SessionInv, NEW c, EffectKnowsUser(c)
  PROVE  SessionInv' /\ OldUnheard
<1> USE DEF SessionInv, EffectKnowsUser
<1>1. SessionTypeOK'
  BY DEF SessionTypeOK, Session, Call, Settled
<1>2. LiveIsOfToken'
  BY DEF LiveIsOfToken, SessionTypeOK, Session, Settled
<1>3. SplashIsAwaited'
  BY DEF SplashIsAwaited, LiveIsOfToken, SessionTypeOK, Session, Settled
<1>4. OldUnheard
  BY DEF OldUnheard, LiveIsOfToken
<1> QED BY <1>1, <1>2, <1>3, <1>4

\* The effect's request fails.
LEMMA EffectFailsStep ==
  ASSUME SessionInv, NEW c, EffectFails(c)
  PROVE  SessionInv' /\ OldUnheard
<1> USE DEF SessionInv, EffectFails
<1>1. CASE c.live
  <2>1. session' = [session EXCEPT !.stored = Nobody, !.token = Nobody, !.splash = FALSE]
    BY <1>1 DEF Settled, SessionTypeOK, Session
  <2>2. calls' = Cancelled(calls \ {c}) /\ c.token = session.token
    BY <1>1 DEF LiveIsOfToken
  <2>3. SessionTypeOK'
    BY <2>1, <2>2, CancelledCalls DEF SessionTypeOK, Session
  <2>4. LiveIsOfToken' /\ SplashIsAwaited'
    BY <2>1, <2>2, CancelledCalls DEF LiveIsOfToken, SplashIsAwaited, SessionTypeOK, Session
  <2>5. OldUnheard
    BY <2>2, CancelledCalls DEF OldUnheard, LiveIsOfToken, SessionTypeOK
  <2> QED BY <2>3, <2>4, <2>5
<1>2. CASE ~c.live
  <2>1. SessionTypeOK' /\ LiveIsOfToken' /\ SplashIsAwaited'
    BY <1>2 DEF SessionTypeOK, LiveIsOfToken, SplashIsAwaited
  <2> QED BY <1>2, <2>1 DEF OldUnheard
<1> QED BY <1>1, <1>2

\* A login, a registration or a Google sign-in is accepted.
LEMMA EntryAcceptedStep ==
  ASSUME SessionInv, NEW c, EntryAccepted(c)
  PROVE  SessionInv' /\ OldUnheard
<1> DEFINE t == [owner |-> c.account, n |-> logins + 1]
           me == [c EXCEPT !.step = "me", !.token = t]
           cs == (calls \ {c}) \cup {me}
<1>1. c \in Call /\ c.by \in Entry /\ c.by # "effect" /\ logins \in Nat /\ logins < MaxLogins
  BY SessionAssumption DEF EntryAccepted, SessionInv, SessionTypeOK, Entry
<1>2. t \in Token /\ t # Nobody
  BY <1>1, SessionAssumption DEF Token, Call
<1>3. me \in Call /\ me.by = c.by
  BY <1>1, <1>2 DEF Call
<1>4. cs \in SUBSET Call /\ cs \subseteq calls \cup {d \in Call : d.by # "effect"}
  BY <1>1, <1>3 DEF SessionInv, SessionTypeOK
<1>5. /\ session' = [session EXCEPT !.token = t, !.stored = t] /\ TokenSet(cs, t)
      /\ logins' = logins + 1
  BY DEF EntryAccepted
<1>6. /\ calls' \in SUBSET Call
      /\ \A d \in calls' : d.by = "effect" /\ d.live => d.token = t
      /\ \A d \in cs : ~(d.by = "effect" /\ d.live) => d \in calls'
  <2> HIDE DEF t, cs
  <2> QED BY <1>2, <1>4, <1>5, TokenSetCalls
<1> HIDE DEF t
<1>7. SessionTypeOK'
  <2>1. session \in Session /\ logins \in 0..MaxLogins
    BY DEF SessionInv, SessionTypeOK
  <2>2. session' \in Session /\ session'.token = session'.stored
    BY <2>1, <1>2, <1>5 DEF Session
  <2>3. logins' \in 0..MaxLogins
    BY <2>1, <1>1, <1>5, SessionAssumption
  <2> QED BY <2>2, <2>3, <1>6 DEF SessionTypeOK
<1>8. LiveIsOfToken'
  BY <1>5, <1>6 DEF LiveIsOfToken, SessionInv, SessionTypeOK, Session
<1>9. SplashIsAwaited'
  <2> SUFFICES ASSUME session.splash PROVE SplashIsAwaited'
    BY <1>5 DEF SplashIsAwaited, SessionInv, SessionTypeOK, Session
  <2>1. CASE t = session.token
    BY <2>1, <1>1, <1>5 DEF TokenSet, SplashIsAwaited, SessionInv, SessionTypeOK, Session
  <2>2. CASE t # session.token
    <3>1. MayAsk(cs) /\ AskMe(Slot(cs), "effect", t) \in calls'
      BY <2>2, <1>2, <1>5 DEF TokenSet
    <3>2. /\ AskMe(Slot(cs), "effect", t).by = "effect" /\ AskMe(Slot(cs), "effect", t).live
          /\ AskMe(Slot(cs), "effect", t).token = t
      BY DEF AskMe
    <3> QED BY <3>1, <3>2, <1>5 DEF SplashIsAwaited, SessionInv, SessionTypeOK, Session
  <2> QED BY <2>1, <2>2
<1>10. OldUnheard
  <2>1. c.step = "post"
    BY DEF EntryAccepted
  <2>2. \A d \in calls : d = c \/ d \in cs
    OBVIOUS
  <2> HIDE DEF cs
  <2>3. ASSUME NEW d \in calls \ calls', d # c PROVE d.by = "effect" /\ d.live
    BY <1>6, <2>2, <2>3
  <2> QED BY <2>1, <2>3 DEF OldUnheard, SessionInv, LiveIsOfToken
<1> QED BY <1>7, <1>8, <1>9, <1>10 DEF SessionInv

\* logout.
LEMMA LogoutStep ==
  ASSUME SessionInv, Logout
  PROVE  SessionInv' /\ OldUnheard
<1>1. /\ session' = [session EXCEPT !.token = Nobody, !.stored = Nobody, !.user = Nobody]
      /\ ~session.splash /\ TokenSet(calls, Nobody) /\ logins' = logins
  BY DEF Logout
<1>2. calls \in SUBSET Call
  BY DEF SessionInv, SessionTypeOK
<1>3. /\ calls' \in SUBSET Call
      /\ \A d \in calls' : d.by = "effect" /\ d.live => d.token = Nobody
      /\ \A d \in calls : ~(d.by = "effect" /\ d.live) => d \in calls'
  BY <1>1, <1>2, TokenSetCalls
<1>4. SessionTypeOK'
  BY <1>1, <1>3 DEF SessionInv, SessionTypeOK, Session
<1>5. LiveIsOfToken' /\ SplashIsAwaited'
  BY <1>1, <1>3 DEF LiveIsOfToken, SplashIsAwaited, SessionInv, SessionTypeOK, Session
<1>6. OldUnheard
  BY <1>3 DEF OldUnheard, SessionInv, LiveIsOfToken
<1> QED BY <1>4, <1>5, <1>6 DEF SessionInv

\* The steps that leave the token alone and add or answer a request of a form.
LEMMA FormStep ==
  ASSUME SessionInv,
         \/ \E c \in calls : EntryRefused(c) \/ MeKnowsUser(c) \/ MeFails(c)
         \/ \E by \in Entry, a \in Account : Enter(by, a)
         \/ \E f \in Refresher, t \in Token : Refresh(f, t)
  PROVE  SessionInv' /\ OldUnheard
<1> DEFINE Kept == /\ session'.token = session.token /\ session'.splash = session.splash
                   /\ session'.stored = session.stored
                   /\ \A c \in calls \ calls' :
                        /\ c.by # "effect"
                        /\ c.step = "me" => session'.user \in {session.user, c.account}
                   /\ \A c \in calls' : c.by = "effect" => c \in calls
<1>1. Kept /\ SessionTypeOK' => SessionInv' /\ OldUnheard
  BY DEF SessionInv, LiveIsOfToken, SplashIsAwaited, OldUnheard
<1>2. ASSUME NEW c \in calls, EntryRefused(c) \/ MeKnowsUser(c) \/ MeFails(c)
      PROVE  Kept /\ SessionTypeOK'
  BY <1>2 DEF EntryRefused, MeKnowsUser, MeFails, Entry, SessionInv, SessionTypeOK, Session, Call
<1>3. ASSUME NEW by \in Entry, NEW a \in Account, Enter(by, a)
      PROVE  Kept /\ SessionTypeOK'
  <2> DEFINE c == [n |-> Slot(calls), by |-> by, step |-> "post", token |-> Nobody,
                   account |-> a, live |-> TRUE]
  <2>1. c.by = by /\ by # "effect"
    BY DEF Entry
  <2>2. c \in Call
    BY <1>3, SlotFree DEF Enter, Call
  <2> HIDE DEF c
  <2>3. calls' = calls \cup {c} /\ session' = session /\ logins' = logins
    BY <1>3 DEF Enter, c
  <2> QED BY <2>1, <2>2, <2>3 DEF SessionInv, SessionTypeOK
<1>4. ASSUME NEW f \in Refresher, NEW t \in Token, Refresh(f, t)
      PROVE  Kept /\ SessionTypeOK'
  <2> DEFINE c == AskMe(Slot(calls), f, t)
  <2>1. c.by = f /\ f # "effect"
    BY DEF AskMe, Refresher
  <2>2. c \in Call
    BY <1>4, SlotFree, AskMeIsCall DEF Refresh
  <2> HIDE DEF c
  <2>3. calls' = calls \cup {c} /\ session' = session /\ logins' = logins
    BY <1>4 DEF Refresh, c
  <2> QED BY <2>1, <2>2, <2>3 DEF SessionInv, SessionTypeOK
<1> QED BY <1>1, <1>2, <1>3, <1>4

\* Any step of a session.
LEMMA SessionStep ==
  ASSUME SessionInv, [SessionNext]_sessionVars
  PROVE  SessionInv' /\ OldUnheard
<1>1. CASE UNCHANGED sessionVars
  BY <1>1 DEF sessionVars, SessionInv, SessionTypeOK, LiveIsOfToken, SplashIsAwaited, OldUnheard
<1>2. CASE SessionNext
  BY <1>2, EffectKnowsUserStep, EffectFailsStep, EntryAcceptedStep, LogoutStep, FormStep
     DEF SessionNext
<1> QED BY <1>1, <1>2

----------------------------------------------------------------------------
(* The tab is a session.                                                   *)

\* A step of the tab is a step of its session, or leaves the session alone.
LEMMA TabStep == [Next]_appVars => [SessionNext]_sessionVars
<1> SUFFICES ASSUME [Next]_appVars PROVE [SessionNext]_sessionVars
  OBVIOUS
<1>1. CASE UNCHANGED appVars
  BY <1>1 DEF appVars, sessionVars
<1>2. CASE User
  <2>1. ASSUME NEW by \in Entry, NEW a \in Account, SubmitEntrance(by, a) PROVE SessionNext
    BY <2>1 DEF SubmitEntrance, SessionNext
  <2>2. CASE LogOut
    BY <2>2 DEF LogOut, SessionNext
  <2>3. CASE \/ \E at \in Route, k \in Topic : Visit(at, k)
             \/ Refreshes \/ AsksAgain \/ CloseModal \/ SendModal
             \/ \E m \in Modal : OpenModal(m)
             \/ \E c \in Command : Submit(c)
             \/ \E x \in Name \cup {NoName} : TypeName(x)
    BY <2>3 DEF Visit, Refreshes, AsksAgain, CloseModal, SendModal, OpenModal, Submit,
                TypeName, sessionVars
  <2> QED BY <1>2, <2>1, <2>2, <2>3 DEF User
<1>3. CASE Server \/ Poll \/ SignUpTask \/ TimerFires \/ GameBegins
  BY <1>3 DEF Server, TablesChange, Serve, Refuse, Fail, Poll, SignUpTask, TimerFires,
              GameBegins, sessionVars
<1>4. ASSUME NEW a \in asks, Hear(a) PROVE [SessionNext]_sessionVars
  <2>1. CASE HearDeleted(a)
    BY <2>1 DEF HearDeleted, SessionNext
  <2>2. CASE HearSaved(a)
    BY <2>2 DEF HearSaved, Refresh, SessionNext
  <2>3. CASE ShowLoad(a) \/ HearFailure(a) \/ HearDialog(a) \/ HearCreated(a) \/ HearDone(a)
    BY <2>3 DEF ShowLoad, HearFailure, HearDialog, HearCreated, HearDone, sessionVars
  <2> QED BY <1>4, <2>1, <2>2, <2>3 DEF Hear
<1>5. ASSUME NEW c \in calls, HearCall(c) PROVE SessionNext
  BY <1>5 DEF HearCall, HearEffect, HearMe, HearRefused, HearAccepted, SessionNext
<1> QED BY <1>1, <1>2, <1>3, <1>4, <1>5 DEF Next

\* useAuth behaves in App.jsx as it does on its own: no page, form or dialog
\* does anything to the token or the user that the hook does not offer.
THEOREM AppIsASession == Spec => SessionSpec
<1>1. Init => SessionInit
  BY DEF Init
<1> QED BY <1>1, TabStep, PTL DEF Spec, SessionSpec

\* The invariant of every session.
THEOREM SessionInvariance == SessionSpec => []SessionInv
<1>1. SessionInv /\ [SessionNext]_sessionVars => SessionInv'
  BY SessionStep
<1> QED BY <1>1, SessionInvInit, PTL DEF SessionSpec

\* The token in the store is the token in use, and no request is malformed.
THEOREM SessionTypeCorrect == Spec => []SessionTypeOK
<1>1. SessionInv => SessionTypeOK
  BY DEF SessionInv
<1> QED BY <1>1, AppIsASession, SessionInvariance, PTL

\* The splash screen of App.jsx always has a request under way that ends it.
THEOREM SplashEnds == Spec => []SplashIsAwaited
<1>1. SessionInv => SplashIsAwaited
  BY DEF SessionInv
<1> QED BY <1>1, AppIsASession, SessionInvariance, PTL

\* Whatever was asked about an old token, its answer logs nobody out, brings no
\* token back and leaves the splash screen alone; an answer that renames the
\* user is one of login or refreshUser, and names the account it was about.
THEOREM OldAnswersAreHarmless == Spec => OldAnswersEndNoSession
<1>1. SessionInv /\ [SessionNext]_sessionVars =>
        [\A c \in calls \ calls' :
           c.step = "me" /\ c.token # session.token =>
             /\ session'.token = session.token /\ session'.stored = session.stored
             /\ session'.splash = session.splash
             /\ session'.user # session.user =>
                  c.by # "effect" /\ session'.user = c.account]_sessionVars
  BY SessionStep DEF OldUnheard
<1> QED
  BY <1>1, AppIsASession, SessionInvariance, PTL DEF SessionSpec, OldAnswersEndNoSession

----------------------------------------------------------------------------
(* The table of pages.                                                     *)

\* A page whose content depends on its URL is for the staff, loads with the
\* session, says that it loads and shows a failure.  Only such pages have
\* dialogs and the button that lifts a ban.
PageRow ==
  [needs : {"none", "user", "staff"}, loads : {"never", "once", "poll", "session"},
   keyed : BOOLEAN, blanks : BOOLEAN, forgets : BOOLEAN, tells : BOOLEAN,
   sends : SUBSET (Form \cup Entrance \cup Direct), modals : SUBSET Modal,
   links : SUBSET STRING]
RowOK(r) ==
  /\ r.keyed \in BOOLEAN /\ r.blanks \in BOOLEAN /\ r.forgets \in BOOLEAN
  /\ r.sends \subseteq Form \cup Entrance \cup Direct /\ r.modals \subseteq Modal
  /\ r.keyed => r.blanks /\ r.tells /\ r.needs = "staff" /\ r.loads = "session"
  /\ r.modals # {} \/ "lift" \in r.sends => r.keyed

LEMMA RouteRows == \A at \in Route : RowOK(Row(at))
<1>1. Static \in PageRow /\ ~Static.keyed /\ Static.modals = {} /\ Static.sends = {}
  BY DEF Static, PageRow
<1>2. /\ StaffPage \in PageRow /\ ~StaffPage.keyed /\ StaffPage.modals = {} /\ StaffPage.sends = {}
      /\ StaffPage.tells /\ StaffPage.needs = "staff" /\ StaffPage.loads = "session"
  BY <1>1 DEF StaffPage, PageRow
<1> USE DEF RowOK, PageRow, Form, Entrance, Direct, Modal
<1>3. RowOK(HomePage) /\ RowOK(LobbyPage) /\ RowOK(CreateRoomPage)
  BY <1>1 DEF HomePage, LobbyPage, CreateRoomPage
<1>4. RowOK(WaitingPage) /\ RowOK(GamePage) /\ RowOK(RankingsPage)
  BY <1>1 DEF WaitingPage, GamePage, RankingsPage
<1>5. RowOK(LoginPage) /\ RowOK(SignUpPage)
  BY <1>1 DEF LoginPage, SignUpPage
<1>6. RowOK(CompleteProfilePage) /\ RowOK(ForgotPasswordPage) /\ RowOK(ResetPasswordPage)
  BY <1>1 DEF CompleteProfilePage, ForgotPasswordPage, ResetPasswordPage
<1>7. RowOK(ContactPage) /\ RowOK(PrivacyPage) /\ RowOK(ProfilePage)
  BY <1>1 DEF ContactPage, PrivacyPage, ProfilePage
<1>8. RowOK(AdminDashboardPage) /\ RowOK(AdminUsersPage)
  BY <1>2 DEF AdminDashboardPage, AdminUsersPage
<1>9. RowOK(AdminAuditPage) /\ RowOK(AdminRoomsPage)
  BY <1>2 DEF AdminAuditPage, AdminRoomsPage
<1>10. RowOK(AdminUserDetailPage) /\ RowOK(AdminRoomDetailPage)
  BY <1>2 DEF AdminUserDetailPage, AdminRoomDetailPage
<1> HIDE DEF RowOK
<1> QED BY <1>3, <1>4, <1>5, <1>6, <1>7, <1>8, <1>9, <1>10 DEF Route, Routes, Row

\* Where one is sent without being staff anybody may be.
LEMMA OpenRoutes ==
  /\ "login" \in Route /\ "profile" \in Route
  /\ Row("login").needs # "staff" /\ Row("profile").needs # "staff"
<1>1. "login" \in Route /\ "profile" \in Route
  BY DEF Route, Routes
<1>2. Row("login") = LoginPage /\ Row("profile") = ProfilePage
  BY DEF Row, Routes
<1> QED BY <1>1, <1>2 DEF LoginPage, ProfilePage, Static

LEMMA AdmittedIsRoute ==
  ASSUME NEW at \in Route, NEW s
  PROVE  /\ Admitted(at, s) \in Route
         /\ Admitted(Admitted(at, s), s) = Admitted(at, s)
         /\ Row(Admitted(at, s)).needs = "staff" => IsStaff(s)
  BY OpenRoutes DEF Admitted

LEMMA LandsOnRoute == \A c : LandsOn(c) = "stay" \/ LandsOn(c) \in Route
  BY DEF LandsOn, Route, Routes

----------------------------------------------------------------------------
(* Requests.                                                               *)

\* Among more numbers than there are requests, one is free.
LEMMA FreeNumber ==
  ASSUME NEW S, NEW as, IsFiniteSet(S), IsFiniteSet(as), Cardinality(as) < Cardinality(S)
  PROVE  \E n \in S : \A a \in as : a.n # n
<1> SUFFICES ASSUME \A n \in S : \E a \in as : a.n = n PROVE FALSE
  OBVIOUS
<1> DEFINE f == [n \in S |-> CHOOSE a \in as : a.n = n]
<1>1. f \in [S -> as] /\ \A n \in S : f[n].n = n
  OBVIOUS
<1> HIDE DEF f
<1>2. IsInjective(f)
  <2> SUFFICES ASSUME NEW x \in S, NEW y \in S, f[x] = f[y] PROVE x = y
    BY <1>1 DEF IsInjective
  <2>1. f[x].n = x /\ f[y].n = y
    BY <1>1
  <2> QED BY <2>1, Zenon
<1>3. f \in Injection(S, as)
  BY <1>1, <1>2, Zenon DEF Injection
<1>4. Cardinality(S) <= Cardinality(as)
  BY <1>3, FS_Injection
<1> DEFINE s == Cardinality(S)
           c == Cardinality(as)
<1>5. s \in Nat /\ c \in Nat /\ c < s /\ s <= c
  BY <1>4, FS_CardinalityType
<1> HIDE DEF s, c
<1> QED BY <1>5

LEMMA AskSlotFree ==
  ASSUME NEW as, IsFiniteSet(as)
  PROVE  /\ AskSlot(as) \in Nat /\ AskSlot(as) > MaxCalls
         /\ \A a \in as : a.n # AskSlot(as)
<1> DEFINE card == Cardinality(as)
           slots == (MaxCalls + 1)..(MaxCalls + 1 + card)
<1>1. card \in Nat /\ MaxCalls \in Nat
  BY FS_CardinalityType, SessionAssumption
<1> HIDE DEF card
<1>2. IsFiniteSet(slots) /\ Cardinality(slots) = card + 1
  <2>1. MaxCalls + 1 \in Int /\ MaxCalls + 1 + card \in Int /\ ~(MaxCalls + 1 > MaxCalls + 1 + card)
        /\ (MaxCalls + 1 + card) - (MaxCalls + 1) + 1 = card + 1
    BY <1>1
  <2> QED BY <2>1, FS_Interval
<1>3. \A n \in slots : n \in Nat /\ n > MaxCalls
  BY <1>1
<1>4. AskSlot(as) = CHOOSE n \in slots : \A a \in as : a.n # n
  BY DEF AskSlot, card
<1> HIDE DEF slots
<1>5. card < Cardinality(slots)
  BY <1>1, <1>2
<1>6. \E n \in slots : \A a \in as : a.n # n
  BY <1>2, <1>5, FreeNumber DEF card
<1> QED BY <1>3, <1>4, <1>6

----------------------------------------------------------------------------
(* What the mounted page shows.  pg is a page, as are the requests under   *)
(* way, w the versions of the server, s a session.                         *)

\* Pages and requests are well-formed: numbers tell requests apart, and do not
\* meet those of the session; an answer is not newer than the server.
Drawn(pg, as, w) ==
  /\ pg \in PageState /\ as \subseteq Ask /\ IsFiniteSet(as) /\ w \in [Topic -> Nat]
  /\ \A a \in as : a.n > MaxCalls /\ (\A b \in as : a.n = b.n => a = b)
  /\ \A a \in as : a.step = "done" => a.ver <= w[a.key]

\* Only a page with a key of its own has a dialog open, hears of dialogs and is
\* told of changes, and of none that the server has not made.
Told == {"sanction", "notice", "lift"}
Based(pg, as, w) ==
  /\ Drawn(pg, as, w)
  /\ pg.modal # "none" => Row(pg.at).keyed
  /\ pg.acked.ver > 0 => Row(pg.at).keyed /\ pg.acked.ver <= w[pg.acked.key]
  /\ \A a \in as : a.what \in Told /\ a.n \in pg.heard => Row(pg.at).keyed

\* An answer, about key and with version ver, that the page may show.
Fits(pg, key, ver) == key = pg.key /\ (key = pg.acked.key => ver >= pg.acked.ver)

\* The loads the page still hears were sent for its key, and answered, if they
\* were, after the change it was told of.
Asking(pg, as) ==
  Row(pg.at).keyed =>
    \A a \in as : a.what = "load" /\ a.n \in pg.heard =>
      a.key = pg.key /\ (a.step = "done" => Fits(pg, a.key, a.ver))
Showing(pg, s) ==
  Row(pg.at).keyed /\ s.token # Nobody /\ ~pg.loading /\ ~pg.error =>
    Fits(pg, pg.data.key, pg.data.ver)
Seen(pg, s) == Row(pg.at).needs = "staff" => IsStaff(s)

PageFits(u, s, w) ==
  Based(u.page, u.asks, w) /\ Seen(u.page, s) /\ Asking(u.page, u.asks) /\ Showing(u.page, s)

\* Under the splash screen nothing has been asked but by the session's effect.
Veiled ==
  /\ asks = {} /\ ~timer /\ page.heard = {} /\ (Row(page.at).keyed => page.loading)
  /\ \A c \in calls : c.by = "effect"

PageInv ==
  /\ SessionInv
  /\ Based(page, asks, world) /\ Asking(page, asks) /\ Showing(page, session)
  /\ IF session.splash THEN Veiled ELSE Seen(page, session)

----------------------------------------------------------------------------
(* What the page operators make of a page.                                 *)

\* A page as it is mounted.
LEMMA FreshPage ==
  ASSUME NEW at \in Route, NEW k \in Topic
  PROVE  LET pg == Fresh(at, k)
         IN  /\ pg \in PageState /\ pg.at = at /\ pg.key = k /\ pg.heard = {}
             /\ pg.acked.ver = 0 /\ pg.modal = "none" /\ (Row(at).keyed => pg.loading)
<1>1. Nothing \in [key : Topic, ver : Nat] /\ Nothing.ver = 0
  BY DEF Nothing, Topic
<1>2. (Row(at).loads # "never") \in BOOLEAN
  OBVIOUS
<1>3. Row(at).keyed => Row(at).loads # "never"
  BY RouteRows DEF RowOK
<1> QED BY <1>1, <1>2, <1>3 DEF Fresh, PageState

\* A request that was just sent from the page, beside others.
Sent(a, pg, as, what) ==
  /\ a.what = what /\ a.key = pg.key /\ a.step = "sent" /\ a.n \in Nat
  /\ \A b \in as : b.n # a.n

\* A request of the page has a number of its own.
LEMMA AskedIsAsk ==
  ASSUME NEW pg, NEW as, NEW w, Drawn(pg, as, w), NEW s \in Session,
         NEW what \in {"load", "seat"} \cup Command, NEW a, a = Asked(pg, as, s, what)
  PROVE  Sent(a, pg, as, what) /\ Drawn(pg, as \cup {a}, w)
<1>1. AskSlot(as) \in Nat /\ AskSlot(as) > MaxCalls /\ \A b \in as : b.n # AskSlot(as)
  BY AskSlotFree DEF Drawn
<1>2. /\ a.n = AskSlot(as) /\ a.what = what /\ a.step = "sent" /\ a.key = pg.key
      /\ a.token = s.token /\ a.ver = 0
  BY DEF Asked
<1>3. a \in Ask
  <2>1. pg.key \in Topic /\ s.token \in Token \cup {Nobody}
    BY DEF Drawn, PageState, Session
  <2> QED BY <1>1, <2>1 DEF Asked, Ask
<1>4. IsFiniteSet(as \cup {a})
  BY FS_AddElement DEF Drawn
<1>5. Drawn(pg, as \cup {a}, w)
  BY <1>1, <1>2, <1>3, <1>4 DEF Drawn
<1> QED BY <1>1, <1>2, <1>5 DEF Sent

\* An effect that runs leaves a page that shows nothing yet and hears nothing
\* but the load it sends; without a token it sends none.
LEMMA LoadedFits ==
  ASSUME NEW pg, NEW as, NEW w, NEW s \in Session, Based(pg, as, w), Seen(pg, s)
  PROVE  PageFits(Loaded(pg, as, s), s, w)
<1> DEFINE a == Asked(pg, as, s, "load")
           blank == Row(pg.at).blanks
           err == pg.error /\ ~Row(pg.at).forgets
           q == [pg EXCEPT !.loading = pg.loading \/ blank, !.error = err,
                           !.sending = IF blank THEN 0 ELSE pg.sending,
                           !.heard = Unheard(pg, as) \cup {a.n}]
           r == [pg EXCEPT !.heard = Unheard(pg, as)]
<1>1. pg \in PageState /\ pg.at \in Route /\ RowOK(Row(pg.at)) /\ pg.heard \subseteq Nat
  BY RouteRows DEF Based, Drawn, PageState
<1>2. Unheard(pg, as) \subseteq pg.heard /\ \A b \in as : b.what = "load" => b.n \notin Unheard(pg, as)
  BY DEF Unheard
<1>3. CASE Wants(pg.at, s)
  <2>1. Loaded(pg, as, s) = [asks |-> as \cup {a}, page |-> q]
    BY <1>1, <1>3 DEF Loaded, PageState
  <2>2. /\ a.what = "load" /\ a.key = pg.key /\ a.step = "sent" /\ a.n \in Nat
        /\ Drawn(pg, as \cup {a}, w) /\ \A b \in as : b.n # a.n
    <3>1. Drawn(pg, as, w) /\ "load" \in {"load", "seat"} \cup Command
      BY DEF Based
    <3>2. Sent(a, pg, as, "load") /\ Drawn(pg, as \cup {a}, w)
      BY <3>1, AskedIsAsk
    <3> QED BY <3>2 DEF Sent
  <2> HIDE DEF a
  <2>3. /\ q \in PageState /\ q.at = pg.at /\ q.key = pg.key /\ q.acked = pg.acked
        /\ q.modal = pg.modal /\ q.heard = Unheard(pg, as) \cup {a.n} /\ (blank => q.loading)
    <3>1. (pg.loading \/ blank) \in BOOLEAN /\ err \in BOOLEAN
      OBVIOUS
    <3>2. (IF blank THEN 0 ELSE pg.sending) \in Nat /\ Unheard(pg, as) \cup {a.n} \in SUBSET Nat
      BY <1>1, <1>2, <2>2 DEF PageState
    <3> QED BY <1>1, <3>1, <3>2 DEF PageState
  <2> HIDE DEF q, err
  <2>4. Based(q, as \cup {a}, w)
    <3>1. Drawn(q, as \cup {a}, w)
      BY <2>2, <2>3 DEF Drawn
    <3>2. \A b \in as \cup {a} : b.what \in Told /\ b.n \in q.heard => Row(q.at).keyed
      BY <1>2, <2>2, <2>3 DEF Based, Told
    <3> QED BY <2>3, <3>1, <3>2 DEF Based
  <2>5. Asking(q, as \cup {a})
    BY <1>2, <2>2, <2>3 DEF Asking
  <2>6. Showing(q, s) /\ Seen(q, s)
    BY <1>1, <2>3 DEF Showing, Seen, RowOK
  <2> QED BY <2>1, <2>4, <2>5, <2>6 DEF PageFits
<1>4. CASE ~Wants(pg.at, s)
  <2>1. Loaded(pg, as, s) = [asks |-> as, page |-> r]
    BY <1>4 DEF Loaded
  <2>2. /\ r \in PageState /\ r.at = pg.at /\ r.key = pg.key /\ r.acked = pg.acked
        /\ r.modal = pg.modal /\ r.heard = Unheard(pg, as)
    BY <1>1, <1>2 DEF PageState
  <2> HIDE DEF r
  <2>3. Based(r, as, w)
    <3>1. Drawn(r, as, w)
      BY <2>2 DEF Based, Drawn
    <3> QED BY <1>2, <2>2, <3>1 DEF Based
  <2>4. Asking(r, as)
    BY <1>2, <2>2 DEF Asking
  <2>5. Row(pg.at).keyed => s.token = Nobody
    BY <1>1, <1>4 DEF Wants, Seen, RowOK
  <2>6. Showing(r, s) /\ Seen(r, s)
    BY <2>2, <2>5 DEF Showing, Seen
  <2> QED BY <2>1, <2>3, <2>4, <2>6 DEF PageFits
<1> QED BY <1>3, <1>4

\* navigate() mounts the page one is admitted to, or changes its key.
LEMMA GoToFits ==
  ASSUME NEW u, NEW w, NEW s \in Session, PageFits(u, s, w),
         NEW at \in Route, NEW k \in Topic
  PROVE  PageFits(GoTo(u, s, at, k), s, w)
<1> DEFINE to == Admitted(at, s)
           pg == Fresh(to, k)
           q == [u.page EXCEPT !.key = k]
<1>1. to \in Route /\ (Row(to).needs = "staff" => IsStaff(s))
  BY AdmittedIsRoute
<1>2. CASE to # u.page.at
  <2>1. GoTo(u, s, at, k) = Loaded(pg, u.asks, s)
    BY <1>2 DEF GoTo
  <2>2. /\ pg \in PageState /\ pg.at = to /\ pg.heard = {} /\ pg.acked.ver = 0
        /\ pg.modal = "none"
    BY <1>1, FreshPage
  <2> HIDE DEF pg, to
  <2>3. Based(pg, u.asks, w) /\ Seen(pg, s)
    BY <1>1, <2>2 DEF PageFits, Based, Drawn, Seen
  <2> QED BY <2>1, <2>3, LoadedFits
<1>3. CASE to = u.page.at /\ k # u.page.key
  <2>1. GoTo(u, s, at, k) = Loaded(q, u.asks, s)
    BY <1>3 DEF GoTo
  <2>2. u.page \in PageState
    BY DEF PageFits, Based, Drawn
  <2>3. /\ q \in PageState /\ q.at = u.page.at /\ q.heard = u.page.heard
        /\ q.acked = u.page.acked /\ q.modal = u.page.modal
    BY <2>2 DEF PageState
  <2> HIDE DEF q
  <2>4. Based(q, u.asks, w) /\ Seen(q, s)
    BY <2>3 DEF PageFits, Based, Drawn, Seen
  <2> QED BY <2>1, <2>4, LoadedFits
<1>4. CASE to = u.page.at /\ k = u.page.key
  BY <1>4 DEF GoTo
<1> QED BY <1>2, <1>3, <1>4

LEMMA LandFits ==
  ASSUME NEW u, NEW w, NEW s \in Session, PageFits(u, s, w), NEW c
  PROVE  PageFits(Land(u, s, c), s, w)
<1>1. Whole \in Topic
  BY DEF Topic
<1>2. CASE LandsOn(c) = "stay"
  BY <1>2 DEF Land
<1>3. CASE LandsOn(c) # "stay"
  <2>1. LandsOn(c) \in Route /\ Land(u, s, c) = GoTo(u, s, LandsOn(c), Whole)
    BY <1>3, LandsOnRoute DEF Land
  <2> QED BY <1>1, <2>1, GoToFits
<1> QED BY <1>2, <1>3

\* Drawn again for another session, a page for the staff is left or loads,
\* unless token and user are the ones it has.
LEMMA RedrawnFits ==
  ASSUME NEW u, NEW w, NEW s \in Session, NEW t \in Session, ~t.splash,
         Based(u.page, u.asks, w), s.splash \/ PageFits(u, s, w), NEW named \in BOOLEAN
  PROVE  PageFits(Redrawn(u, s, t, named), t, w)
<1> DEFINE pg == u.page
           to == Admitted(pg.at, t)
           f == Fresh(to, pg.key)
           q == [pg EXCEPT !.busy = IF t.user = Nobody THEN {} ELSE pg.busy]
<1>1. pg \in PageState /\ pg.at \in Route /\ pg.key \in Topic
  BY DEF Based, Drawn, PageState
<1>2. to \in Route /\ (Row(to).needs = "staff" => IsStaff(t))
  BY <1>1, AdmittedIsRoute
<1>3. PageFits(Loaded(f, u.asks, t), t, w)
  <2>1. f \in PageState /\ f.at = to /\ f.heard = {} /\ f.acked.ver = 0
        /\ f.modal = "none"
    BY <1>1, <1>2, FreshPage
  <2> HIDE DEF f, to
  <2>2. Based(f, u.asks, w) /\ Seen(f, t)
    BY <1>2, <2>1 DEF Based, Drawn, Seen
  <2> QED BY <2>2, LoadedFits
<1>4. CASE s.splash \/ to # pg.at
  <2>1. Redrawn(u, s, t, named) = Loaded(f, u.asks, t)
    BY <1>4 DEF Redrawn
  <2> QED BY <1>3, <2>1
<1>5. CASE ~s.splash /\ to = pg.at /\ Deps(pg, s, t, named)
  <2>1. Redrawn(u, s, t, named) = Loaded(q, u.asks, t)
    BY <1>5 DEF Redrawn
  <2>2. /\ q \in PageState /\ q.at = pg.at /\ q.heard = pg.heard /\ q.acked = pg.acked
        /\ q.modal = pg.modal
    BY <1>1 DEF PageState
  <2> HIDE DEF q
  <2>3. Based(q, u.asks, w) /\ Seen(q, t)
    BY <1>2, <1>5, <2>2 DEF Based, Drawn, Seen
  <2> QED BY <2>1, <2>3, LoadedFits
<1>6. CASE ~s.splash /\ to = pg.at /\ ~Deps(pg, s, t, named)
  <2>1. Redrawn(u, s, t, named) = u
    BY <1>6 DEF Redrawn
  <2>2. Row(pg.at).keyed => s.token = t.token
    BY <1>1, <1>6, RouteRows DEF Deps, RowOK
  <2>3. Showing(pg, t) /\ Seen(pg, t)
    BY <1>2, <1>6, <2>2 DEF PageFits, Showing, Seen
  <2> QED BY <1>6, <2>1, <2>3 DEF PageFits
<1> QED BY <1>4, <1>5, <1>6

----------------------------------------------------------------------------
(* Steps that load nothing.                                                *)

\* What is drawn of a page is the same, but that an error may have come.
SameView(pg, q) ==
  /\ q \in PageState /\ q.at = pg.at /\ q.key = pg.key /\ q.data = pg.data
  /\ q.acked = pg.acked /\ q.loading = pg.loading /\ (pg.error => q.error)
  /\ q.modal # "none" => Row(q.at).keyed

\* Requests end, and the page hears of no others but the session's.
LEMMA LessHeard ==
  ASSUME NEW pg, NEW as, NEW s, NEW w, Based(pg, as, w), NEW q, SameView(pg, q),
         NEW bs \in SUBSET as, \A n \in q.heard : n \in pg.heard \/ n <= MaxCalls
  PROVE  /\ Based(q, bs, w)
         /\ Asking(pg, as) => Asking(q, bs)
         /\ Showing(pg, s) => Showing(q, s)
         /\ Seen(pg, s) => Seen(q, s)
<1>1. IsFiniteSet(bs)
  BY FS_Subset DEF Based, Drawn
<1>2. \A a \in bs : a.n \in q.heard => a.n \in pg.heard
  <2> SUFFICES ASSUME NEW a \in bs, a.n \in q.heard PROVE a.n \in pg.heard
    OBVIOUS
  <2>1. a.n \in Nat /\ a.n > MaxCalls
    BY DEF Based, Drawn, Ask
  <2>2. ~(a.n <= MaxCalls)
    BY <2>1, SessionAssumption
  <2> QED BY <2>2
<1>3. Drawn(q, bs, w)
  BY <1>1 DEF Based, Drawn, SameView
<1>4. Based(q, bs, w)
  BY <1>2, <1>3 DEF Based, SameView
<1>5. Asking(pg, as) => Asking(q, bs)
  BY <1>2 DEF Asking, Fits, SameView
<1>6. Showing(pg, s) => Showing(q, s)
  BY DEF Showing, Fits, SameView, Based, Drawn, PageState
<1>7. Seen(pg, s) => Seen(q, s)
  BY DEF Seen, SameView
<1> QED BY <1>4, <1>5, <1>6, <1>7

\* The page sends one more request and hears it: a dialog only from a page with
\* a key, and a load beside an earlier one only from a page without.
LEMMA OneMore ==
  ASSUME NEW pg, NEW as, NEW s \in Session, NEW w, PageFits([page |-> pg, asks |-> as], s, w),
         NEW what \in {"load", "seat"} \cup Command, NEW q, SameView(pg, q),
         q.heard = pg.heard \cup {Asked(pg, as, s, what).n},
         what = "load" => ~Row(pg.at).keyed, what \in Told => Row(pg.at).keyed
  PROVE  PageFits([page |-> q, asks |-> as \cup {Asked(pg, as, s, what)}], s, w)
<1> DEFINE a == Asked(pg, as, s, what)
<1>1. Based(pg, as, w) /\ Seen(pg, s) /\ Asking(pg, as) /\ Showing(pg, s)
  BY DEF PageFits
<1>2. /\ a.what = what /\ a.key = pg.key /\ a.step = "sent" /\ a.n \in Nat
      /\ Drawn(pg, as \cup {a}, w) /\ \A b \in as : b.n # a.n
  <2>1. Drawn(pg, as, w)
    BY <1>1 DEF Based
  <2>2. Sent(a, pg, as, what) /\ Drawn(pg, as \cup {a}, w)
    BY <2>1, AskedIsAsk
  <2> QED BY <2>2 DEF Sent
<1>3. q.heard = pg.heard \cup {a.n}
  OBVIOUS
<1> HIDE DEF a
<1>4. Based(q, as \cup {a}, w)
  <2>1. Drawn(q, as \cup {a}, w)
    BY <1>2 DEF Drawn, SameView
  <2> QED BY <1>1, <1>2, <1>3, <2>1 DEF Based, SameView
<1>5. Asking(q, as \cup {a})
  BY <1>1, <1>2, <1>3 DEF Asking, Fits, SameView
<1>6. Showing(q, s) /\ Seen(q, s)
  BY <1>1 DEF Showing, Fits, Seen, SameView, Based, Drawn, PageState
<1> QED BY <1>4, <1>5, <1>6 DEF PageFits, a

\* A request gets on, while the server's versions only grow.
LEMMA GetsOn ==
  ASSUME NEW pg, NEW as, NEW w, Based(pg, as, w), Asking(pg, as),
         NEW v \in [Topic -> Nat], \A k \in Topic : w[k] <= v[k],
         NEW a \in as, NEW b \in Ask, b.n = a.n, b.key = a.key,
         b.what = a.what \/ b.what = "seat", b.step = "done" => b.ver = v[b.key]
  PROVE  LET bs == (as \ {a}) \cup {b} IN Based(pg, bs, v) /\ Asking(pg, bs)
<1> DEFINE bs == (as \ {a}) \cup {b}
<1>1. /\ pg \in PageState /\ as \subseteq Ask /\ IsFiniteSet(as) /\ w \in [Topic -> Nat]
      /\ \A c \in as : c.n > MaxCalls /\ (\A d \in as : c.n = d.n => c = d)
      /\ \A c \in as : c.step = "done" => c.ver <= w[c.key]
  BY DEF Based, Drawn
<1>2. IsFiniteSet(bs)
  <2>1. IsFiniteSet(as \ {a})
    BY <1>1, FS_RemoveElement
  <2> QED BY <2>1, FS_AddElement
<1>3. \A c \in bs : c.n > MaxCalls /\ (\A d \in bs : c.n = d.n => c = d)
  BY <1>1
<1>4. \A c \in bs : c.step = "done" => c.ver <= v[c.key]
  <2> SUFFICES ASSUME NEW c \in bs, c.step = "done" PROVE c.ver <= v[c.key]
    OBVIOUS
  <2>1. c.key \in Topic /\ c.ver \in Nat
    BY <1>1 DEF Ask
  <2>2. w[c.key] \in Nat /\ v[c.key] \in Nat /\ w[c.key] <= v[c.key]
    BY <1>1, <2>1
  <2>3. c \in as => c.ver <= w[c.key]
    BY <1>1
  <2>4. CASE c \in as
    <3> DEFINE x == c.ver
               y == w[c.key]
               z == v[c.key]
    <3>1. x \in Nat /\ y \in Nat /\ z \in Nat /\ x <= y /\ y <= z
      BY <2>1, <2>2, <2>3, <2>4
    <3> HIDE DEF x, y, z
    <3>2. x <= z
      BY <3>1
    <3> QED BY <3>2 DEF x, z
  <2>5. CASE c = b
    <3>1. c.ver = v[c.key]
      BY <2>5
    <3> QED BY <2>1, <3>1
  <2> QED BY <2>4, <2>5
<1>5. Drawn(pg, bs, v)
  BY <1>1, <1>2, <1>3, <1>4 DEF Drawn
<1>6. pg.acked.ver \in Nat /\ pg.acked.key \in Topic
  BY <1>1 DEF PageState
<1>7. pg.acked.ver > 0 => Row(pg.at).keyed /\ pg.acked.ver <= v[pg.acked.key]
  <2>1. w[pg.acked.key] \in Nat /\ v[pg.acked.key] \in Nat /\ w[pg.acked.key] <= v[pg.acked.key]
    BY <1>1, <1>6
  <2> QED BY <1>6, <2>1 DEF Based
<1>8. Based(pg, bs, v)
  BY <1>5, <1>7 DEF Based, Told
<1>9. b.step = "done" /\ b.key = pg.acked.key => b.ver >= pg.acked.ver
  <2> SUFFICES ASSUME b.step = "done", b.key = pg.acked.key PROVE b.ver >= pg.acked.ver
    OBVIOUS
  <2>1. b.ver = v[pg.acked.key] /\ b.ver \in Nat
    BY <1>6
  <2> QED BY <1>6, <1>7, <2>1
<1>10. Asking(pg, bs)
  BY <1>9 DEF Asking, Fits
<1> QED BY <1>8, <1>10

\* The server's versions grow.
LEMMA WorldGrows ==
  ASSUME NEW pg, NEW as, NEW w, Based(pg, as, w),
         NEW v \in [Topic -> Nat], \A k \in Topic : w[k] <= v[k]
  PROVE  Based(pg, as, v)
<1>1. /\ pg \in PageState /\ as \subseteq Ask /\ w \in [Topic -> Nat]
      /\ \A c \in as : c.step = "done" => c.ver <= w[c.key]
  BY DEF Based, Drawn
<1>2. ASSUME NEW k \in Topic, NEW n \in Nat, n <= w[k] PROVE n <= v[k]
  <2>1. w[k] \in Nat /\ v[k] \in Nat /\ w[k] <= v[k]
    BY <1>1
  <2> QED BY <1>2, <2>1
<1>3. \A c \in as : c.step = "done" => c.ver <= v[c.key]
  BY <1>1, <1>2 DEF Ask
<1>4. pg.acked.ver > 0 => Row(pg.at).keyed /\ pg.acked.ver <= v[pg.acked.key]
  BY <1>1, <1>2 DEF Based, PageState
<1> QED BY <1>3, <1>4 DEF Based, Drawn

----------------------------------------------------------------------------
(* What the user does.  The splash screen is gone.                         *)

LEMMA PageFacts ==
  ASSUME PageInv
  PROVE  /\ session \in Session /\ calls \subseteq Call /\ world \in [Topic -> Nat]
         /\ page \in PageState /\ page.at \in Route /\ page.key \in Topic
         /\ asks \subseteq Ask /\ IsFiniteSet(asks)
         /\ page.modal # "none" => Row(page.at).keyed
         /\ ~session.splash => PageFits(Here, session, world)
<1>1. session \in Session /\ calls \subseteq Call
  BY DEF PageInv, SessionInv, SessionTypeOK
<1>2. /\ world \in [Topic -> Nat] /\ page \in PageState /\ asks \subseteq Ask /\ IsFiniteSet(asks)
  BY DEF PageInv, Based, Drawn
<1>3. page.at \in Route /\ page.key \in Topic
  BY <1>2 DEF PageState
<1>4. ~session.splash => PageFits(Here, session, world)
  BY DEF PageInv, PageFits, Here
<1>5. page.modal # "none" => Row(page.at).keyed
  BY DEF PageInv, Based
<1> QED BY <1>1, <1>2, <1>3, <1>4, <1>5

\* A step to a page that fits.
LEMMA FitsNext ==
  ASSUME SessionInv', ~session'.splash, NEW u, PageFits(u, session', world'),
         page' = u.page, asks' = u.asks
  PROVE  PageInv'
  BY DEF PageInv, PageFits

\* A step that asks for nothing, after which the page hears at most of another
\* request of the session.
LEMMA LessHeardNext ==
  ASSUME PageInv, SessionInv', ~session.splash, session' = session, world' = world,
         SameView(page, page'), asks' \in SUBSET asks,
         \A n \in page'.heard : n \in page.heard \/ n <= MaxCalls
  PROVE  PageInv'
<1>1. /\ Based(page, asks, world) /\ Asking(page, asks) /\ Showing(page, session)
      /\ Seen(page, session)
  BY DEF PageInv
<1>2. /\ Based(page', asks', world) /\ Asking(page', asks') /\ Showing(page', session)
      /\ Seen(page', session)
  BY <1>1, LessHeard
<1> QED BY <1>2 DEF PageInv

LEMMA VisitGoes ==
  ASSUME PageInv, SessionInv', ~session.splash, NEW at \in Route, NEW k \in Topic,
         Visit(at, k) \/ Refreshes
  PROVE  PageInv'
<1>1. session' = session /\ world' = world
  BY DEF Visit, Refreshes, sessionVars
<1>2. CASE Visit(at, k)
  <2>1. PageFits(GoTo(Here, session, at, k), session, world)
    BY PageFacts, GoToFits
  <2> QED BY <1>1, <1>2, <2>1, FitsNext DEF Visit, Becomes
<1>3. CASE Refreshes
  <2>1. PageFits(Loaded(page, asks, session), session, world)
    BY PageFacts, LoadedFits DEF PageInv
  <2> QED BY <1>1, <1>3, <2>1, FitsNext DEF Refreshes, Becomes
<1> QED BY <1>2, <1>3

\* A row without a key.
LEMMA LobbyHasNoKey == ~Row("lobby").keyed /\ ~Row("profile").keyed
<1>1. Row("lobby").needs # "staff" /\ Row("profile").needs # "staff"
  <2>1. Row("lobby") = LobbyPage /\ Row("profile") = ProfilePage
    BY DEF Row, Routes
  <2> QED BY <2>1 DEF LobbyPage, ProfilePage, Static
<1>2. "lobby" \in Route /\ "profile" \in Route
  BY DEF Route, Routes
<1> QED BY <1>1, <1>2, RouteRows DEF RowOK

LEMMA AskMoreGoes ==
  ASSUME PageInv, SessionInv', ~session.splash, AsksAgain \/ Poll
  PROVE  PageInv'
<1> DEFINE a == Asked(page, asks, session, "load")
           q == [page EXCEPT !.heard = page.heard \cup {a.n}]
<1>1. session' = session /\ world' = world /\ page' = q /\ asks' = asks \cup {a}
  BY DEF AsksAgain, Poll, sessionVars, AskMore, Becomes
<1>2. ~Row(page.at).keyed
  BY LobbyHasNoKey DEF AsksAgain, Poll
<1>3. Sent(a, page, asks, "load")
  BY PageFacts, AskedIsAsk DEF PageInv, Based
<1>4. a.n \in Nat
  BY <1>3 DEF Sent
<1> HIDE DEF a
<1>5. SameView(page, q) /\ q.heard = page.heard \cup {a.n}
  BY <1>4, PageFacts DEF SameView, PageState
<1> HIDE DEF q
<1>6. PageFits([page |-> q, asks |-> asks \cup {a}], session, world)
  <2>1. PageFits([page |-> page, asks |-> asks], session, world) /\ session \in Session
    BY PageFacts DEF Here
  <2>2. "load" \in {"load", "seat"} \cup Command /\ "load" \notin Told
    BY DEF Told
  <2> QED BY <1>2, <1>5, <2>1, <2>2, OneMore DEF a
<1> QED BY <1>1, <1>6, FitsNext

LEMMA ModalGoes ==
  ASSUME PageInv, SessionInv', ~session.splash, CloseModal \/ \E m \in Modal : OpenModal(m)
  PROVE  PageInv'
<1>1. session' = session /\ world' = world /\ asks' = asks
  BY DEF CloseModal, OpenModal, sessionVars
<1>2. SameView(page, page') /\ page'.heard = page.heard
  <2>1. CASE CloseModal
    BY <2>1, PageFacts DEF CloseModal, SameView, PageState
  <2>2. ASSUME NEW m \in Modal, OpenModal(m)
        PROVE  SameView(page, page') /\ page'.heard = page.heard
    <3>1. page' = [page EXCEPT !.modal = m] /\ Row(page.at).keyed
      BY <2>2, PageFacts, RouteRows DEF OpenModal, RowOK
    <3> QED BY <3>1, PageFacts DEF SameView, PageState
  <2> QED BY <2>1, <2>2
<1> QED BY <1>1, <1>2, LessHeardNext

LEMMA SendModalGoes ==
  ASSUME PageInv, SessionInv', ~session.splash, SendModal
  PROVE  PageInv'
<1> DEFINE a == Asked(page, asks, session, page.modal)
           q == [page EXCEPT !.sending = a.n, !.heard = page.heard \cup {a.n}]
<1>1. /\ session' = session /\ world' = world /\ page' = q /\ asks' = asks \cup {a}
      /\ page.modal # "none"
  BY DEF SendModal, sessionVars, Becomes
<1>2. page.modal \in {"load", "seat"} \cup Command /\ page.modal # "load"
  BY <1>1, PageFacts DEF PageState, Command, Modal
<1>3. Sent(a, page, asks, page.modal)
  BY <1>2, PageFacts, AskedIsAsk DEF PageInv, Based
<1>4. a.n \in Nat
  BY <1>3 DEF Sent
<1> HIDE DEF a
<1>5. SameView(page, q) /\ q.heard = page.heard \cup {a.n}
  BY <1>4, PageFacts DEF SameView, PageState
<1> HIDE DEF q
<1>6. PageFits([page |-> q, asks |-> asks \cup {a}], session, world)
  <2>1. PageFits([page |-> page, asks |-> asks], session, world) /\ session \in Session
    BY PageFacts DEF Here
  <2>2. Row(page.at).keyed
    BY <1>1, PageFacts
  <2> QED BY <1>1, <1>2, <1>5, <2>1, <2>2, OneMore DEF a
<1> QED BY <1>1, <1>6, FitsNext

\* A form's button is disabled, and its answer heard.
LEMMA FlaggedView ==
  ASSUME PageInv, NEW c \in Form \cup Entrance \cup Direct, NEW n \in Nat
  PROVE  /\ SameView(page, Flagged(page, c, n))
         /\ Flagged(page, c, n).heard = page.heard \cup {n}
<1> DEFINE busy == IF c \in Unguarded THEN page.busy ELSE page.busy \cup {c}
<1>1. page \in PageState /\ (page.modal # "none" => Row(page.at).keyed)
  BY PageFacts
<1>2. busy \in SUBSET (Form \cup Entrance)
  BY <1>1 DEF Unguarded, Direct, PageState
<1>3. Flagged(page, c, n) = [page EXCEPT !.heard = page.heard \cup {n}, !.busy = busy]
  BY DEF Flagged
<1> HIDE DEF busy
<1> DEFINE heard == page.heard \cup {n}
<1>4. heard \in SUBSET Nat
  BY <1>1 DEF PageState
<1>5. Flagged(page, c, n) = [page EXCEPT !.heard = heard, !.busy = busy]
  BY <1>3
<1> HIDE DEF heard
<1>6. SameView(page, Flagged(page, c, n)) /\ Flagged(page, c, n).heard = heard
  BY <1>1, <1>2, <1>4, <1>5 DEF SameView, PageState
<1> QED BY <1>6 DEF heard

LEMMA SubmitGoes ==
  ASSUME PageInv, SessionInv', ~session.splash, NEW c \in Command, Submit(c)
  PROVE  PageInv'
<1> DEFINE a == Asked(page, asks, session, c)
           q == Flagged(page, c, a.n)
<1>1. /\ session' = session /\ world' = world /\ page' = q /\ asks' = asks \cup {a}
      /\ c \in Row(page.at).sends /\ c \notin Entrance
  BY DEF Submit, sessionVars, Becomes, MaySubmit
<1>2. c \in {"load", "seat"} \cup Command /\ c # "load"
  BY DEF Command, Form, Modal, Direct
<1>3. c \in Form \cup Entrance \cup Direct /\ (c \in Told => Row(page.at).keyed)
  <2>1. RowOK(Row(page.at))
    BY PageFacts, RouteRows
  <2>2. c \in Form \cup Entrance \cup Direct
    BY <1>1, <2>1 DEF RowOK
  <2>3. c \in Told => c = "lift"
    BY <2>2 DEF Told, Form, Entrance, Direct
  <2> QED BY <1>1, <2>1, <2>2, <2>3 DEF RowOK
<1>4. Sent(a, page, asks, c)
  BY <1>2, PageFacts, AskedIsAsk DEF PageInv, Based
<1>5. a.n \in Nat
  BY <1>4 DEF Sent
<1> HIDE DEF a
<1>6. SameView(page, q) /\ q.heard = page.heard \cup {a.n}
  BY <1>3, <1>5, FlaggedView
<1> HIDE DEF q
<1>7. PageFits([page |-> q, asks |-> asks \cup {a}], session, world)
  <2>1. PageFits([page |-> page, asks |-> asks], session, world) /\ session \in Session
    BY PageFacts DEF Here
  <2> QED BY <1>2, <1>3, <1>6, <2>1, OneMore DEF a
<1> QED BY <1>1, <1>7, FitsNext

LEMMA SubmitEntranceGoes ==
  ASSUME PageInv, SessionInv', ~session.splash, NEW by \in Entry, NEW account \in Account,
         SubmitEntrance(by, account)
  PROVE  PageInv'
<1>1. /\ session' = session /\ world' = world /\ asks' = asks /\ MayAsk(calls)
      /\ page' = Flagged(page, by, Slot(calls))
  BY DEF SubmitEntrance, Enter
<1>2. Slot(calls) \in Nat /\ Slot(calls) <= MaxCalls
  BY <1>1, SlotFree, SessionAssumption
<1>3. SameView(page, page') /\ page'.heard = page.heard \cup {Slot(calls)}
  BY <1>1, <1>2, FlaggedView DEF Entry, Entrance
<1> QED BY <1>1, <1>2, <1>3, LessHeardNext

LEMMA LogOutGoes ==
  ASSUME PageInv, SessionInv', ~session.splash, LogOut
  PROVE  PageInv'
<1>1. /\ world' = world /\ page' = Redrawn(Here, session, session', TRUE).page
      /\ asks' = Redrawn(Here, session, session', TRUE).asks
  BY DEF LogOut, Becomes
<1>2. session' \in Session /\ ~session'.splash
  BY PageFacts DEF LogOut, Logout, SessionInv, SessionTypeOK, Session
<1>3. Based(Here.page, Here.asks, world)
  BY DEF PageInv, Here
<1>4. PageFits(Redrawn(Here, session, session', TRUE), session', world)
  BY <1>2, <1>3, PageFacts, RedrawnFits
<1> QED BY <1>1, <1>2, <1>4, FitsNext

----------------------------------------------------------------------------
(* The server.                                                             *)

\* A request of the page gets on, while nothing else happens to page or session.
LEMMA GetsOnNext ==
  ASSUME PageInv, SessionInv', ~session.splash, session' = session, page' = page,
         world' \in [Topic -> Nat], \A k \in Topic : world[k] <= world'[k],
         NEW a \in asks, NEW b \in Ask, b.n = a.n, b.key = a.key,
         b.what = a.what \/ b.what = "seat", b.step = "done" => b.ver = world'[b.key],
         asks' = (asks \ {a}) \cup {b}
  PROVE  PageInv'
<1>1. Based(page, asks, world) /\ Asking(page, asks)
  BY DEF PageInv
<1>2. Based(page, asks', world') /\ Asking(page, asks')
  BY <1>1, GetsOn
<1> QED BY <1>2 DEF PageInv

LEMMA ServerGoes ==
  ASSUME PageInv, SessionInv', ~session.splash, Server
  PROVE  PageInv'
<1>1. session' = session /\ page' = page
  BY DEF Server, TablesChange, Serve, Refuse, Fail, sessionVars
<1>2. CASE TablesChange
  <2>1. Whole \in Topic /\ world' = [world EXCEPT ![Whole] = world[Whole] + 1] /\ asks' = asks
    BY <1>2 DEF TablesChange, Topic
  <2>2. world' \in [Topic -> Nat] /\ \A k \in Topic : world[k] <= world'[k]
    BY <2>1, PageFacts
  <2>3. Based(page, asks, world')
    BY <2>2, WorldGrows DEF PageInv
  <2> QED BY <1>1, <2>1, <2>3 DEF PageInv
<1>3. ASSUME NEW a \in asks, Serve(a) PROVE PageInv'
  <2> DEFINE b == [a EXCEPT !.step = "done", !.ver = world'[a.key]]
  <2>1. a \in Ask /\ a.key \in Topic
    BY PageFacts DEF Ask
  <2>2. world' = (IF Changes(a) THEN [world EXCEPT ![a.key] = world[a.key] + 1] ELSE world)
        /\ asks' = (asks \ {a}) \cup {b}
    BY <1>3 DEF Serve
  <2>3. world' \in [Topic -> Nat] /\ \A k \in Topic : world[k] <= world'[k]
    BY <2>1, <2>2, PageFacts
  <2>4. world'[a.key] \in Nat
    BY <2>1, <2>3
  <2>5. b \in Ask /\ b.n = a.n /\ b.key = a.key /\ b.what = a.what /\ b.ver = world'[a.key]
    BY <2>1, <2>4 DEF Ask
  <2> HIDE DEF b
  <2> QED BY <1>1, <2>2, <2>3, <2>5, GetsOnNext
<1>4. ASSUME NEW a \in asks, Refuse(a) \/ Fail(a) PROVE PageInv'
  <2> DEFINE b == [a EXCEPT !.step = "lost", !.ver = 0]
  <2>1. a \in Ask
    BY PageFacts
  <2>2. world' = world /\ asks' = (asks \ {a}) \cup {b}
    BY <1>4 DEF Refuse, Fail, Lost
  <2>3. world' \in [Topic -> Nat] /\ \A k \in Topic : world[k] <= world'[k]
    BY <2>2, PageFacts
  <2>4. b \in Ask /\ b.n = a.n /\ b.key = a.key /\ b.what = a.what /\ b.step = "lost"
    BY <2>1 DEF Ask
  <2> HIDE DEF b
  <2> QED BY <1>1, <2>2, <2>3, <2>4, GetsOnNext
<1> QED BY <1>2, <1>3, <1>4 DEF Server

----------------------------------------------------------------------------
(* Answers to the page.                                                    *)

\* An answer the page has heard is not awaited any more.
LEMMA WithoutView ==
  ASSUME PageInv, NEW a
  PROVE  SameView(page, Without(a)) /\ Without(a).heard = page.heard \ {a.n}
  BY PageFacts DEF Without, SameView, PageState

\* A form's button is enabled again.
LEMMA ClearedView ==
  ASSUME NEW q, SameView(page, q), NEW a
  PROVE  SameView(page, Cleared(q, a)) /\ Cleared(q, a).heard = q.heard
  BY DEF Cleared, SameView, PageState

\* The request is over, and what is shown of the page is the same.
LEMMA OverFits ==
  ASSUME PageInv, ~session.splash, NEW a \in asks, NEW q, SameView(page, q),
         q.heard \subseteq page.heard
  PROVE  PageFits(Over(a, q), session, world)
<1> DEFINE p == IF Heard(a) THEN q ELSE page
<1>1. /\ Based(page, asks, world) /\ Asking(page, asks) /\ Showing(page, session)
      /\ Seen(page, session)
  BY DEF PageInv
<1>2. SameView(page, page)
  BY PageFacts DEF SameView
<1>3. SameView(page, p) /\ \A n \in p.heard : n \in page.heard \/ n <= MaxCalls
  BY <1>2
<1>4. asks \ {a} \in SUBSET asks
  OBVIOUS
<1>5. Over(a, q).page = p /\ Over(a, q).asks = asks \ {a}
  BY DEF Over
<1> HIDE DEF p
<1>6. /\ Based(p, asks \ {a}, world) /\ Asking(p, asks \ {a}) /\ Showing(p, session)
      /\ Seen(p, session)
  BY <1>1, <1>3, <1>4, LessHeard
<1> QED BY <1>5, <1>6 DEF PageFits

LEMMA ShowLoadGoes ==
  ASSUME PageInv, SessionInv', ~session.splash, NEW a \in asks, ShowLoad(a)
  PROVE  PageInv'
<1> DEFINE p == Without(a)
           ok == [p EXCEPT !.loading = FALSE, !.data = [key |-> a.key, ver |-> a.ver],
                           !.error = p.error /\ page.at # "lobby"]
           bad == [p EXCEPT !.loading = FALSE, !.error = TRUE]
           q == IF a.step = "done" THEN ok ELSE bad
<1>1. session' = session /\ world' = world /\ a.what = "load" /\ a.step # "sent"
  BY DEF ShowLoad, sessionVars
<1>2. page' = Over(a, q).page /\ asks' = Over(a, q).asks
  BY DEF ShowLoad, Becomes
<1>3. SameView(page, p) /\ p.heard \subseteq page.heard
  BY WithoutView
<1>4. PageFits(Over(a, p), session, world)
  BY <1>3, OverFits
<1>5. a.key \in Topic /\ a.ver \in Nat
  BY PageFacts DEF Ask
<1>6. /\ q \in PageState /\ q.at = p.at /\ q.key = p.key /\ q.heard = p.heard
      /\ q.acked = p.acked /\ q.modal = p.modal
      /\ IF a.step = "done" THEN q.data = [key |-> a.key, ver |-> a.ver] ELSE q.error
  <2>1. [key |-> a.key, ver |-> a.ver] \in [key : Topic, ver : Nat]
        /\ (p.error /\ page.at # "lobby") \in BOOLEAN
    BY <1>5
  <2> QED BY <1>3, <2>1 DEF SameView, PageState
<1> HIDE DEF p, q
<1>7. CASE ~Heard(a)
  <2>1. Over(a, q) = Over(a, p)
    BY <1>7 DEF Over
  <2> QED BY <1>1, <1>2, <1>4, <2>1, FitsNext
<1>8. CASE Heard(a)
  <2>1. Over(a, q) = [page |-> q, asks |-> asks \ {a}] /\ Over(a, p) = [page |-> p, asks |-> asks \ {a}]
    BY <1>8 DEF Over
  <2>2. Showing(q, session)
    BY <1>1, <1>3, <1>6, <1>8 DEF PageInv, Asking, Showing, Heard, Fits, SameView
  <2>3. Based(p, asks \ {a}, world) /\ Seen(p, session) /\ Asking(p, asks \ {a})
    BY <1>4, <2>1 DEF PageFits
  <2>4. Based(q, asks \ {a}, world) /\ Seen(q, session) /\ Asking(q, asks \ {a})
    BY <1>6, <2>3 DEF Based, Drawn, Seen, Asking, Fits
  <2>5. PageFits(Over(a, q), session, world)
    BY <2>1, <2>2, <2>4 DEF PageFits
  <2> QED BY <1>1, <1>2, <2>5, FitsNext
<1> QED BY <1>7, <1>8

LEMMA HearFailureGoes ==
  ASSUME PageInv, SessionInv', ~session.splash, NEW a \in asks, HearFailure(a)
  PROVE  PageInv'
<1> DEFINE p == Cleared(Without(a), FormOf(a))
           q == [p EXCEPT !.done = p.done \/ a.what = "forgot",
                          !.error = p.error \/ a.what = "join",
                          !.sending = IF p.sending = a.n THEN 0 ELSE p.sending]
<1>1. session' = session /\ world' = world
  BY DEF HearFailure, sessionVars
<1>2. page' = Over(a, q).page /\ asks' = Over(a, q).asks
  BY DEF HearFailure, Becomes
<1>3. SameView(page, p) /\ p.heard \subseteq page.heard
  BY WithoutView, ClearedView
<1> HIDE DEF p
<1>4. SameView(page, q) /\ q.heard = p.heard
  <2>1. (p.done \/ a.what = "forgot") \in BOOLEAN /\ (p.error \/ a.what = "join") \in BOOLEAN
    OBVIOUS
  <2>2. p.sending \in Nat /\ (IF p.sending = a.n THEN 0 ELSE p.sending) \in Nat
    BY <1>3 DEF SameView, PageState
  <2> QED BY <1>3, <2>1, <2>2 DEF SameView, PageState
<1> HIDE DEF q
<1>5. PageFits(Over(a, q), session, world)
  BY <1>3, <1>4, OverFits
<1> QED BY <1>1, <1>2, <1>5, FitsNext

LEMMA HearDialogGoes ==
  ASSUME PageInv, SessionInv', ~session.splash, NEW a \in asks, HearDialog(a)
  PROVE  PageInv'
<1> DEFINE p == Without(a)
           modal == IF a.what = "lift" THEN p.modal ELSE "none"
           ack == [key |-> a.key, ver |-> a.ver]
           q == [p EXCEPT !.modal = modal, !.sending = IF a.what = "lift" THEN p.sending ELSE 0,
                          !.acked = ack]
           u == Over(a, q)
<1>1. session' = session /\ world' = world /\ a.what \in Told /\ a.step = "done"
  BY DEF HearDialog, sessionVars, Told
<1>2. /\ page' = (IF Heard(a) THEN Reloaded(u, session) ELSE u).page
      /\ asks' = (IF Heard(a) THEN Reloaded(u, session) ELSE u).asks
  BY DEF HearDialog, Becomes
<1>3. SameView(page, p) /\ p.heard \subseteq page.heard
  BY WithoutView
<1>4. PageFits(Over(a, p), session, world)
  BY <1>3, OverFits
<1>5. CASE ~Heard(a)
  <2>1. u = Over(a, p)
    BY <1>5 DEF Over
  <2> QED BY <1>1, <1>2, <1>4, <1>5, <2>1, FitsNext
<1>6. CASE Heard(a)
  <2>1. Based(p, asks \ {a}, world) /\ Seen(p, session)
    BY <1>4, <1>6 DEF PageFits, Over
  <2>2. Row(page.at).keyed /\ a.ver <= world[a.key] /\ a.key \in Topic /\ a.ver \in Nat
    BY <1>1, <1>6 DEF PageInv, Based, Drawn, Heard, Ask
  <2>3. /\ q \in PageState /\ q.at = p.at /\ q.heard = p.heard /\ q.acked = ack
    <3>1. ack \in [key : Topic, ver : Nat] /\ modal \in Modal \cup {"none"}
          /\ (IF a.what = "lift" THEN p.sending ELSE 0) \in Nat
      BY <1>3, <2>2 DEF SameView, PageState
    <3> HIDE DEF ack, modal
    <3> QED BY <1>3, <3>1 DEF SameView, PageState
  <2>4. p.at = page.at /\ ack.key = a.key /\ ack.ver = a.ver
    BY <1>3 DEF SameView
  <2>5. u.page = q /\ u.asks = asks \ {a}
    BY <1>6 DEF Over
  <2> HIDE DEF q, p, ack, u
  <2>6. Based(q, asks \ {a}, world) /\ Seen(q, session)
    BY <2>1, <2>2, <2>3, <2>4 DEF Based, Drawn, Seen
  <2>7. PageFits(Reloaded(u, session), session, world)
    BY <2>5, <2>6, PageFacts, LoadedFits DEF Reloaded
  <2> QED BY <1>1, <1>2, <1>6, <2>7, FitsNext
<1> QED BY <1>5, <1>6

LEMMA HearCreatedGoes ==
  ASSUME PageInv, SessionInv', ~session.splash, NEW a \in asks, HearCreated(a)
  PROVE  PageInv'
<1> DEFINE b == [a EXCEPT !.what = "seat", !.step = "sent"]
<1>1. session' = session /\ world' = world /\ page' = page /\ asks' = (asks \ {a}) \cup {b}
  BY DEF HearCreated, sessionVars
<1>2. b \in Ask /\ b.n = a.n /\ b.key = a.key /\ b.what = "seat" /\ b.step = "sent"
  BY PageFacts DEF Ask
<1>3. world' \in [Topic -> Nat] /\ \A k \in Topic : world[k] <= world'[k]
  BY <1>1, PageFacts
<1> HIDE DEF b
<1> QED BY <1>1, <1>2, <1>3, GetsOnNext

LEMMA HearDoneGoes ==
  ASSUME PageInv, SessionInv', ~session.splash, NEW a \in asks, HearDone(a)
  PROVE  PageInv'
<1> DEFINE p == Cleared(Without(a), FormOf(a))
           q == [p EXCEPT !.done = p.done \/ a.what \in {"contact", "forgot", "reset"}]
           u == Land(Over(a, q), session, FormOf(a).what)
<1>1. session' = session /\ world' = world /\ page' = u.page /\ asks' = u.asks
  BY DEF HearDone, sessionVars, Becomes
<1>2. SameView(page, p) /\ p.heard \subseteq page.heard
  BY WithoutView, ClearedView
<1> HIDE DEF p
<1>3. SameView(page, q) /\ q.heard = p.heard
  <2>1. (p.done \/ a.what \in {"contact", "forgot", "reset"}) \in BOOLEAN
    OBVIOUS
  <2> QED BY <1>2, <2>1 DEF SameView, PageState
<1> HIDE DEF q
<1>4. PageFits(Over(a, q), session, world)
  BY <1>2, <1>3, OverFits
<1>5. PageFits(u, session, world)
  BY <1>4, PageFacts, LandFits
<1> HIDE DEF u
<1> QED BY <1>1, <1>5, FitsNext

LEMMA HearDeletedGoes ==
  ASSUME PageInv, SessionInv', ~session.splash, NEW a \in asks, HearDeleted(a)
  PROVE  PageInv'
<1> DEFINE u == Redrawn(Over(a, Without(a)), session, session', TRUE)
           v == Land(u, session', a.what)
<1>1. world' = world /\ page' = v.page /\ asks' = v.asks /\ Logout
  BY DEF HearDeleted, Becomes
<1>2. session \in Session /\ session' \in Session /\ ~session'.splash
  BY <1>1, PageFacts DEF Logout, SessionInv, SessionTypeOK, Session
<1>3. PageFits(Over(a, Without(a)), session, world)
  BY WithoutView, OverFits
<1>4. Based(Over(a, Without(a)).page, Over(a, Without(a)).asks, world)
  BY <1>3 DEF PageFits
<1>5. PageFits(u, session', world)
  BY <1>2, <1>3, <1>4, RedrawnFits
<1> HIDE DEF u
<1>6. PageFits(v, session', world)
  BY <1>2, <1>5, LandFits
<1> HIDE DEF v
<1> QED BY <1>1, <1>2, <1>6, FitsNext

LEMMA HearSavedGoes ==
  ASSUME PageInv, SessionInv', ~session.splash, NEW a \in asks, HearSaved(a)
  PROVE  PageInv'
<1> DEFINE heard == IF Heard(a) THEN (page.heard \ {a.n}) \cup {Slot(calls)} ELSE page.heard
<1>1. /\ session' = session /\ world' = world /\ asks' = asks \ {a} /\ MayAsk(calls)
      /\ page' = [page EXCEPT !.heard = heard]
  BY DEF HearSaved, Refresh
<1>2. Slot(calls) \in Nat /\ Slot(calls) <= MaxCalls
  BY <1>1, SlotFree, SessionAssumption
<1>3. heard \in SUBSET Nat /\ \A n \in heard : n \in page.heard \/ n <= MaxCalls
  BY <1>2, PageFacts DEF PageState
<1> HIDE DEF heard
<1>4. SameView(page, page') /\ page'.heard = heard
  BY <1>1, <1>3, PageFacts DEF SameView, PageState
<1> QED BY <1>1, <1>3, <1>4, LessHeardNext

----------------------------------------------------------------------------
(* Answers to the session.                                                 *)

LEMMA HearEffectGoes ==
  ASSUME PageInv, SessionInv', NEW c \in calls, HearEffect(c)
  PROVE  PageInv'
<1> DEFINE u == Redrawn(Here, session, session', c.live)
<1>1. /\ world' = world /\ timer' = timer /\ page' = u.page /\ asks' = u.asks
      /\ EffectKnowsUser(c) \/ EffectFails(c)
  BY DEF HearEffect, Becomes
<1>2. session \in Session /\ session' \in Session /\ c.live \in BOOLEAN /\ c \in Call
  BY PageFacts DEF SessionInv, SessionTypeOK, Call
<1>3. CASE session.splash /\ ~c.live
  <2>1. session' = session /\ calls' = calls \ {c}
    BY <1>1, <1>3 DEF EffectKnowsUser, EffectFails
  <2>2. page' = page /\ asks' = asks
    BY <1>1, <1>3, <2>1 DEF Redrawn, Here
  <2> QED BY <1>1, <1>3, <2>1, <2>2 DEF PageInv, Veiled
<1>4. CASE ~session.splash \/ c.live
  <2>1. ~session'.splash
    BY <1>1, <1>2, <1>4 DEF EffectKnowsUser, EffectFails, Settled, Session
  <2>2. Based(Here.page, Here.asks, world)
    BY DEF PageInv, Here
  <2>3. PageFits(u, session', world)
    BY <1>2, <2>1, <2>2, PageFacts, RedrawnFits
  <2> HIDE DEF u
  <2> QED BY <1>1, <2>1, <2>3, FitsNext
<1> QED BY <1>3, <1>4

\* The last answer of a login, or of a form that ends in refreshUser.
LEMMA FinishedGoes ==
  ASSUME PageInv, SessionInv', ~session.splash, ~session'.splash, world' = world,
         NEW c, NEW ok \in BOOLEAN, NEW to, to = "stay" \/ to \in Route, Finished(c, ok, to)
  PROVE  PageInv'
<1> DEFINE heard == page.heard \ {c.n}
           busy == IF c.n \in page.heard THEN page.busy \ {c.by} ELSE page.busy
           q == [page EXCEPT !.heard = heard, !.busy = busy]
           u == Redrawn([page |-> q, asks |-> asks], session, session', ok)
           v == IF to = "stay" THEN u ELSE GoTo(u, session', to, Whole)
<1>1. page' = v.page /\ asks' = v.asks
  BY DEF Finished, Becomes
<1>2. session \in Session /\ session' \in Session
  BY PageFacts DEF SessionInv, SessionTypeOK
<1>3. heard \in SUBSET Nat /\ heard \subseteq page.heard /\ busy \in SUBSET (Form \cup Entrance)
  BY PageFacts DEF PageState
<1> HIDE DEF heard, busy
<1>4. SameView(page, q) /\ q.heard = heard
  BY <1>3, PageFacts DEF SameView, PageState
<1> HIDE DEF q
<1>5. Based(q, asks, world) /\ Asking(q, asks) /\ Showing(q, session) /\ Seen(q, session)
  <2>1. /\ Based(page, asks, world) /\ Asking(page, asks) /\ Showing(page, session)
        /\ Seen(page, session)
    BY DEF PageInv
  <2>2. \A n \in q.heard : n \in page.heard \/ n <= MaxCalls
    BY <1>3, <1>4
  <2>3. asks \in SUBSET asks
    OBVIOUS
  <2> QED BY <1>4, <2>1, <2>2, <2>3, LessHeard
<1>6. PageFits(u, session', world)
  <2> DEFINE x == [page |-> q, asks |-> asks]
  <2>1. PageFits(x, session, world) /\ Based(x.page, x.asks, world)
    BY <1>5 DEF PageFits
  <2> HIDE DEF x
  <2> QED BY <1>2, <2>1, RedrawnFits DEF x
<1> HIDE DEF u
<1>7. PageFits(v, session', world)
  <2>1. Whole \in Topic
    BY DEF Topic
  <2> QED BY <1>2, <1>6, <2>1, GoToFits
<1> HIDE DEF v
<1> QED BY <1>1, <1>7, FitsNext

LEMMA HearMeGoes ==
  ASSUME PageInv, SessionInv', ~session.splash, NEW c \in calls, HearMe(c) \/ HearRefused(c)
  PROVE  PageInv'
<1>1. session \in Session /\ world' = world
  BY PageFacts DEF HearMe, HearRefused
<1>2. CASE HearRefused(c)
  <2>1. session' = session /\ Finished(c, FALSE, "stay")
    BY <1>2 DEF HearRefused, EntryRefused
  <2> QED BY <1>1, <2>1, FinishedGoes
<1>3. CASE HearMe(c)
  <2>1. MeKnowsUser(c) \/ MeFails(c)
    BY <1>3 DEF HearMe
  <2>2. ~session'.splash
    BY <1>1, <2>1 DEF MeKnowsUser, MeFails, Session
  <2>3. \E ok \in BOOLEAN : \E to \in LeadsTo(c, ok) : Finished(c, ok, to)
    BY <1>3 DEF HearMe
  <2>4. \A ok : \A to \in LeadsTo(c, ok) : to = "stay" \/ to \in Route
    <3>1. "home" \in Route /\ "complete" \in Route
      BY DEF Route, Routes
    <3> QED BY <3>1, LandsOnRoute DEF LeadsTo
  <2> QED BY <1>1, <2>2, <2>3, <2>4, FinishedGoes
<1> QED BY <1>2, <1>3

LEMMA HearAcceptedGoes ==
  ASSUME PageInv, SessionInv', ~session.splash, NEW c \in calls, HearAccepted(c)
  PROVE  PageInv'
<1> DEFINE u == Redrawn(Here, session, session', FALSE)
<1>1. world' = world /\ page' = u.page /\ asks' = u.asks /\ EntryAccepted(c)
  BY DEF HearAccepted, Becomes
<1>2. session \in Session /\ session' \in Session
  BY PageFacts DEF SessionInv, SessionTypeOK
<1>3. session'.splash = session.splash
  BY <1>1, <1>2 DEF EntryAccepted, Session
<1>4. Based(Here.page, Here.asks, world)
  BY DEF PageInv, Here
<1>5. PageFits(u, session', world)
  BY <1>2, <1>3, <1>4, PageFacts, RedrawnFits
<1> HIDE DEF u
<1> QED BY <1>1, <1>3, <1>5, FitsNext

\* The redirection after a new password, and the beginning of a game.
LEMMA RedirectGoes ==
  ASSUME PageInv, SessionInv', ~session.splash, TimerFires \/ GameBegins
  PROVE  PageInv'
<1>1. session' = session /\ world' = world
  BY DEF TimerFires, GameBegins, sessionVars
<1>2. Whole \in Topic /\ "login" \in Route /\ "game" \in Route
  BY DEF Topic, Route, Routes
<1>3. /\ PageFits(Here, session, world)
      /\ PageFits(GoTo(Here, session, "login", Whole), session, world)
      /\ PageFits(GoTo(Here, session, "game", Whole), session, world)
  BY <1>2, PageFacts, GoToFits
<1> QED BY <1>1, <1>3, FitsNext DEF TimerFires, GameBegins, Becomes

----------------------------------------------------------------------------
(* The invariant of the pages.                                             *)

\* With the splash screen gone, whatever happens.
LEMMA OpenStep ==
  ASSUME PageInv, SessionInv', ~session.splash, [Next]_appVars
  PROVE  PageInv'
<1>1. CASE UNCHANGED appVars \/ SignUpTask \/ \E x \in Name \cup {NoName} : TypeName(x)
  <2>1. /\ session' = session /\ calls' = calls /\ page' = page /\ asks' = asks
        /\ world' = world /\ timer' = timer
    BY <1>1 DEF appVars, SignUpTask, TypeName, sessionVars, pageVars
  <2> QED BY <2>1 DEF PageInv, Veiled
<1>2. CASE User
  <2>1. ASSUME NEW at \in Route, NEW k \in Topic, Visit(at, k) \/ Refreshes PROVE PageInv'
    BY <2>1, VisitGoes
  <2>2. CASE Refreshes
    BY <2>1, <2>2, OpenRoutes DEF Topic
  <2>3. CASE AsksAgain
    BY <2>3, AskMoreGoes
  <2>4. CASE CloseModal \/ \E m \in Modal : OpenModal(m)
    BY <2>4, ModalGoes
  <2>5. CASE SendModal
    BY <2>5, SendModalGoes
  <2>6. CASE LogOut
    BY <2>6, LogOutGoes
  <2>7. ASSUME NEW c \in Command, Submit(c) PROVE PageInv'
    BY <2>7, SubmitGoes
  <2>8. ASSUME NEW by \in Entry, NEW a \in Account, SubmitEntrance(by, a) PROVE PageInv'
    BY <2>8, SubmitEntranceGoes
  <2> QED BY <1>1, <1>2, <2>1, <2>2, <2>3, <2>4, <2>5, <2>6, <2>7, <2>8 DEF User
<1>3. CASE Server
  BY <1>3, ServerGoes
<1>4. CASE Poll
  BY <1>4, AskMoreGoes
<1>5. CASE TimerFires \/ GameBegins
  BY <1>5, RedirectGoes
<1>6. ASSUME NEW a \in asks, Hear(a) PROVE PageInv'
  BY <1>6, ShowLoadGoes, HearFailureGoes, HearDialogGoes, HearCreatedGoes, HearDoneGoes,
     HearDeletedGoes, HearSavedGoes DEF Hear
<1>7. ASSUME NEW c \in calls, HearCall(c) PROVE PageInv'
  BY <1>7, HearEffectGoes, HearMeGoes, HearAcceptedGoes DEF HearCall
<1> QED BY <1>1, <1>2, <1>3, <1>4, <1>5, <1>6, <1>7 DEF Next

\* Under the splash screen only the effect's requests are answered, and the
\* form's checks run.
LEMMA SplashStep ==
  ASSUME PageInv, SessionInv', session.splash, [Next]_appVars
  PROVE  PageInv'
<1>1. asks = {} /\ ~timer /\ \A c \in calls : c.by = "effect"
  BY DEF PageInv, Veiled
<1>2. CASE UNCHANGED appVars \/ SignUpTask \/ \E x \in Name \cup {NoName} : TypeName(x)
  <2>1. /\ session' = session /\ calls' = calls /\ page' = page /\ asks' = asks
        /\ world' = world /\ timer' = timer
    BY <1>2 DEF appVars, SignUpTask, TypeName, sessionVars, pageVars
  <2> QED BY <2>1 DEF PageInv, Veiled
<1>3. ~Clicked /\ ~Poll /\ ~CloseModal /\ ~TimerFires /\ ~GameBegins
  BY <1>1 DEF Clicked, Poll, CloseModal, TimerFires, GameBegins
<1>4. ~Server
  BY <1>1, <1>3 DEF Server, TablesChange
<1>5. User => \E x \in Name \cup {NoName} : TypeName(x)
  BY <1>3 DEF User, Visit, Refreshes, AsksAgain, OpenModal, SendModal, Submit, SubmitEntrance,
              LogOut
<1>6. ASSUME NEW c \in calls, HearCall(c) PROVE PageInv'
  <2>1. HearEffect(c)
    BY <1>1, <1>6 DEF HearCall, HearMe, HearRefused, HearAccepted, EntryRefused, EntryAccepted,
                      Entry
  <2> QED BY <2>1, HearEffectGoes
<1> QED BY <1>1, <1>2, <1>3, <1>4, <1>5, <1>6 DEF Next

LEMMA PageStep == PageInv /\ [Next]_appVars => PageInv'
<1> SUFFICES ASSUME PageInv, [Next]_appVars PROVE PageInv'
  OBVIOUS
<1>1. SessionInv'
  BY TabStep, SessionStep DEF PageInv
<1> QED BY <1>1, OpenStep, SplashStep

LEMMA PageInit == Init => PageInv
<1> SUFFICES ASSUME Init PROVE PageInv
  OBVIOUS
<1>1. SessionInv /\ session \in Session
  BY SessionInvInit DEF Init, SessionInv, SessionTypeOK
<1>2. PICK at \in tour, k \in Topic :
        Opens(IF session.splash THEN [page |-> Fresh(at, k), asks |-> {}]
              ELSE Loaded(Fresh(Admitted(at, session), k), {}, session))
  BY DEF Init
<1>3. at \in Route
  BY AppAssumption DEF Init
<1>4. world \in [Topic -> Nat] /\ ~timer
  BY DEF Init
<1>5. ASSUME NEW r \in Route
      PROVE  Based(Fresh(r, k), {}, world) /\ (Row(r).keyed => Fresh(r, k).loading)
             /\ Fresh(r, k).at = r /\ Fresh(r, k).heard = {}
  <2> DEFINE pg == Fresh(r, k)
  <2>1. /\ pg \in PageState /\ pg.at = r /\ pg.heard = {} /\ pg.acked.ver = 0
        /\ pg.modal = "none" /\ (Row(r).keyed => pg.loading)
    BY FreshPage
  <2> HIDE DEF pg
  <2>2. Drawn(pg, {}, world)
    BY <1>4, <2>1, FS_EmptySet DEF Drawn
  <2>3. Based(pg, {}, world)
    BY <2>1, <2>2 DEF Based
  <2> QED BY <2>1, <2>3 DEF pg
<1>6. CASE session.splash
  <2>1. page = Fresh(at, k) /\ asks = {}
    BY <1>2, <1>6 DEF Opens
  <2>2. \A c \in calls : c.by = "effect"
    BY DEF Init, SessionInit, AskMe
  <2>3. Based(page, asks, world) /\ (Row(page.at).keyed => page.loading) /\ page.heard = {}
    BY <1>3, <1>5, <2>1
  <2> QED BY <1>1, <1>4, <1>6, <2>1, <2>2, <2>3 DEF PageInv, Veiled, Asking, Showing
<1>7. CASE ~session.splash
  <2> DEFINE to == Admitted(at, session)
             u == Loaded(Fresh(to, k), {}, session)
  <2>1. page = u.page /\ asks = u.asks
    BY <1>2, <1>7 DEF Opens
  <2>2. to \in Route /\ (Row(to).needs = "staff" => IsStaff(session))
    BY <1>3, AdmittedIsRoute
  <2>3. Based(Fresh(to, k), {}, world) /\ Seen(Fresh(to, k), session)
    BY <1>5, <2>2 DEF Seen
  <2>4. PageFits(u, session, world)
    BY <1>1, <2>3, LoadedFits
  <2> HIDE DEF u
  <2> QED BY <1>1, <1>7, <2>1, <2>4 DEF PageInv, PageFits
<1> QED BY <1>6, <1>7

THEOREM PageInvariance == Spec => []PageInv
  BY PageInit, PageStep, PTL DEF Spec

\* A page about one filter, account or room shows what its URL asks for,
\* however the answers of successive filters overtake each other.
THEOREM UrlIsShown == Spec => []ShownIsAsked
<1>1. PageInv => ShownIsAsked
  <2> SUFFICES ASSUME PageInv, SignedIn, Row(page.at).keyed, Shown(page) = "data"
               PROVE  page.data.key = page.key
    BY DEF ShownIsAsked
  <2>1. Row(page.at).tells
    BY PageFacts, RouteRows DEF RowOK
  <2>2. ~page.loading /\ ~page.error
    BY <2>1 DEF Shown
  <2> QED BY <2>2 DEF PageInv, Showing, Fits, SignedIn
<1> QED BY <1>1, PageInvariance, PTL

\* Who was told that a sanction, a notice or a lifted ban went through sees
\* its effect: the load that the cleanup of the effect dropped cannot come back.
THEOREM ActsAreSeen == Spec => []OwnActsAreSeen
<1>1. PageInv => OwnActsAreSeen
  <2> SUFFICES ASSUME PageInv, SignedIn, Shown(page) = "data", page.acked.ver > 0,
                      page.acked.key = page.data.key
               PROVE  page.data.ver >= page.acked.ver
    BY DEF OwnActsAreSeen
  <2>1. Row(page.at).keyed
    BY DEF PageInv, Based
  <2>2. Row(page.at).tells
    BY <2>1, PageFacts, RouteRows DEF RowOK
  <2>3. ~page.loading /\ ~page.error
    BY <2>2 DEF Shown
  <2> QED BY <2>1, <2>3 DEF PageInv, Showing, Fits, SignedIn
<1> QED BY <1>1, PageInvariance, PTL
=============================================================================
