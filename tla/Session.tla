------------------------------ MODULE Session ------------------------------
(***************************************************************************)
(* hooks/useAuth.js over api/auth.js: the token and the user of one tab,   *)
(* and the requests that change them.  A request is a record from the      *)
(* click on to its last answer; the server refuses, fails or answers any   *)
(* of them, in any order.                                                  *)
(*                                                                         *)
(* There are three ways to ask who the user is (GET /auth/me): the effect  *)
(* that runs for every new token, the last step of a login, and            *)
(* refreshUser; only the first drops its answer when the token changed.    *)
(***************************************************************************)
EXTENDS Integers, FiniteSets

CONSTANTS
  Account,     \* accounts of the server
  Nobody,      \* null: no user, no token
  MaxLogins,   \* tokens the server hands out, at most
  MaxCalls     \* requests under way at a time, at most

Token == [owner : Account, n : 1..MaxLogins]

ASSUME SessionAssumption ==
  /\ Nobody \notin Account /\ Nobody \notin Token
  /\ MaxLogins \in Nat \ {0} /\ MaxCalls \in Nat \ {0}

VARIABLES
  session,   \* token, user, splash (loading) and stored (localStorage)
  calls,     \* requests of the session under way
  logins     \* tokens handed out so far
sessionVars == <<session, calls, logins>>

Entry == {"login", "register", "google"}            \* useAuth's own functions
Refresher == {"complete", "edit", "avatar"}         \* forms that end in refreshUser
\* "n" tells requests apart; "live" says that the effect that sent it has not
\* been cleaned up.
Call == [n : 1..MaxCalls, by : {"effect"} \cup Entry \cup Refresher,
         step : {"post", "me"}, token : Token \cup {Nobody}, account : Account,
         live : BOOLEAN]
Session == [token : Token \cup {Nobody}, stored : Token \cup {Nobody},
            user : Account \cup {Nobody}, splash : BOOLEAN]

----------------------------------------------------------------------------

Slot(cs) == CHOOSE n \in 1..MaxCalls : \A c \in cs : c.n # n
MayAsk(cs) == \E n \in 1..MaxCalls : \A c \in cs : c.n # n
AskMe(n, by, t) ==
  [n |-> n, by |-> by, step |-> "me", token |-> t, account |-> t.owner, live |-> TRUE]

\* The effect's cleanup: cancelled = true.
Cancelled_Never(cs) == cs
Cancelled(cs) == {IF c.by = "effect" THEN [c EXCEPT !.live = FALSE] ELSE c : c \in cs}

\* setToken(t): the effect is cleaned up and runs anew for a token.
TokenSet(cs, t) ==
  /\ session'.token = t
  /\ \/ t = session.token /\ calls' = cs
     \/ t # session.token /\ t = Nobody /\ calls' = Cancelled(cs)
     \/ t # session.token /\ t # Nobody /\ MayAsk(cs)
        /\ calls' = Cancelled(cs) \cup {AskMe(Slot(cs), "effect", t)}

\* The tab is opened, with or without a stored token.
SessionInit ==
  \/ /\ session = [token |-> Nobody, stored |-> Nobody, user |-> Nobody, splash |-> FALSE]
     /\ calls = {} /\ logins = 0
  \/ \E t \in Token :
       /\ t.n = 1 /\ logins = 1
       /\ session = [token |-> t, stored |-> t, user |-> Nobody, splash |-> TRUE]
       /\ calls = {AskMe(1, "effect", t)}

\* The effect's finally: setLoading(false).
Settled_Never(s) == s
Settled(s) == [s EXCEPT !.splash = FALSE]

\* The effect's request is answered.
EffectKnowsUser(c) ==
  /\ c \in calls /\ c.by = "effect" /\ calls' = calls \ {c} /\ UNCHANGED logins
  /\ session' = IF c.live THEN Settled([session EXCEPT !.user = c.account]) ELSE session

\* Any failure, a refusal or a dropped line, forgets the token; the user, if
\* another request has set one, stays.
EffectFails(c) ==
  /\ c \in calls /\ c.by = "effect" /\ UNCHANGED logins
  /\ IF c.live THEN /\ session' = Settled([session EXCEPT !.stored = Nobody, !.token = Nobody])
                    /\ calls' = Cancelled(calls \ {c})
     ELSE UNCHANGED session /\ calls' = calls \ {c}

\* login, register, googleLogin: POST, keep the token, then ask who it is.
Enter(by, a) ==
  /\ ~session.splash /\ MayAsk(calls)
  /\ calls' = calls \cup {[n |-> Slot(calls), by |-> by, step |-> "post", token |-> Nobody,
                             account |-> a, live |-> TRUE]}
  /\ UNCHANGED <<session, logins>>

EntryRefused(c) ==
  /\ c \in calls /\ c.by \in Entry /\ c.step = "post"
  /\ calls' = calls \ {c} /\ UNCHANGED <<session, logins>>

EntryAccepted(c) ==
  /\ c \in calls /\ c.by \in Entry /\ c.step = "post" /\ logins < MaxLogins
  /\ logins' = logins + 1
  /\ LET t == [owner |-> c.account, n |-> logins + 1]
     IN  /\ session' = [session EXCEPT !.token = t, !.stored = t]
         /\ TokenSet((calls \ {c}) \cup {[c EXCEPT !.step = "me", !.token = t]}, t)

\* refreshUser(t), the last step of a form, with the token t of the render in
\* which the form was sent.
Refresh(f, t) ==
  /\ MayAsk(calls) /\ t \in Token /\ t.n <= logins
  /\ calls' = calls \cup {AskMe(Slot(calls), f, t)} /\ UNCHANGED <<session, logins>>

\* The request of a login or of refreshUser is answered, whatever the token
\* is by then; a failure leaves the session as it is.
MeKnowsUser(c) ==
  /\ c \in calls /\ c.by # "effect" /\ c.step = "me"
  /\ calls' = calls \ {c} /\ session' = [session EXCEPT !.user = c.account] /\ UNCHANGED logins
MeFails(c) ==
  /\ c \in calls /\ c.by # "effect" /\ c.step = "me"
  /\ calls' = calls \ {c} /\ UNCHANGED <<session, logins>>

\* logout: at a click, or because the account was deleted; the splash screen
\* has nothing to click.
Logout ==
  /\ ~session.splash
  /\ session' = [session EXCEPT !.token = Nobody, !.stored = Nobody, !.user = Nobody]
  /\ TokenSet(calls, Nobody) /\ UNCHANGED logins

SessionNext ==
  \/ \E c \in calls : EffectKnowsUser(c) \/ EffectFails(c) \/ EntryRefused(c)
                      \/ EntryAccepted(c) \/ MeKnowsUser(c) \/ MeFails(c)
  \/ \E by \in Entry, a \in Account : Enter(by, a)
  \/ \E f \in Refresher, t \in Token : Refresh(f, t)
  \/ Logout
SessionSpec == SessionInit /\ [][SessionNext]_sessionVars

----------------------------------------------------------------------------
(* Properties.                                                             *)

SessionTypeOK ==
  /\ session \in Session /\ calls \in SUBSET Call /\ logins \in 0..MaxLogins
  /\ session.token = session.stored

\* An answer about a token that is no longer the session's ends no session and
\* brings no other token back: who logs in again while the request of an older
\* token is under way is not logged out by it, nor left before the splash screen.
\* Such an answer of the effect names nobody either.  Those of login's and
\* refreshUser's own requests do: they have no cancelled flag, and set the user
\* to the account they asked about, whatever the token is by then.
OldAnswersEndNoSession ==
  [][\A c \in calls \ calls' :
       c.step = "me" /\ c.token # session.token =>
         /\ session'.token = session.token /\ session'.stored = session.stored
         /\ session'.splash = session.splash
         /\ session'.user # session.user => c.by # "effect" /\ session'.user = c.account]_sessionVars

\* While the splash screen hides every page, a request is under way whose
\* answer takes it away: it is not cancelled by anything but its own answer.
SplashIsAwaited ==
  session.splash => \E c \in calls : c.by = "effect" /\ c.live /\ c.token = session.token
=============================================================================
