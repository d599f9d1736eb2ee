-------------------------------- MODULE Pages --------------------------------
(***************************************************************************)
(* What each page under pages/ is: who may see it, when it asks the server *)
(* for what it shows, what it shows meanwhile, and what may be sent from   *)
(* it.  One record per page; App.tla has the behaviour.                    *)
(*                                                                         *)
(*   needs    "staff": redirects anyone else; "user": asks nothing without *)
(*            a user; "none"                                               *)
(*   loads    "session": an effect on token, user and key; "poll", "once"  *)
(*   keyed    what it asks for is in the URL (a filter, an id)             *)
(*   blanks   the effect sets loading again; forgets: it clears the error  *)
(*   tells    a failed load is shown                                       *)
(*   sends    forms and buttons; modals: dialogs with a button of their own*)
(*   links    where its own links lead                                     *)
(***************************************************************************)

\* "sanction" is any of ban, chat ban, sanitize and role; "notice" is broadcast
\* or kick; "lift" is either of the unban buttons.
Modal == {"sanction", "deleteUser", "notice", "dissolve"}
Direct == {"lift"}
Form == {"joinCode", "join", "create", "contact", "forgot", "reset", "complete",
         "edit", "avatar", "export", "deleteAccount"}
Entrance == {"login", "register", "google"}
Command == Form \cup Modal \cup Direct

Static == [needs |-> "none", loads |-> "never", keyed |-> FALSE, blanks |-> FALSE,
           forgets |-> FALSE, tells |-> FALSE, sends |-> {}, modals |-> {}, links |-> {}]
StaffPage == [Static EXCEPT !.needs = "staff", !.loads = "session", !.tells = TRUE]

HomePage == [Static EXCEPT !.sends = {"joinCode"},
                           !.links = {"create", "lobby", "login", "signup"}]
LobbyPage == [Static EXCEPT !.loads = "poll", !.tells = TRUE, !.sends = {"join"},
                            !.links = {"create"}]
CreateRoomPage == [Static EXCEPT !.sends = {"create"}, !.links = {"home"}]
WaitingPage == [Static EXCEPT !.links = {"home"}]
GamePage == [Static EXCEPT !.links = {"home", "rankings"}]
RankingsPage == [Static EXCEPT !.loads = "once"]
LoginPage == [Static EXCEPT !.sends = {"login", "google"},
                            !.links = {"signup", "forgot", "home"}]
SignUpPage == [Static EXCEPT !.sends = {"register", "google"}, !.links = {"login", "home"}]
CompleteProfilePage == [Static EXCEPT !.sends = {"complete"}]
ForgotPasswordPage == [Static EXCEPT !.sends = {"forgot"}, !.links = {"login"}]
ResetPasswordPage == [Static EXCEPT !.sends = {"reset"}, !.links = {"login"}]
ContactPage == [Static EXCEPT !.sends = {"contact"}]
PrivacyPage == [Static EXCEPT !.loads = "once", !.links = {"contact"}]
ProfilePage == [Static EXCEPT !.needs = "user", !.loads = "session", !.links = {"login", "admin"},
                              !.sends = {"edit", "avatar", "export", "deleteAccount"}]
AdminDashboardPage == [StaffPage EXCEPT !.links = {"users", "rooms", "audit", "userDetail"}]
AdminUsersPage == [StaffPage EXCEPT !.keyed = TRUE, !.blanks = TRUE, !.forgets = TRUE,
                                    !.links = {"admin", "audit", "users", "userDetail"}]
AdminAuditPage == [StaffPage EXCEPT !.keyed = TRUE, !.blanks = TRUE, !.forgets = TRUE,
                                    !.links = {"admin", "users", "audit", "userDetail"}]
AdminRoomsPage == [StaffPage EXCEPT !.blanks = TRUE, !.forgets = TRUE,
                                    !.links = {"admin", "users", "rooms", "roomDetail"}]
AdminUserDetailPage == [StaffPage EXCEPT !.keyed = TRUE, !.blanks = TRUE, !.sends = {"lift"},
                                         !.modals = {"sanction", "deleteUser"}, !.links = {"users"}]
AdminRoomDetailPage == [StaffPage EXCEPT !.keyed = TRUE, !.blanks = TRUE,
                                         !.modals = {"notice", "dissolve"}, !.links = {"rooms"}]

\* The routes of App.jsx; the two tabs of the login page count as two.
Routes ==
  [home |-> HomePage, lobby |-> LobbyPage, create |-> CreateRoomPage, waiting |-> WaitingPage,
   game |-> GamePage, rankings |-> RankingsPage, login |-> LoginPage, signup |-> SignUpPage,
   complete |-> CompleteProfilePage, forgot |-> ForgotPasswordPage,
   reset |-> ResetPasswordPage, contact |-> ContactPage, privacy |-> PrivacyPage,
   profile |-> ProfilePage, admin |-> AdminDashboardPage, users |-> AdminUsersPage,
   audit |-> AdminAuditPage, rooms |-> AdminRoomsPage,
   userDetail |-> AdminUserDetailPage, roomDetail |-> AdminRoomDetailPage]
Route == DOMAIN Routes

\* Where a success leads; "stay" for those that lead nowhere.
LandsOn(c) ==
  CASE c \in {"login", "register", "complete", "deleteAccount"} -> "home"
    [] c \in {"join", "joinCode", "create"} -> "waiting"
    [] c = "deleteUser" -> "users"
    [] c = "dissolve" -> "rooms"
    [] OTHER -> "stay"

\* TopBar and Footer, over every page but the game.
TopBar(at, user, staff) ==
  IF at = "game" THEN {}
  ELSE {"home", "rankings", "privacy", "contact"}
       \cup (IF user THEN {"profile"} \cup {r \in {"admin"} : staff /\ Routes[at].needs # "staff"}
             ELSE {"login"})
=============================================================================
