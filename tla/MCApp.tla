-------------------------------- MODULE MCApp --------------------------------
(* Values of App's constants for TLC.                                        *)
EXTENDS App

\* Moderating accounts, moderating rooms, finding a table, signing up and in,
\* the profile, and the pages between.
Tourings ==
  {{"users", "userDetail"}, {"rooms"}, {"roomDetail"}, {"lobby", "create", "rankings"},
   {"signup"}, {"login", "reset"}, {"profile", "complete", "admin", "audit"},
   {"home", "waiting", "forgot", "contact", "privacy"}}
=============================================================================
