------------------------------ MODULE MCClient -----------------------------
(* Values of Client's constants for TLC.                                     *)
EXTENDS Client

\* The table and the absences of its players; departures and notices; rules.
ThreeMixes == {{"play", "absence", "tiebreak"}, {"play", "goes", "notice"},
               {"play", "rules"}}
=============================================================================
