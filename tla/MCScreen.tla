------------------------------ MODULE MCScreen -----------------------------
(* Values of Screen's constants for TLC.                                     *)
EXTENDS Screen

ScreenRanks == <<1, 2>>
=============================================================================
