------------------------------- MODULE MCRoom -------------------------------
(* Values of Room's constants for TLC: the worth of the combinations, from
   the weakest on.                                                           *)
EXTENDS Room, TLC

TwoRanks  == <<1, 2>>
Symmetric == Permutations(Player)
=============================================================================
