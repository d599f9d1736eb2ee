------------------------------ MODULE MCTable ------------------------------
(* Values of Table's constants for TLC: the worth of the combinations, from
   the weakest on.                                                           *)
EXTENDS Table, TLC

TwoRanks  == <<1, 2>>
Symmetric == Permutations(Player)
=============================================================================
