------------------------------- MODULE Match -------------------------------
(***************************************************************************)
(* What the rules engine promises about chips and scores, with none of how *)
(* turns are taken: a settled cycle moves chips to ONE player, from the    *)
(* bank while it has any and from another player afterwards; holding every *)
(* chip loses the match, two lost matches cost a point, PointsToLose       *)
(* points lose the partie.  Table.tla and Room.tla are shown to implement  *)
(* this specification.                                                     *)
(***************************************************************************)
EXTENDS Integers

CONSTANTS Player, Chips, PointsToLose

VARIABLES
  pool,       \* chips in the bank
  tokens,     \* chips of each player
  losses,     \* matches lost since the last point
  points      \* points lost in the partie

vars == <<pool, tokens, losses, points>>
Nobody == [p \in Player |-> 0]

Init == pool = Chips /\ tokens = Nobody /\ losses = Nobody /\ points = Nobody

InProgress == \A p \in Player : points[p] < PointsToLose

\* The table after a transfer left "bank" chips and the holdings "held".
Score(bank, held) ==
  \/ /\ \A p \in Player : held[p] < Chips
     /\ pool' = bank /\ tokens' = held /\ UNCHANGED <<losses, points>>
  \/ \E p \in Player :
       /\ held[p] = Chips
       /\ IF losses[p] = 0
          THEN /\ losses' = [losses EXCEPT ![p] = 1] /\ UNCHANGED points
               /\ pool' = Chips /\ tokens' = Nobody
          ELSE /\ losses' = Nobody /\ points' = [points EXCEPT ![p] = @ + 1]
               /\ IF points[p] + 1 < PointsToLose
                  THEN pool' = Chips /\ tokens' = Nobody
                  ELSE pool' = bank /\ tokens' = held

\* Charge: the loser takes n chips from the bank.
Charge(loser, n) ==
  /\ InProgress /\ n <= pool
  /\ Score(pool - n, [tokens EXCEPT ![loser] = @ + n])

\* Décharge: with the bank empty, the winner gives the loser n chips.
Decharge(winner, loser, n) ==
  /\ InProgress /\ pool = 0 /\ winner # loser /\ n <= tokens[winner]
  /\ Score(0, [[tokens EXCEPT ![winner] = @ - n] EXCEPT ![loser] = @ + n])

\* The partie is lost; the next one starts from nothing.
NewPartie ==
  /\ ~InProgress
  /\ pool' = Chips /\ tokens' = Nobody /\ losses' = Nobody /\ points' = Nobody

Next ==
  \/ NewPartie
  \/ \E loser \in Player, n \in 1..Chips :
       Charge(loser, n) \/ \E winner \in Player : Decharge(winner, loser, n)

Spec == Init /\ [][Next]_vars
=============================================================================
