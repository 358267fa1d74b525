--------------------------- MODULE MCTurnHandover ---------------------------
(***************************************************************************)
(* TurnHandover for TLC.  Hosts and Turns are interchangeable in it: the   *)
(* safety run explores one state of each orbit.  The liveness runs use     *)
(* TurnHandover itself, without symmetry.                                  *)
(***************************************************************************)
EXTENDS TurnHandover, TLC

Symmetry == Permutations(Host) \cup Permutations(Turn)
=============================================================================
