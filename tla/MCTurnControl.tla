--------------------------- MODULE MCTurnControl ---------------------------
(***************************************************************************)
(* TurnControl for TLC: boots are interchangeable, and so are the Turns,   *)
(* which share one conversation.                                           *)
(***************************************************************************)
EXTENDS TurnControl, TLC
CONSTANTS c1

OneConversation == [t \in Turn |-> c1]
Symmetry == Permutations(Boot) \cup Permutations(Turn)
============================================================================
