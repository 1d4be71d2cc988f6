------------------------- MODULE MCTurnCoordinator -------------------------
(* Small instances of TurnCoordinator for TLC. *)
EXTENDS TurnCoordinator, TLC

\* Turn and request ids are only compared, so permuting them is sound.
Symmetric == Permutations(Turns) \cup Permutations(Requests)
=============================================================================
