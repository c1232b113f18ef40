--------------------------- MODULE MCTensorBoards ---------------------------
(* Small instances of TensorBoards for TLC. *)
EXTENDS TensorBoards, TLC

\* Sessions, keys and ports are interchangeable.
BoardSymmetry == Permutations(Sessions) \cup Permutations(Keys) \cup Permutations(Ports)
=============================================================================
