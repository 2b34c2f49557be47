-------------------------- MODULE MCTransferRuntime --------------------------
(* TransferRuntime on small sets: threads, ids and targets are model values. *)
EXTENDS TransferRuntime, TLC

Symmetry == Permutations(Runs) \cup Permutations(Ids) \cup Permutations(Targets)
=============================================================================
