--------------------------- MODULE MCFaultRetries ---------------------------
(* FaultRetries for TLC. *)
EXTENDS FaultRetries, TLC

Symmetry == Permutations(Clients) \cup Permutations(Nonces)
=============================================================================
