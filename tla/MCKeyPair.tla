------------------------------ MODULE MCKeyPair ------------------------------
(* KeyPair for TLC. *)
EXTENDS KeyPair, TLC

Symmetry == Permutations(Isolates)
=============================================================================
