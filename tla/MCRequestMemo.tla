---------------------------- MODULE MCRequestMemo ----------------------------
(* RequestMemo for TLC: two requests, one or two calls they repeat. *)
EXTENDS RequestMemo, TLC

Symmetry == Permutations(Requests) \cup Permutations(Keys)
=============================================================================
