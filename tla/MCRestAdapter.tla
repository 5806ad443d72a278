---------------------------- MODULE MCRestAdapter ----------------------------
(* Small instances of RestAdapter for TLC. *)
EXTENDS RestAdapter, TLC

CONSTANTS c1, c2

Symmetry == Permutations({c1, c2})
=============================================================================
