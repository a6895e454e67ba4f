---------------------------- MODULE MCAuthServer ----------------------------
(* AuthServer for TLC. *)
EXTENDS AuthServer, TLC

Symmetry == Permutations(Tag)
=============================================================================
