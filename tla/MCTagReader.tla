---------------------------- MODULE MCTagReader ----------------------------
(* TagReader for TLC. *)
EXTENDS TagReader, TLC

CONSTANTS a, b

CharSet  == ({a, b} \X (1 .. TAG_LENGTH)) \cup {NUL}
Symmetry == Permutations({a, b})
=============================================================================
