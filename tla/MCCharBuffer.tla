---------------------------- MODULE MCCharBuffer ----------------------------
(* CharBuffer for TLC: the characters are model values. *)
EXTENDS CharBuffer, TLC

CONSTANTS a, b

Symmetry == Permutations({a, b})
=============================================================================
