---------------------------- MODULE MCCollections ---------------------------
(* Small instances of Collections.                                         *)
EXTENDS Collections, TLC

CONSTANTS a1, a2, rd1, m1, m2, m3

Symmetry == Permutations({a1, a2})

(* Two lists with nothing in common, and the empty one.                    *)
Lists == {{}, {m1, m2}, {m3}}
=============================================================================
