------------------------------ MODULE MCConsole ------------------------------
(* Small instances of Console.                                             *)
EXTENDS Console, TLC

CONSTANTS a, b, l1, l2, t1, t2

Group(n, l) == [position |-> n, members |-> l]

(* Two groups in one collection, one of the same name in the other.        *)
TwoAndOne ==
  (a :> <<Group(0, l1), Group(1, l1)>>) @@ (b :> <<Group(0, l2), Null>>)

Symmetry == Permutations({t1, t2})
=============================================================================
