----------------------------- MODULE MCUserModels -----------------------------
(* A small instance of UserModels.                                         *)
EXTENDS UserModels

CONSTANTS c1, c2, k1, k2, p1, p2

Row(c, k, p, e) == [collection |-> c, key |-> k, protocol |-> p, enabled |-> e]

(* A row, the row with another key, collection and protocol, and the row   *)
(* disabled.                                                               *)
SomeRows ==
  {Row(c1, k1, p1, TRUE), Row(c2, k2, AnyProtocol, TRUE), Row(c1, k1, p1, FALSE)}

(* The first key, with the right protocol and with another.                *)
SomeAsks == {[key |-> k1, protocol |-> p1], [key |-> k1, protocol |-> p2]}
=============================================================================
