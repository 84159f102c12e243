---------------------------- MODULE MCRunState ------------------------------
(* Small instances of RunState.                                            *)
EXTENDS RunState, TLC

CONSTANTS m1, m2, r1, r2, r3, c1, c2

B(m, o, t, n) == [model |-> m, outcome |-> o, retry |-> t, tokens |-> n]

(* One report for each of the three upserts, on the one target where they  *)
(* race; the one for the third carries a retry_after too far away to be    *)
(* believed.                                                               *)
OneTarget == {B(m1, "normal", 0, 2), B(m1, "abnormal", 9, 1),
              B(m1, "retrying", 3, 0)}

(* For liveness: what it takes for handlers to wait for each other, on two *)
(* targets, with a neutral outcome and one that validate refuses.          *)
Racing == {B(m1, "normal", 0, 0), B(m1, "abnormal", 0, 0),
           B(m2, "transport", 0, 1), B(m2, "unknown", 0, 0)}

Symmetry == Permutations({r1, r2, r3}) \cup Permutations({c1, c2})
=============================================================================
