------------------------------- MODULE MCMigrate -------------------------------
(* A small instance of Migrate.                                            *)
EXTENDS Migrate

Order == <<"c1", "c2">>

(* In order: a known script, the one with two pools, and an unknown name.  *)
SomePolicies == <<"compact_overflow", "custom", "failover">>

SomeUsers == {"u1", "u2", "u3"}

PolicyOfUsers == [u1 |-> "compact_overflow", u2 |-> "custom", u3 |-> "failover"]

Group(n, compact, config, window) ==
  [name |-> n, compact |-> compact, config |-> config, window |-> window]

Small == Group("g1", FALSE, 0, 0)
Large == Group("g3", FALSE, 0, 1)
Pool  == Group("g2", TRUE, 0, 1)

SomeGroups == {Small, Large, Pool, [Small EXCEPT !.config = 5]}

(* Two primary groups and a compact one, with the windows to tell; and a   *)
(* compact group first, with a threshold declared.                         *)
Windowed  == <<Small, Large, Pool>>
Declaring == <<Pool, [Small EXCEPT !.config = 5]>>

Bound(x, y, z) == [u1 |-> x, u2 |-> y, u3 |-> z]

SomeWorlds ==
  {[groups |-> [c1 |-> Windowed, c2 |-> Declaring], bound |-> Bound("c1", "c2", "c2")],
   [groups |-> [c1 |-> Declaring, c2 |-> Gone], bound |-> Bound("c1", "c1", "c1")]}

SomeStrategies == {[Plain(<<"g1">>) EXCEPT !.compacts = <<"g2">>]}

CONSTANTS r1, r2

Symmetry == Permutations({r1, r2})
=============================================================================
