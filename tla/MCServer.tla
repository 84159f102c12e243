------------------------------- MODULE MCServer -------------------------------
(* A small instance of Server.                                             *)
EXTENDS Server

(* Two operators' requests and two of the data plane, one key right and    *)
(* one wrong; all but one write.                                           *)
SomeRequests == {"a1", "a2", "d1", "d2"}

PlaneOf == [a1 |-> "admin", a2 |-> "admin", d1 |-> "dispatch", d2 |-> "dispatch"]

KeyOf == [a1 |-> "k1", a2 |-> "k1", d1 |-> "k2", d2 |-> "k1"]

Config(complete, cache, d, a) ==
  [complete |-> complete, cache |-> cache, key |-> [dispatch |-> d, admin |-> a]]

SomeConfigs ==
  {Config(TRUE, TRUE, "k2", "k1"), Config(TRUE, FALSE, "k2", "k1"),
   Config(TRUE, TRUE, "k1", "k1"), Config(FALSE, TRUE, "k2", "k1"),
   Config(TRUE, TRUE, "k2", NoKey)}
=============================================================================
