----------------------------- MODULE MCComposer -----------------------------
(* Small instances of Composer.                                            *)
EXTENDS Composer, SequencesExt

CONSTANTS g1, g2, gone, m1, m2, m3

(* The ways a target can be, each with at least one more reason that ranks *)
(* lower than the one to be reported.                                      *)
Status == {"fine", "tried", "unknown", "disabled", "cooling"}

Having(status, s) == {m \in DOMAIN status : status[m] \in s}

Input(order, members, chain, compact, tokens, status) ==
  [order |-> order, members |-> members, chain |-> chain, compact |-> compact,
   overflow |-> TRUE, threshold |-> 2, tokens |-> tokens,
   tried |-> Having(status, {"tried"}),
   known |-> Having(status, {"fine", "disabled", "cooling"}),
   enabled |-> Having(status, {"fine", "cooling"}),
   cooling |-> Having(status, {"cooling", "tried", "unknown", "disabled"})]

(* Members of a group are distinct (its primary key).                      *)
Distinct(S) == {s \in SeqOf(S, Cardinality(S)) : IsInjective(s)}

Chains == {<<>>, <<g1>>, <<g2, g1>>, <<gone, g2>>}

(* Two models in every state and every arrangement, with and without the   *)
(* compact segment, and a strategy that names a group that is gone.        *)
TwoModels ==
  {Input(<<g1, g2>>, (g1 :> a) @@ (g2 :> b) @@ (gone :> <<>>), ch, co[1], co[2], st) :
     a \in Distinct({m1, m2}), b \in Distinct({m1, m2}), ch \in Chains,
     co \in {<<<<g1>>, 1>>, <<<<>>, 2>>, <<<<g2>>, 2>>, <<<<gone, g1>>, 3>>},
     st \in [{m1, m2} -> Status]}

(* Three models, available or not, and the switches that turn the overflow *)
(* off.                                                                    *)
ThreeModels ==
  {[Input(<<g2, g1>>, (g1 :> a) @@ (g2 :> <<m2, m3>>) @@ (gone :> <<m1>>),
          ch, <<g1, g2>>, 2, st)
      EXCEPT !.overflow = sw[1], !.threshold = sw[2]] :
     a \in Distinct({m1, m2, m3}), ch \in {<<>>, <<g1, g2>>},
     sw \in {<<TRUE, 2>>, <<TRUE, 0>>, <<FALSE, 2>>},
     st \in [{m1, m2, m3} -> {"fine", "cooling", "tried"}]}

CheckedInputs == TwoModels \cup ThreeModels

=============================================================================
