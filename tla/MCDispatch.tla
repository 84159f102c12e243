----------------------------- MODULE MCDispatch -----------------------------
(* A small instance of Dispatch.                                           *)
EXTENDS Dispatch, TLC

CONSTANTS g1, g2, m1, m2, q1, q2

Members(a, b) == (g1 :> a) @@ (g2 :> b)

(* The groups in order of position, one target in both.                    *)
Standard ==
  [order |-> <<g1, g2>>, members |-> Members(<<m2>>, <<m2, m1>>),
   chain |-> <<>>, compact |-> <<>>, overflow |-> FALSE, threshold |-> 0,
   known |-> {m1, m2}, enabled |-> {m1, m2}]

(* Long requests are compacted by the second group, which has one target   *)
(* more, and resumed by the first.                                         *)
Compacting ==
  [Standard EXCEPT !.chain = <<g1>>, !.compact = <<g2>>,
                   !.overflow = TRUE, !.threshold = 5]

(* A target has been disabled upstream.                                    *)
Disabled == [Standard EXCEPT !.enabled = {m1}]

Configurations == {Standard, Compacting, Disabled}

(* One long request and one short.                                         *)
LongAndShort == (q1 :> 9) @@ (q2 :> 1)
=============================================================================
