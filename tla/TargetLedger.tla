---------------------------- MODULE TargetLedger ----------------------------
(***************************************************************************)
(* What the run-state repository promises its callers, with every database *)
(* transaction collapsed into one step: a report changes its target at     *)
(* most once, a success clears the target and is the only thing that adds  *)
(* usage, a failure adds one to the failure count and may only push the    *)
(* end of the cooling forward, and an operator may clear the target.       *)
(* RunState is shown to implement it.                                      *)
(***************************************************************************)
EXTENDS Integers

CONSTANTS
  Models,            \* the model_id values
  Reports,           \* the report_id values, the idempotency keys
  Bodies,            \* the contents a report may carry
  NoBody,            \* sent[r] = NoBody: nobody reported r yet
  FailureThreshold,  \* consecutive failures that start a cooling; <= 0: never
  MaxLead,           \* how far ahead of the clock a cooling may end
  MaxClock           \* bound on the clock

VARIABLES
  clock,    \* the database clock
  sent,     \* what the data plane reports under each report_id
  applied,  \* the reports that took effect
  rt        \* the run state of each target

vars == <<clock, sent, applied, rt>>

Null == 0

Neutral  == {"context_exceeded", "transport"}
Failures == {"abnormal", "retrying", "invalid_model"}

Fresh == [cooling |-> Null, failures |-> 0, requests |-> 0, tokens |-> 0]

Init ==
  /\ clock = 1
  /\ sent = [r \in Reports |-> NoBody]
  /\ applied = {}
  /\ rt = [m \in Models |-> Fresh]

Send(r, b) ==
  /\ sent[r] = NoBody
  /\ sent' = [sent EXCEPT ![r] = b]
  /\ UNCHANGED <<clock, applied, rt>>

(* A failure that makes the failure count n may move the end of a cooling  *)
(* from old to new: forward, not too far, and for a reason; it must leave  *)
(* one where n reaches the threshold.                                      *)
Reached(n) == 0 < FailureThreshold /\ FailureThreshold <= n

MayCool(old, new, b, n) ==
  /\ old <= new
  /\ new # old => /\ new <= clock + MaxLead
                  /\ b.retry # Null \/ Reached(n)
  /\ Reached(n) => new # Null

ApplyNeutral(r) ==
  /\ sent[r].outcome \in Neutral
  /\ rt' = rt

ApplyNormal(r) ==
  LET b == sent[r]
      s == rt[b.model]
  IN  /\ b.outcome = "normal"
      /\ rt' = [rt EXCEPT ![b.model] =
                  [cooling  |-> Null, failures |-> 0,
                   requests |-> s.requests + 1,
                   tokens   |-> s.tokens + b.tokens]]

ApplyFailure(r) ==
  LET b == sent[r]
      s == rt[b.model]
  IN  /\ b.outcome \in Failures
      /\ \E until \in (0 .. clock + MaxLead) \cup {s.cooling} :
           /\ MayCool(s.cooling, until, b, s.failures + 1)
           /\ rt' = [rt EXCEPT ![b.model] =
                       [cooling  |-> until, failures |-> s.failures + 1,
                        requests |-> s.requests, tokens |-> s.tokens]]

Apply(r) ==
  /\ sent[r] # NoBody
  /\ r \notin applied
  /\ ApplyNeutral(r) \/ ApplyNormal(r) \/ ApplyFailure(r)
  /\ applied' = applied \cup {r}
  /\ UNCHANGED <<clock, sent>>

Reset(m) ==
  /\ rt' = [rt EXCEPT ![m] = [cooling  |-> Null, failures |-> 0,
                              requests |-> rt[m].requests,
                              tokens   |-> rt[m].tokens]]
  /\ UNCHANGED <<clock, sent, applied>>

Tick ==
  /\ clock < MaxClock
  /\ clock' = clock + 1
  /\ UNCHANGED <<sent, applied, rt>>

Next ==
  \/ \E r \in Reports, b \in Bodies : Send(r, b)
  \/ \E r \in Reports : Apply(r)
  \/ \E m \in Models : Reset(m)
  \/ Tick

Spec == Init /\ [][Next]_vars
=============================================================================
