------------------------------- MODULE Compose -------------------------------
(***************************************************************************)
(* What strategy.Compose returns, as a function of its input: the groups   *)
(* of the snapshot in order, the members of each, the strategy, the size   *)
(* of the request and what makes a model unavailable (the fields of        *)
(* Composer's InputType).  Composer models the loops that compute it.      *)
(***************************************************************************)
EXTENDS Integers, SequencesExt

Unavailable(in, m) ==
  \/ m \in in.tried
  \/ m \notin in.known
  \/ m \notin in.enabled
  \/ m \in in.cooling

Triggered(in) ==
  /\ in.overflow
  /\ in.threshold > 0
  /\ in.tokens >= in.threshold

Chain(in) == IF in.chain = <<>> THEN in.order ELSE in.chain

Phases == {"standard", "compact", "resume"}

Segments(in) ==
  IF Triggered(in)
  THEN <<[phase |-> "compact", chain |-> in.compact],
         [phase |-> "resume",  chain |-> Chain(in)]>>
  ELSE <<[phase |-> "standard", chain |-> Chain(in)]>>

(* The members a group gives to a walk; one that is gone gives none.       *)
Given(in, g) == IF g \in ToSet(in.order) THEN in.members[g] ELSE <<>>

(* The members of the first groups of a chain, in order.                   *)
WalkTo(in, chain) ==
  LET walk[k \in 0 .. Len(chain)] ==
        IF k = 0 THEN <<>> ELSE walk[k - 1] \o Given(in, chain[k])
  IN  walk

Walk(in, chain) == WalkTo(in, chain)[Len(chain)]

(* Of the first members of a walk, those in S, each where it first stands. *)
Met(w, k) == \E j \in 1 .. k - 1 : w[j] = w[k]

FirstsTo(w, S) ==
  LET firsts[k \in 0 .. Len(w)] ==
        IF k = 0 THEN <<>>
        ELSE IF Met(w, k) \/ w[k] \notin S THEN firsts[k - 1]
        ELSE Append(firsts[k - 1], w[k])
  IN  firsts

Firsts(w, S) == FirstsTo(w, S)[Len(w)]

(* The candidates of a segment: the available members of its walk.         *)
Available(in, w) == {m \in ToSet(w) : ~Unavailable(in, m)}

InPhase(phase, models) ==
  [k \in 1 .. Len(models) |-> [model |-> models[k], phase |-> phase]]

CandidatesOf(in, segment) ==
  LET w == Walk(in, segment.chain)
  IN  InPhase(segment.phase, Firsts(w, Available(in, w)))

Candidates(in) ==
  LET segments == Segments(in)
  IN  IF Triggered(in)
      THEN CandidatesOf(in, segments[1]) \o CandidatesOf(in, segments[2])
      ELSE CandidatesOf(in, segments[1])

(* The members the walks of a request meet, and those of them it drops.    *)
WholeWalk(in) ==
  LET segments == Segments(in)
  IN  IF Triggered(in)
      THEN Walk(in, segments[1].chain) \o Walk(in, segments[2].chain)
      ELSE Walk(in, segments[1].chain)

Dropped(in) ==
  LET w == WholeWalk(in)
  IN  Firsts(w, {m \in ToSet(w) : Unavailable(in, m)})
=============================================================================
