------------------------------ MODULE Composer ------------------------------
(***************************************************************************)
(* The strategy composer (src/backend/strategy): Compose walks the groups  *)
(* of one or two segments, member by member, and lists the candidates with *)
(* their phase, the members it dropped and the groups that gave none.      *)
(*                                                                         *)
(* One action is one turn of a loop of expander.expand.  The input is      *)
(* chosen at the start and never changes: Compose is a pure function.      *)
(***************************************************************************)
EXTENDS Integers, SequencesExt, Compose

CONSTANTS
  Groups,   \* group names, in a snapshot or only named by a strategy
  Models,   \* the model_id values
  Inputs    \* the arguments Compose is called with

(* An input: the groups of the snapshot in their order, the members of     *)
(* each, the strategy, the size of the request and what makes a model      *)
(* unavailable.                                                            *)
InputType ==
  [order : Seq(Groups), members : [Groups -> Seq(Models)],
   chain : Seq(Groups), compact : Seq(Groups),
   overflow : BOOLEAN, threshold : Int, tokens : Int,
   tried : SUBSET Models, known : SUBSET Models,
   enabled : SUBSET Models, cooling : SUBSET Models]

ASSUME InputsAssumption == Inputs \subseteq InputType

VARIABLES
  input,        \* the arguments
  seg,          \* the segment being expanded; past the last one when done
  gi,           \* index into its chain of groups
  mi,           \* index into the members of that group; 0 before they start
  available,    \* candidates the group gave so far
  seen,         \* candidates of this segment
  skipSeen,     \* members already recorded as dropped, in any segment
  cands,        \* the candidates
  memberSkips,  \* the members dropped
  groupSkips    \* the groups passed over

vars == <<input, seg, gi, mi, available, seen, skipSeen, cands,
          memberSkips, groupSkips>>

(* unavailable: the reasons in the order its switch tries them.            *)
Reason(m) ==
  IF m \in input.tried        THEN "already_tried"
  ELSE IF m \notin input.known   THEN "unknown_model"
  ELSE IF m \notin input.enabled THEN "disabled"
  ELSE "cooling"

Reasons == {"already_tried", "unknown_model", "disabled", "cooling"}

Plan      == Segments(input)
Segment   == Plan[seg]
Group     == Segment.chain[gi]
Members   == input.members[Group]
Member    == Members[mi]
InSnapshot(g) == g \in ToSet(input.order)

Done == seg > Len(Plan)

Init ==
  /\ input \in Inputs
  /\ seg = 1 /\ gi = 1 /\ mi = 0
  /\ available = 0
  /\ seen = {} /\ skipSeen = {}
  /\ cands = <<>> /\ memberSkips = <<>> /\ groupSkips = <<>>

-----------------------------------------------------------------------------
AtGroup  == ~Done /\ gi <= Len(Segment.chain) /\ mi = 0
AtMember == ~Done /\ mi > 0 /\ mi <= Len(Members)

(* Mutant: a missing group ends the segment.                               *)
MissGroupStops ==
  /\ AtGroup
  /\ ~InSnapshot(Group)
  /\ groupSkips' = Append(groupSkips,
       [group |-> Group, detail |-> "group not in snapshot"])
  /\ gi' = Len(Segment.chain) + 1
  /\ UNCHANGED <<input, seg, mi, available, seen, skipSeen, cands, memberSkips>>

(* A group deleted since the strategy named it.                            *)
MissGroup ==
  /\ AtGroup
  /\ ~InSnapshot(Group)
  /\ groupSkips' = Append(groupSkips,
       [group |-> Group, detail |-> "group not in snapshot"])
  /\ gi' = gi + 1
  /\ UNCHANGED <<input, seg, mi, available, seen, skipSeen, cands, memberSkips>>

EnterGroup ==
  /\ AtGroup
  /\ InSnapshot(Group)
  /\ mi' = 1
  /\ available' = 0
  /\ UNCHANGED <<input, seg, gi, seen, skipSeen, cands, memberSkips, groupSkips>>

PassSeen ==
  /\ AtMember
  /\ Member \in seen
  /\ mi' = mi + 1
  /\ UNCHANGED <<input, seg, gi, available, seen, skipSeen, cands,
                 memberSkips, groupSkips>>

(* Mutant: a member is reported each time it is met.                       *)
DropMemberEachTime ==
  /\ AtMember
  /\ Member \notin seen
  /\ Unavailable(input, Member)
  /\ skipSeen' = skipSeen \cup {Member}
  /\ memberSkips' = Append(memberSkips,
       [model |-> Member, group |-> Group, reason |-> Reason(Member)])
  /\ mi' = mi + 1
  /\ UNCHANGED <<input, seg, gi, available, seen, cands, groupSkips>>

DropMember ==
  /\ AtMember
  /\ Member \notin seen
  /\ Unavailable(input, Member)
  /\ IF Member \in skipSeen
     THEN UNCHANGED <<skipSeen, memberSkips>>
     ELSE /\ skipSeen' = skipSeen \cup {Member}
          /\ memberSkips' = Append(memberSkips,
               [model |-> Member, group |-> Group, reason |-> Reason(Member)])
  /\ mi' = mi + 1
  /\ UNCHANGED <<input, seg, gi, available, seen, cands, groupSkips>>

(* Mutant: a candidate is not remembered.                                  *)
TakeMemberForgets ==
  /\ AtMember
  /\ Member \notin seen
  /\ ~Unavailable(input, Member)
  /\ available' = available + 1
  /\ cands' = Append(cands, [model |-> Member, phase |-> Segment.phase])
  /\ mi' = mi + 1
  /\ UNCHANGED <<input, seg, gi, seen, skipSeen, memberSkips, groupSkips>>

TakeMember ==
  /\ AtMember
  /\ Member \notin seen
  /\ ~Unavailable(input, Member)
  /\ seen' = seen \cup {Member}
  /\ available' = available + 1
  /\ cands' = Append(cands, [model |-> Member, phase |-> Segment.phase])
  /\ mi' = mi + 1
  /\ UNCHANGED <<input, seg, gi, skipSeen, memberSkips, groupSkips>>

(* Mutant: the next group starts at the old index.                         *)
LeaveGroupKeepsIndex ==
  /\ ~Done
  /\ mi > 0
  /\ mi > Len(Members)
  /\ gi' = gi + 1
  /\ UNCHANGED <<input, seg, mi, available, seen, skipSeen, cands,
                 memberSkips, groupSkips>>

LeaveGroup ==
  /\ ~Done
  /\ mi > 0
  /\ mi > Len(Members)
  /\ groupSkips' =
       IF available = 0
       THEN Append(groupSkips, [group |-> Group, detail |-> "all members unavailable"])
       ELSE groupSkips
  /\ gi' = gi + 1
  /\ mi' = 0
  /\ UNCHANGED <<input, seg, available, seen, skipSeen, cands, memberSkips>>

(* Mutant: the second segment goes on with the candidates of the first.    *)
EndSegmentKeepsSeen ==
  /\ ~Done
  /\ mi = 0
  /\ gi > Len(Segment.chain)
  /\ seg' = seg + 1
  /\ gi' = 1
  /\ UNCHANGED <<input, mi, available, seen, skipSeen, cands, memberSkips, groupSkips>>

(* The next call of expand starts with no candidate seen.                  *)
EndSegment ==
  /\ ~Done
  /\ mi = 0
  /\ gi > Len(Segment.chain)
  /\ seg' = seg + 1
  /\ gi' = 1
  /\ seen' = {}
  /\ UNCHANGED <<input, mi, available, skipSeen, cands, memberSkips, groupSkips>>

Next == \/ MissGroup \/ EnterGroup \/ PassSeen \/ DropMember \/ TakeMember
        \/ LeaveGroup \/ EndSegment

Spec == Init /\ [][Next]_vars

-----------------------------------------------------------------------------
Details == {"group not in snapshot", "all members unavailable"}

(* The place the walk has reached is one the loops can be at.              *)
PlaceOK ==
  /\ seg \in 1 .. Len(Plan) + 1
  /\ gi \in Nat \ {0}
  /\ mi \in Nat
  /\ ~Done => gi <= Len(Segment.chain) + 1
  /\ mi > 0 => /\ ~Done /\ gi <= Len(Segment.chain) /\ InSnapshot(Group)
               /\ mi <= Len(Members) + 1

OutputOK ==
  /\ available \in Nat
  /\ seen \subseteq Models
  /\ skipSeen \subseteq Models
  /\ cands \in Seq([model : Models, phase : Phases])
  /\ memberSkips \in Seq([model : Models, group : Groups, reason : Reasons])
  /\ groupSkips \in Seq([group : Groups, detail : Details])

(* The loops' variables have their types and the indices their bounds.     *)
TypeOK == input \in InputType /\ PlaceOK /\ OutputOK

(* No target is tried twice in one segment, however many of its groups     *)
(* share it (the seen map, which every segment starts anew).               *)
NoRepeats ==
  \A i, j \in 1 .. Len(cands) :
    cands[i].model = cands[j].model /\ cands[i].phase = cands[j].phase => i = j

(* No candidate is tried, unknown, disabled or cooling (unavailable).      *)
OnlyAvailable == \A i \in 1 .. Len(cands) : ~Unavailable(input, cands[i].model)

(* When it ends, every available member of every group a segment names is  *)
(* a candidate of that segment: neither the members the other segment took *)
(* nor the groups passed over lose one (expand).                           *)
NothingMissed ==
  Done => \A k \in 1 .. Len(Plan) :
            \A g \in ToSet(Plan[k].chain) :
              \A m \in ToSet(input.members[g]) :
                InSnapshot(g) /\ ~Unavailable(input, m) =>
                  \E i \in 1 .. Len(cands) :
                    cands[i] = [model |-> m, phase |-> Plan[k].phase]

(* Compose returns the available members of the groups each segment names, *)
(* in the order of the chain and of the members, each where it first       *)
(* stands, the compact segment before the resume one (Compose, expand).    *)
CandidatesAsDeclared == Done => cands = Candidates(input)

(* Every member the walk met and dropped is reported once in the whole     *)
(* request, in the order met, with the first reason that applies; and a    *)
(* group that gives no candidate to a segment is always reported, with     *)
(* each of its members (skipSeen, memberSkips, groupSkips).                *)
MembersExplained ==
  /\ [k \in 1 .. Len(memberSkips) |-> memberSkips[k].model] = Dropped(input)
  /\ \A k \in 1 .. Len(memberSkips) :
       memberSkips[k].reason = Reason(memberSkips[k].model)

GivesTo(g, k) ==
  /\ InSnapshot(g)
  /\ \E i \in 1 .. Len(cands) : /\ cands[i].phase = Plan[k].phase
                               /\ cands[i].model \in ToSet(input.members[g])

GroupsExplained ==
  \A k \in 1 .. Len(Plan) : \A g \in ToSet(Plan[k].chain) :
    ~GivesTo(g, k) =>
      /\ \E i \in 1 .. Len(groupSkips) : groupSkips[i].group = g
      /\ InSnapshot(g) =>
           \A m \in ToSet(input.members[g]) :
             \E i \in 1 .. Len(memberSkips) : memberSkips[i].model = m

SkipsAsDeclared == Done => MembersExplained /\ GroupsExplained
=============================================================================
