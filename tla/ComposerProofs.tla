--------------------------- MODULE ComposerProofs ---------------------------
(***************************************************************************)
(* Proofs about Composer, for every input: any groups, members, strategy   *)
(* and run state.                                                          *)
(***************************************************************************)
EXTENDS Composer, ComposeProofs

SegmentType == [phase : Phases, chain : Seq(Groups)]

(* Compose expands one segment or two, each a phase with a chain of        *)
(* groups.                                                                 *)
LEMMA PlanType ==
  ASSUME input \in InputType
  PROVE  /\ Plan \in Seq(SegmentType)
         /\ Len(Plan) \in Nat \ {0}
         /\ \A k \in 1 .. Len(Plan) : Plan[k] \in SegmentType
         /\ \A k, l \in 1 .. Len(Plan) : Plan[k].phase = Plan[l].phase => k = l
<1>1. Chain(input) \in Seq(Groups) /\ input.compact \in Seq(Groups)
  BY DEF InputType, Chain
<1>2. CASE Triggered(input)
  BY <1>1, <1>2 DEF Plan, Segments, SegmentType, Phases
<1>3. CASE ~Triggered(input)
  BY <1>1, <1>3 DEF Plan, Segments, SegmentType, Phases
<1>. QED
  BY <1>2, <1>3

(* The place the walk has reached, when it is not past the end.            *)
LEMMA PlaceType ==
  ASSUME input \in InputType, PlaceOK, ~Done
  PROVE  /\ seg \in 1 .. Len(Plan)
         /\ Segment \in SegmentType
         /\ Segment.chain \in Seq(Groups) /\ Segment.phase \in Phases
<1>1. seg \in 1 .. Len(Plan)
  BY PlanType DEF PlaceOK, Done
<1>2. Segment \in SegmentType
  BY <1>1, PlanType DEF Segment
<1>. QED
  BY <1>1, <1>2 DEF SegmentType

(* Inside its bounds the walk is at a group, and at a member of it.        *)
LEMMA GroupType ==
  ASSUME input \in InputType, PlaceOK, ~Done, gi <= Len(Segment.chain)
  PROVE  /\ Group \in Groups
         /\ Members \in Seq(Models)
         /\ mi > 0 /\ mi <= Len(Members) => Member \in Models
<1>1. gi \in 1 .. Len(Segment.chain) /\ Segment.chain \in Seq(Groups)
  BY PlaceType DEF PlaceOK
<1>2. Group \in Groups
  BY <1>1 DEF Group
<1>3. Members \in Seq(Models)
  BY <1>2 DEF InputType, Members
<1>4. mi > 0 /\ mi <= Len(Members) => Member \in Models
  BY <1>3 DEF PlaceOK, Member
<1>. QED
  BY <1>2, <1>3, <1>4

(* What does not change while the walk stays in a segment, or a group.     *)
LEMMA SamePlace ==
  ASSUME input' = input
  PROVE  /\ Plan' = Plan
         /\ \A g : InSnapshot(g)' <=> InSnapshot(g)
         /\ seg' = seg => Segment' = Segment /\ (Done' <=> Done)
         /\ seg' = seg /\ gi' = gi => Group' = Group /\ Members' = Members
<1>1. Plan' = Plan
  BY DEF Plan, Segments, Triggered, Chain
<1>. QED
  BY <1>1 DEF Segment, Done, Group, Members, InSnapshot

(* Compose never changes what it is given.                                 *)
LEMMA SameInput == [Next]_vars => input' = input
BY DEF Next, vars, MissGroup, EnterGroup, PassSeen, DropMember, TakeMember,
       LeaveGroup, EndSegment

(* The walk starts inside its bounds with nothing found.                   *)
LEMMA InitType == Init => TypeOK
<1>. SUFFICES ASSUME Init PROVE TypeOK
  OBVIOUS
<1>1. input \in InputType
  BY InputsAssumption DEF Init
<1>2. seg \in 1 .. Len(Plan) + 1 /\ ~Done /\ seg \in 1 .. Len(Plan)
  BY <1>1, PlanType DEF Init, Done
<1>3. Segment.chain \in Seq(Groups)
  BY <1>1, <1>2, PlanType DEF Segment, SegmentType
<1>4. PlaceOK
  BY <1>2, <1>3 DEF Init, PlaceOK
<1>. QED
  BY <1>1, <1>4 DEF Init, TypeOK, OutputOK

(* Every turn of a loop keeps the indices inside their bounds.             *)
LEMMA NextPlace == TypeOK /\ [Next]_vars => PlaceOK'
<1>. SUFFICES ASSUME TypeOK, [Next]_vars PROVE PlaceOK'
  OBVIOUS
<1>0. input \in InputType /\ PlaceOK /\ input' = input
  BY SameInput DEF TypeOK
<1>1. ASSUME MissGroup \/ LeaveGroup PROVE PlaceOK'
  <2>1. seg' = seg /\ gi' = gi + 1 /\ mi' = 0 /\ ~Done /\ gi <= Len(Segment.chain)
    BY <1>0, <1>1 DEF MissGroup, LeaveGroup, AtGroup, PlaceOK
  <2>2. Segment.chain \in Seq(Groups)
    BY <1>0, <2>1, PlaceType
  <2>3. Segment' = Segment /\ Plan' = Plan
    BY <1>0, <2>1, SamePlace
  <2>. QED
    BY <1>0, <2>1, <2>2, <2>3 DEF PlaceOK
<1>2. ASSUME EnterGroup PROVE PlaceOK'
  <2>1. seg' = seg /\ gi' = gi /\ mi' = 1 /\ ~Done /\ gi <= Len(Segment.chain)
        /\ InSnapshot(Group)
    BY <1>2 DEF EnterGroup, AtGroup
  <2>2. Members \in Seq(Models)
    BY <1>0, <2>1, GroupType
  <2>3. /\ Segment' = Segment /\ Plan' = Plan /\ Group' = Group
        /\ Members' = Members /\ ~Done' /\ InSnapshot(Group)'
    BY <1>0, <2>1, SamePlace
  <2>. QED
    BY <1>0, <2>1, <2>2, <2>3 DEF PlaceOK
<1>3. ASSUME PassSeen \/ DropMember \/ TakeMember PROVE PlaceOK'
  <2>1. seg' = seg /\ gi' = gi /\ mi' = mi + 1 /\ mi > 0 /\ mi <= Len(Members)
    BY <1>3 DEF PassSeen, DropMember, TakeMember, AtMember
  <2>2. gi <= Len(Segment.chain) /\ ~Done /\ InSnapshot(Group)
    BY <1>0, <2>1 DEF PlaceOK
  <2>3. Members \in Seq(Models)
    BY <1>0, <2>2, GroupType
  <2>4. /\ Segment' = Segment /\ Plan' = Plan /\ Group' = Group
        /\ Members' = Members /\ ~Done' /\ InSnapshot(Group)'
    BY <1>0, <2>1, <2>2, SamePlace
  <2>. QED
    BY <1>0, <2>1, <2>2, <2>3, <2>4 DEF PlaceOK
<1>4. ASSUME EndSegment PROVE PlaceOK'
  <2>1. seg' = seg + 1 /\ gi' = 1 /\ mi' = 0 /\ ~Done
    BY <1>4 DEF EndSegment
  <2>2. Plan' = Plan /\ seg' \in 1 .. Len(Plan) + 1
    BY <1>0, <2>1, SamePlace, PlaceType, PlanType
  <2>3. ~Done' => Len(Segment') \in Nat /\ Segment'.chain \in Seq(Groups)
    <3>1. ~Done' => seg' \in 1 .. Len(Plan)
      BY <1>0, <2>2, PlanType DEF Done
    <3>. QED
      BY <1>0, <2>2, <3>1, PlanType DEF Segment, SegmentType
  <2>. QED
    BY <2>1, <2>2, <2>3 DEF PlaceOK
<1>5. ASSUME UNCHANGED vars PROVE PlaceOK'
  BY <1>0, <1>5, SamePlace DEF vars, PlaceOK
<1>. QED
  BY <1>1, <1>2, <1>3, <1>4, <1>5 DEF Next

(* A sequence keeps its type when an element of that type is appended.     *)
LEMMA AppendType ==
  ASSUME NEW S, NEW s \in Seq(S), NEW e \in S
  PROVE  Append(s, e) \in Seq(S)
OBVIOUS

(* An element of a sequence has the type of its elements.                  *)
LEMMA ElementType ==
  ASSUME NEW S, NEW s \in Seq(S), NEW i \in 1 .. Len(s)
  PROVE  s[i] \in S
OBVIOUS

(* Every turn of a loop keeps the results well typed.                      *)
LEMMA NextOutput == TypeOK /\ [Next]_vars => OutputOK'
<1>. SUFFICES ASSUME TypeOK, [Next]_vars PROVE OutputOK'
  OBVIOUS
<1>0. input \in InputType /\ PlaceOK /\ OutputOK
  BY DEF TypeOK
<1>1. ASSUME MissGroup PROVE OutputOK'
  <2>1. Group \in Groups
    BY <1>0, <1>1, GroupType DEF MissGroup, AtGroup
  <2>2. [group |-> Group, detail |-> "group not in snapshot"]
          \in [group : Groups, detail : Details]
    BY <2>1 DEF Details
  <2>3. groupSkips' \in Seq([group : Groups, detail : Details])
    BY <1>0, <1>1, <2>2, AppendType DEF MissGroup, OutputOK
  <2>. QED
    BY <1>0, <1>1, <2>3 DEF MissGroup, OutputOK
<1>2. ASSUME EnterGroup \/ PassSeen \/ EndSegment PROVE OutputOK'
  BY <1>0, <1>2 DEF EnterGroup, PassSeen, EndSegment, OutputOK
<1>3. ASSUME AtMember
      PROVE  Group \in Groups /\ Member \in Models /\ Segment.phase \in Phases
  <2>1. ~Done /\ gi <= Len(Segment.chain) /\ mi > 0 /\ mi <= Len(Members)
    BY <1>0, <1>3 DEF AtMember, PlaceOK
  <2>. QED
    BY <1>0, <2>1, GroupType, PlaceType
<1>4. ASSUME DropMember PROVE OutputOK'
  <2>1. Group \in Groups /\ Member \in Models
    BY <1>3, <1>4 DEF DropMember
  <2>2. Reason(Member) \in Reasons
    BY DEF Reason, Reasons
  <2>3. skipSeen' \subseteq Models
    BY <1>0, <1>4, <2>1 DEF DropMember, OutputOK
  <2>4. memberSkips' \in Seq([model : Models, group : Groups, reason : Reasons])
    <3>1. [model |-> Member, group |-> Group, reason |-> Reason(Member)]
            \in [model : Models, group : Groups, reason : Reasons]
      BY <2>1, <2>2
    <3>2. CASE Member \in skipSeen
      BY <1>0, <1>4, <3>2 DEF DropMember, OutputOK
    <3>3. CASE Member \notin skipSeen
      <4>1. memberSkips' = Append(memberSkips,
              [model |-> Member, group |-> Group, reason |-> Reason(Member)])
        BY <1>4, <3>3 DEF DropMember
      <4>. QED
        BY <1>0, <3>1, <4>1, AppendType DEF OutputOK
    <3>. QED
      BY <3>2, <3>3
  <2>. QED
    BY <1>0, <1>4, <2>3, <2>4 DEF DropMember, OutputOK
<1>5. ASSUME TakeMember PROVE OutputOK'
  <2>1. Member \in Models /\ Segment.phase \in Phases
    BY <1>3, <1>5 DEF TakeMember
  <2>. QED
    BY <1>0, <1>5, <2>1 DEF TakeMember, OutputOK
<1>6. ASSUME LeaveGroup PROVE OutputOK'
  <2>1. Group \in Groups
    BY <1>0, <1>6, GroupType DEF LeaveGroup, PlaceOK
  <2>2. [group |-> Group, detail |-> "all members unavailable"]
          \in [group : Groups, detail : Details]
    BY <2>1 DEF Details
  <2>3. groupSkips' \in Seq([group : Groups, detail : Details])
    BY <1>0, <1>6, <2>2, AppendType DEF LeaveGroup, OutputOK
  <2>. QED
    BY <1>0, <1>6, <2>3 DEF LeaveGroup, OutputOK
<1>7. ASSUME UNCHANGED vars PROVE OutputOK'
  BY <1>0, <1>7 DEF vars, OutputOK
<1>. QED
  BY <1>1, <1>2, <1>4, <1>5, <1>6, <1>7 DEF Next

(* Every turn of a loop keeps the types.                                   *)
LEMMA NextType == TypeOK /\ [Next]_vars => TypeOK'
BY SameInput, NextPlace, NextOutput DEF TypeOK

(* The composer's variables keep their types, its indices their bounds.    *)
THEOREM TypeCorrect == Spec => []TypeOK
<1>. QED
  BY InitType, NextType, PTL DEF Spec
-----------------------------------------------------------------------------
(***************************************************************************)
(* What the walk has established on its way.  taken is the set of          *)
(* candidates so far; seen is its part in the segment being expanded.      *)
(***************************************************************************)
Listed == ToSet(cands)

Cand(m, k) == [model |-> m, phase |-> Plan[k].phase]

SeenFits == ~Done => \A m \in Models : m \in seen <=> Cand(m, seg) \in Listed

PhasesPassed ==
  \A i \in 1 .. Len(cands) :
    \E k \in 1 .. Len(Plan) : k <= seg /\ cands[i].phase = Plan[k].phase

Settled(m, k) == Unavailable(input, m) \/ Cand(m, k) \in Listed

GroupSettled(g, k) ==
  InSnapshot(g) => \A m \in ToSet(input.members[g]) : Settled(m, k)

Progress ==
  /\ \A k \in 1 .. Len(Plan) : k < seg =>
       \A g \in ToSet(Plan[k].chain) : GroupSettled(g, k)
  /\ ~Done =>
       /\ \A n \in 1 .. Len(Segment.chain) : n < gi => GroupSettled(Segment.chain[n], seg)
       /\ mi > 0 => \A j \in 1 .. Len(Members) : j < mi => Settled(Members[j], seg)

IInv == /\ TypeOK /\ OnlyAvailable /\ NoRepeats
        /\ SeenFits /\ PhasesPassed /\ Progress

(* The inductive invariant holds before the walk begins.                   *)
LEMMA InitIInv == Init => IInv
<1>. SUFFICES ASSUME Init PROVE IInv
  OBVIOUS
<1>1. TypeOK /\ cands = <<>> /\ seg = 1 /\ gi = 1 /\ mi = 0 /\ seen = {}
  BY InitType DEF Init
<1>2. Listed = {}
  BY <1>1 DEF Listed, ToSet
<1>. QED
  BY <1>1, <1>2 DEF IInv, OnlyAvailable, NoRepeats, SeenFits, PhasesPassed, Progress

(* Candidates are only added, so what is settled stays so.                 *)
LEMMA SettledStays ==
  ASSUME input' = input, Listed \subseteq Listed'
  PROVE  /\ \A m, k : Cand(m, k)' = Cand(m, k)
         /\ \A m : Unavailable(input, m)' <=> Unavailable(input, m)
         /\ \A m, k : Settled(m, k) => Settled(m, k)'
         /\ \A g, k : GroupSettled(g, k) => GroupSettled(g, k)'
<1>1. Plan' = Plan
  BY SamePlace
<1>2. \A m, k : Cand(m, k)' = Cand(m, k)
  BY <1>1 DEF Cand
<1>3. \A m : Unavailable(input, m)' <=> Unavailable(input, m)
  BY DEF Unavailable
<1>4. \A m, k : Settled(m, k) => Settled(m, k)'
  BY <1>2, <1>3 DEF Settled
<1>5. \A g, k : GroupSettled(g, k) => GroupSettled(g, k)'
  BY <1>4 DEF GroupSettled, InSnapshot
<1>. QED
  BY <1>2, <1>3, <1>4, <1>5

(* A step that takes no candidate and stays in its group.                  *)
LEMMA MemberStep ==
  ASSUME IInv, AtMember, Settled(Member, seg),
         mi' = mi + 1, UNCHANGED <<input, seg, gi, seen, cands>>
  PROVE  (OnlyAvailable /\ NoRepeats /\ SeenFits /\ PhasesPassed /\ Progress)'
<1>1. Listed' = Listed
  BY DEF Listed, ToSet
<1>2. /\ Plan' = Plan /\ Segment' = Segment /\ Members' = Members /\ (Done' <=> Done)
  BY SamePlace
<1>3. /\ \A m, k : Cand(m, k)' = Cand(m, k)
      /\ \A m : Unavailable(input, m)' <=> Unavailable(input, m)
      /\ \A m, k : Settled(m, k) => Settled(m, k)'
      /\ \A g, k : GroupSettled(g, k) => GroupSettled(g, k)'
  BY <1>1, SettledStays
<1>4. OnlyAvailable' /\ NoRepeats' /\ SeenFits' /\ PhasesPassed'
  BY <1>1, <1>2, <1>3 DEF IInv, OnlyAvailable, NoRepeats, SeenFits, PhasesPassed
<1>5. \A j \in 1 .. Len(Members) : j < mi + 1 => Settled(Members[j], seg)
  <2>1. mi \in Nat /\ mi > 0 /\ ~Done
    BY DEF AtMember, IInv, TypeOK, PlaceOK
  <2>. QED
    BY <2>1 DEF IInv, Progress, Member
<1>6. Progress'
  BY <1>2, <1>3, <1>5 DEF IInv, Progress
<1>. QED
  BY <1>4, <1>6

(* Taking a member keeps the candidates distinct and available, and        *)
(* accounts for the member.                                                *)
LEMMA TakeStep ==
  ASSUME IInv, TakeMember
  PROVE  (OnlyAvailable /\ NoRepeats /\ SeenFits /\ PhasesPassed /\ Progress)'
<1>0. /\ input \in InputType /\ PlaceOK /\ OutputOK /\ ~Done /\ mi > 0
      /\ mi <= Len(Members) /\ gi <= Len(Segment.chain)
      /\ Member \notin seen /\ ~Unavailable(input, Member)
      /\ mi' = mi + 1 /\ UNCHANGED <<input, seg, gi>> /\ seen' = seen \cup {Member}
  BY DEF IInv, TypeOK, PlaceOK, TakeMember, AtMember
<1>1. seg \in 1 .. Len(Plan) /\ Member \in Models /\ Members \in Seq(Models)
  BY <1>0, PlaceType, GroupType
<1>2. /\ Plan' = Plan /\ Segment' = Segment /\ Members' = Members /\ (Done' <=> Done)
  BY <1>0, SamePlace
<1>3. cands \in Seq([model : Models, phase : Phases])
  BY <1>0 DEF OutputOK
<1>4. cands' = Append(cands, Cand(Member, seg))
  BY DEF TakeMember, Cand, Segment
<1>5. /\ Len(cands') = Len(cands) + 1 /\ Len(cands) \in Nat
      /\ \A i \in 1 .. Len(cands) : cands'[i] = cands[i]
      /\ cands'[Len(cands) + 1] = Cand(Member, seg)
  BY <1>3, <1>4
<1>6. Listed' = Listed \cup {Cand(Member, seg)}
  BY <1>5 DEF Listed, ToSet
<1>7. /\ \A m, k : Cand(m, k)' = Cand(m, k)
      /\ \A m : Unavailable(input, m)' <=> Unavailable(input, m)
      /\ \A m, k : Settled(m, k) => Settled(m, k)'
      /\ \A g, k : GroupSettled(g, k) => GroupSettled(g, k)'
  BY <1>0, <1>6, SettledStays
<1>8. Cand(Member, seg) \notin Listed
  BY <1>0, <1>1 DEF IInv, SeenFits
<1>9. OnlyAvailable'
  BY <1>0, <1>5, <1>7 DEF IInv, OnlyAvailable, Cand
<1>10. NoRepeats'
  <2>1. \A i \in 1 .. Len(cands) :
          ~(cands[i].model = Cand(Member, seg).model
            /\ cands[i].phase = Cand(Member, seg).phase)
    <3>. SUFFICES ASSUME NEW i \in 1 .. Len(cands),
                         cands[i].model = Member, cands[i].phase = Plan[seg].phase
                  PROVE  FALSE
      BY DEF Cand
    <3>1. cands[i] \in [model : Models, phase : Phases]
      BY <1>3, ElementType
    <3>2. cands[i] = Cand(Member, seg)
      BY <3>1 DEF Cand
    <3>. QED
      BY <1>8, <3>2 DEF Listed, ToSet
  <2>. QED
    BY <1>5, <2>1 DEF IInv, NoRepeats
<1>11. SeenFits'
  <2>1. \A m \in Models : Cand(m, seg) = Cand(Member, seg) <=> m = Member
    BY DEF Cand
  <2>. QED
    BY <1>0, <1>2, <1>6, <1>7, <2>1 DEF IInv, SeenFits
<1>12. PhasesPassed'
  <2>1. ASSUME NEW i \in 1 .. Len(cands) + 1
        PROVE  \E k \in 1 .. Len(Plan) : k <= seg /\ cands'[i].phase = Plan[k].phase
    <3>1. CASE i \in 1 .. Len(cands)
      BY <1>5, <3>1 DEF IInv, PhasesPassed
    <3>2. CASE i = Len(cands) + 1
      <4>1. cands'[i].phase = Plan[seg].phase /\ seg <= seg
        BY <1>1, <1>5, <3>2, PlanType, <1>0 DEF Cand
      <4>. QED
        BY <1>1, <4>1
    <3>. QED
      BY <1>5, <3>1, <3>2
  <2>. QED
    BY <1>0, <1>2, <1>5, <2>1 DEF PhasesPassed
<1>13. Progress'
  <2>1. PICK m0, k0 : m0 = Member /\ k0 = seg
    OBVIOUS
  <2>2. Settled(m0, k0)'
    BY <1>6, <1>7, <2>1 DEF Settled
  <2>3. ASSUME NEW j \in 1 .. Len(Members), j < mi + 1, NEW x, x = Members[j]
        PROVE  Settled(x, k0)'
    <3>1. CASE j = mi
      BY <2>1, <2>2, <2>3, <3>1 DEF Member
    <3>2. CASE j # mi
      <4>1. j < mi
        BY <1>0, <2>3, <3>2 DEF PlaceOK
      <4>2. Settled(x, k0)
        BY <1>0, <2>1, <2>3, <4>1 DEF IInv, Progress
      <4>. QED
        BY <1>7, <4>2
    <3>. QED
      BY <3>1, <3>2
  <2>. QED
    BY <1>0, <1>2, <1>7, <2>1, <2>3 DEF IInv, Progress
<1>. QED
  BY <1>9, <1>10, <1>11, <1>12, <1>13

(* A step to the next group, when the one it leaves is settled.            *)
LEMMA GroupStep ==
  ASSUME IInv, ~Done, gi <= Len(Segment.chain), GroupSettled(Group, seg),
         gi' = gi + 1, mi' = 0, UNCHANGED <<input, seg, seen, cands>>
  PROVE  (OnlyAvailable /\ NoRepeats /\ SeenFits /\ PhasesPassed /\ Progress)'
<1>1. Listed' = Listed
  BY DEF Listed, ToSet
<1>2. /\ Plan' = Plan /\ Segment' = Segment /\ (Done' <=> Done)
  BY SamePlace
<1>3. /\ \A m, k : Cand(m, k)' = Cand(m, k)
      /\ \A m : Unavailable(input, m)' <=> Unavailable(input, m)
      /\ \A g, k : GroupSettled(g, k) => GroupSettled(g, k)'
  BY <1>1, SettledStays
<1>4. OnlyAvailable' /\ NoRepeats' /\ SeenFits' /\ PhasesPassed'
  BY <1>1, <1>2, <1>3 DEF IInv, OnlyAvailable, NoRepeats, SeenFits, PhasesPassed
<1>5. \A n \in 1 .. Len(Segment.chain) : n < gi + 1 => GroupSettled(Segment.chain[n], seg)
  <2>1. gi \in Nat
    BY DEF IInv, TypeOK, PlaceOK
  <2>. QED
    BY <2>1 DEF IInv, Progress, Group
<1>6. Progress'
  BY <1>2, <1>3, <1>5 DEF IInv, Progress
<1>. QED
  BY <1>4, <1>6

(* When a segment ends all its groups are accounted for, and the next      *)
(* starts with no candidate seen.                                          *)
LEMMA EndStep ==
  ASSUME IInv, EndSegment
  PROVE  (OnlyAvailable /\ NoRepeats /\ SeenFits /\ PhasesPassed /\ Progress)'
<1>0. /\ input \in InputType /\ PlaceOK /\ ~Done /\ mi = 0
      /\ gi > Len(Segment.chain) /\ gi \in Nat
      /\ seg' = seg + 1 /\ gi' = 1 /\ mi' = 0 /\ seen' = {} /\ UNCHANGED <<input, cands>>
  BY DEF IInv, TypeOK, PlaceOK, EndSegment
<1>1. /\ seg \in 1 .. Len(Plan) /\ Len(Plan) \in Nat /\ Segment.chain \in Seq(Groups)
      /\ \A k, l \in 1 .. Len(Plan) : Plan[k].phase = Plan[l].phase => k = l
  BY <1>0, PlaceType, PlanType
<1>2. Listed' = Listed /\ Plan' = Plan
  BY <1>0, SamePlace DEF Listed, ToSet
<1>3. /\ \A m, k : Cand(m, k)' = Cand(m, k)
      /\ \A m : Unavailable(input, m)' <=> Unavailable(input, m)
      /\ \A g, k : GroupSettled(g, k) => GroupSettled(g, k)'
  BY <1>0, <1>2, SettledStays
<1>4. OnlyAvailable' /\ NoRepeats'
  BY <1>0, <1>3 DEF IInv, OnlyAvailable, NoRepeats
<1>5. PhasesPassed'
  <2>1. \A k \in 1 .. Len(Plan) : k <= seg => k <= seg + 1
    BY <1>1
  <2>. QED
    BY <1>0, <1>2, <2>1 DEF IInv, PhasesPassed
<1>6. SeenFits'
  <2>1. SUFFICES ASSUME seg + 1 \in 1 .. Len(Plan), NEW m \in Models
                 PROVE  Cand(m, seg + 1) \notin Listed
    BY <1>0, <1>1, <1>2, <1>3 DEF SeenFits, Done
  <2>2. \A i \in 1 .. Len(cands) : cands[i].phase # Plan[seg + 1].phase
    BY <1>1, <2>1 DEF IInv, PhasesPassed
  <2>. QED
    BY <2>2 DEF Listed, ToSet, Cand
<1>7. \A g \in ToSet(Segment.chain) : GroupSettled(g, seg)
  BY <1>0, <1>1 DEF IInv, Progress, ToSet
<1>8. \A k \in 1 .. Len(Plan) : k < seg + 1 =>
        \A g \in ToSet(Plan[k].chain) : GroupSettled(g, k)
  BY <1>0, <1>1, <1>7 DEF IInv, Progress, Segment
<1>9. Progress'
  BY <1>0, <1>1, <1>2, <1>3, <1>8 DEF Progress
<1>. QED
  BY <1>4, <1>5, <1>6, <1>9

(* Every turn of a loop keeps the inductive invariant.                     *)
LEMMA NextIInv == IInv /\ [Next]_vars => IInv'
<1>. SUFFICES ASSUME IInv, [Next]_vars
              PROVE  (OnlyAvailable /\ NoRepeats /\ SeenFits /\ PhasesPassed /\ Progress)'
  BY NextType DEF IInv
<1>0. input \in InputType /\ PlaceOK /\ OutputOK
  BY DEF IInv, TypeOK
<1>1. CASE MissGroup
  BY <1>1, GroupStep DEF MissGroup, AtGroup, GroupSettled
<1>2. CASE EnterGroup
  <2>1. Listed' = Listed /\ UNCHANGED <<input, seg, gi, seen, cands>> /\ mi' = 1
    BY <1>2 DEF EnterGroup, Listed, ToSet
  <2>2. /\ Plan' = Plan /\ Segment' = Segment /\ (Done' <=> Done)
    BY <2>1, SamePlace
  <2>3. /\ \A m, k : Cand(m, k)' = Cand(m, k)
        /\ \A m : Unavailable(input, m)' <=> Unavailable(input, m)
        /\ \A g, k : GroupSettled(g, k) => GroupSettled(g, k)'
    BY <2>1, SettledStays
  <2>4. OnlyAvailable' /\ NoRepeats' /\ SeenFits' /\ PhasesPassed'
    BY <2>1, <2>2, <2>3 DEF IInv, OnlyAvailable, NoRepeats, SeenFits, PhasesPassed
  <2>5. Progress'
    BY <2>1, <2>2, <2>3 DEF IInv, Progress
  <2>. QED
    BY <2>4, <2>5
<1>3. CASE PassSeen
  <2>1. Settled(Member, seg)
    BY <1>0, <1>3, GroupType DEF PassSeen, AtMember, IInv, SeenFits, PlaceOK, Settled
  <2>. QED
    BY <1>3, <2>1, MemberStep DEF PassSeen
<1>4. CASE DropMember
  BY <1>4, MemberStep DEF DropMember, Settled
<1>5. CASE TakeMember
  BY <1>5, TakeStep
<1>6. CASE LeaveGroup
  <2>1. /\ ~Done /\ gi <= Len(Segment.chain) /\ mi > 0 /\ mi > Len(Members) /\ mi \in Nat
        /\ gi' = gi + 1 /\ mi' = 0 /\ UNCHANGED <<input, seg, seen, cands>>
    BY <1>0, <1>6 DEF LeaveGroup, PlaceOK
  <2>2. Members \in Seq(Models)
    BY <1>0, <2>1, GroupType
  <2>3. GroupSettled(Group, seg)
    BY <2>1, <2>2 DEF IInv, Progress, GroupSettled, ToSet, Members
  <2>. QED
    BY <2>1, <2>3, GroupStep
<1>7. CASE EndSegment
  BY <1>7, EndStep
<1>8. CASE UNCHANGED vars
  <2>1. Listed' = Listed /\ UNCHANGED <<input, seg, gi, mi, seen, cands>>
    BY <1>8 DEF vars, Listed, ToSet
  <2>2. /\ Plan' = Plan /\ Segment' = Segment /\ Members' = Members /\ (Done' <=> Done)
    BY <2>1, SamePlace
  <2>3. /\ \A m, k : Cand(m, k)' = Cand(m, k)
        /\ \A m : Unavailable(input, m)' <=> Unavailable(input, m)
        /\ \A m, k : Settled(m, k) => Settled(m, k)'
        /\ \A g, k : GroupSettled(g, k) => GroupSettled(g, k)'
    BY <2>1, SettledStays
  <2>4. OnlyAvailable' /\ NoRepeats' /\ SeenFits' /\ PhasesPassed'
    BY <2>1, <2>2, <2>3 DEF IInv, OnlyAvailable, NoRepeats, SeenFits, PhasesPassed
  <2>5. Progress'
    BY <2>1, <2>2, <2>3 DEF IInv, Progress
  <2>. QED
    BY <2>4, <2>5
<1>. QED
  BY <1>1, <1>2, <1>3, <1>4, <1>5, <1>6, <1>7, <1>8 DEF Next

(* The inductive invariant holds throughout the walk.                      *)
LEMMA Invariant == Spec => []IInv
BY InitIInv, NextIInv, PTL DEF Spec

(* No target is listed twice in one segment (the seen map).                *)
THEOREM CandidatesDoNotRepeat == Spec => []NoRepeats
<1>1. IInv => NoRepeats
  BY DEF IInv
<1>. QED
  BY <1>1, Invariant, PTL

(* No candidate is tried, unknown, disabled or cooling (unavailable).      *)
THEOREM CandidatesAreAvailable == Spec => []OnlyAvailable
<1>1. IInv => OnlyAvailable
  BY DEF IInv
<1>. QED
  BY <1>1, Invariant, PTL

(* Every available member of every group of a segment is one of its        *)
(* candidates (expand).                                                    *)
THEOREM NoCandidateIsMissed == Spec => []NothingMissed
<1>1. IInv => NothingMissed
  <2>. SUFFICES ASSUME IInv, Done, NEW k \in 1 .. Len(Plan),
                       NEW g \in ToSet(Plan[k].chain),
                       NEW m \in ToSet(input.members[g]),
                       InSnapshot(g), ~Unavailable(input, m)
                PROVE  \E i \in 1 .. Len(cands) :
                         cands[i] = [model |-> m, phase |-> Plan[k].phase]
    BY DEF NothingMissed
  <2>1. k < seg
    BY PlanType DEF IInv, TypeOK, PlaceOK, Done
  <2>2. Settled(m, k)
    BY <2>1 DEF IInv, Progress, GroupSettled
  <2>3. DOMAIN cands = 1 .. Len(cands)
    BY DEF IInv, TypeOK, OutputOK
  <2>. QED
    BY <2>2, <2>3 DEF Settled, Listed, ToSet, Cand
<1>. QED
  BY <1>1, Invariant, PTL

-----------------------------------------------------------------------------
(***************************************************************************)
(* The results as Compose declares them.  The walk of a segment has met    *)
(* the members of the groups passed and those before mi in the group it is *)
(* at: what has been listed and dropped is what that much of it gives.     *)
(***************************************************************************)
SegWalk == Walk(input, Segment.chain)

Position ==
  Len(WalkTo(input, Segment.chain)[gi - 1]) + (IF mi > 0 THEN mi - 1 ELSE 0)

Free == Available(input, SegWalk)

Before == IF seg = 1 THEN <<>> ELSE CandidatesOf(input, Plan[1])

Whole == WholeWalk(input)

Lost == {m \in ToSet(Whole) : Unavailable(input, m)}

WholePosition ==
  IF Done THEN Len(Whole)
  ELSE IF seg = 1 THEN Position
  ELSE Len(Walk(input, Plan[1].chain)) + Position

Lists ==
  IF Done THEN cands = Candidates(input)
  ELSE /\ cands = Before \o InPhase(Segment.phase, FirstsTo(SegWalk, Free)[Position])
       /\ seen = Among(SegWalk, Free, Position)

ModelsOf(skips) == [k \in 1 .. Len(skips) |-> skips[k].model]

Drops ==
  /\ ModelsOf(memberSkips) = FirstsTo(Whole, Lost)[WholePosition]
  /\ skipSeen = Among(Whole, Lost, WholePosition)
  /\ \A k \in 1 .. Len(memberSkips) :
       memberSkips[k].reason = Reason(memberSkips[k].model)

(* A group passed gave a candidate to its segment or is reported.          *)
Accounted(g, k) ==
  \/ \E i \in 1 .. Len(groupSkips) : groupSkips[i].group = g
  \/ InSnapshot(g) /\ \E m \in ToSet(input.members[g]) : Cand(m, k) \in Listed

GroupsPassed ==
  /\ \A k \in 1 .. Len(Plan) : \A n \in 1 .. Len(Plan[k].chain) :
       k < seg \/ (k = seg /\ n < gi) => Accounted(Plan[k].chain[n], k)
  /\ mi > 0 /\ available > 0 =>
       \E m \in ToSet(Members) : Cand(m, seg) \in Listed

(* What an input is to Compose.                                            *)
LEMMA InputWellFormed == ASSUME input \in InputType PROVE WellFormed(input, Groups, Models)
BY DEF InputType, WellFormed

(* The walk goes on with the members of the group it is at.                *)
LEMMA GroupWalk ==
  ASSUME input \in InputType, PlaceOK, ~Done
  PROVE  /\ gi - 1 \in 0 .. Len(Segment.chain)
         /\ SegWalk \in Seq(Models)
         /\ WalkTo(input, Segment.chain)[gi - 1] \in Seq(Models)
         /\ Begins(WalkTo(input, Segment.chain)[gi - 1], SegWalk)
         /\ gi > Len(Segment.chain) => WalkTo(input, Segment.chain)[gi - 1] = SegWalk
         /\ gi <= Len(Segment.chain) =>
              LET given == IF InSnapshot(Group) THEN Members ELSE <<>>
              IN  /\ given \in Seq(Models)
                  /\ WalkTo(input, Segment.chain)[gi]
                       = WalkTo(input, Segment.chain)[gi - 1] \o given
                  /\ Begins(WalkTo(input, Segment.chain)[gi], SegWalk)
<1> DEFINE c == Segment.chain
           w == WalkTo(input, c)
<1>1. c \in Seq(Groups) /\ WellFormed(input, Groups, Models)
  BY PlaceType, InputWellFormed
<1> HIDE DEF c
<1>2. /\ w[0] = <<>>
      /\ \A k \in 1 .. Len(c) : w[k] = w[k - 1] \o Given(input, c[k])
      /\ \A k \in 0 .. Len(c) : w[k] \in Seq(Models)
  BY <1>1, WalkUnrolled DEF WellFormed
<1>3. \A k \in 0 .. Len(c) : Begins(w[k], Walk(input, c))
  BY <1>1, WalkBegins
<1>4. gi - 1 \in 0 .. Len(c) /\ Len(c) \in Nat /\ gi \in Nat
  BY <1>1 DEF PlaceOK, c
<1>5. SegWalk = Walk(input, c) /\ Walk(input, c) = w[Len(c)]
  BY DEF SegWalk, Walk, c
<1>6. gi > Len(c) => gi - 1 = Len(c)
  BY <1>4
<1>7. ASSUME gi <= Len(c)
      PROVE  LET given == IF InSnapshot(Group) THEN Members ELSE <<>>
             IN  given \in Seq(Models) /\ w[gi] = w[gi - 1] \o given
  <2>1. Members \in Seq(Models)
    BY <1>7, GroupType DEF c
  <2>2. Given(input, c[gi]) = IF InSnapshot(Group) THEN Members ELSE <<>>
    BY DEF Given, InSnapshot, Members, Group, c
  <2>3. gi \in 1 .. Len(c)
    BY <1>4, <1>7
  <2>4. w[gi] = w[gi - 1] \o Given(input, c[gi])
    <3> HIDE DEF w
    <3>. QED
      BY <1>2, <2>3
  <2> HIDE DEF w
  <2>. QED
    BY <2>1, <2>2, <2>4
<1>8. /\ SegWalk \in Seq(Models) /\ w[gi - 1] \in Seq(Models)
      /\ Begins(w[gi - 1], SegWalk)
      /\ gi > Len(c) => w[gi - 1] = SegWalk
      /\ gi <= Len(c) => Begins(w[gi], SegWalk)
  <2>1. Len(c) \in 0 .. Len(c) /\ (gi <= Len(c) => gi \in 0 .. Len(c))
    BY <1>4
  <2> HIDE DEF w
  <2>. QED
    BY <1>2, <1>3, <1>4, <1>5, <1>6, <2>1
<1>. QED
  BY <1>4, <1>7, <1>8 DEF c

(* Where the walk of a segment is.                                         *)
LEMMA Positions ==
  ASSUME input \in InputType, PlaceOK, ~Done
  PROVE  /\ SegWalk \in Seq(Models)
         /\ Position \in 0 .. Len(SegWalk)
         /\ AtMember => /\ Position + 1 \in 1 .. Len(SegWalk)
                        /\ SegWalk[Position + 1] = Member
         /\ gi > Len(Segment.chain) => Position = Len(SegWalk)
<1> DEFINE c == Segment.chain
           s == WalkTo(input, c)[gi - 1]
           t == WalkTo(input, c)[gi]
           u == SegWalk
<1>1. /\ u \in Seq(Models) /\ s \in Seq(Models) /\ Begins(s, u)
      /\ gi > Len(c) => s = u
      /\ gi - 1 \in 0 .. Len(c)
  BY GroupWalk
<1>2. Position = Len(s) + (IF mi > 0 THEN mi - 1 ELSE 0)
  BY DEF Position
<1>3. /\ mi \in Nat /\ gi \in Nat
      /\ mi > 0 => /\ gi <= Len(c) /\ InSnapshot(Group) /\ mi <= Len(Members) + 1
  BY DEF PlaceOK
<1>4. mi > 0 => Members \in Seq(Models) /\ t = s \o Members /\ Begins(t, u)
  BY <1>3, GroupWalk
<1>5. Len(c) \in Nat
  BY PlaceType
<1>6. CASE mi = 0
  <2>1. Position = Len(s)
    BY <1>2, <1>6
  <2> HIDE DEF s, u, c
  <2>2. Len(s) \in 0 .. Len(u) /\ (gi > Len(c) => Len(s) = Len(u))
    BY <1>1 DEF Begins
  <2>3. ~AtMember
    BY <1>6 DEF AtMember
  <2>. QED
    BY <1>1, <2>1, <2>2, <2>3 DEF u, c
<1>7. CASE mi > 0
  <2>1. Position = Len(s) + (mi - 1)
    BY <1>2, <1>7
  <2> HIDE DEF s, t, u, c
  <2>2. Len(t) = Len(s) + Len(Members) /\ Len(t) <= Len(u) /\ Len(t) \in Nat /\ Len(u) \in Nat
        /\ Len(Members) \in Nat /\ Len(s) \in Nat
    BY <1>1, <1>4, <1>7 DEF Begins
  <2>3. Position \in 0 .. Len(u)
    BY <1>3, <1>7, <2>1, <2>2
  <2>4. ~(gi > Len(c))
    BY <1>3, <1>5, <1>7
  <2>5. ASSUME AtMember PROVE Position + 1 \in 1 .. Len(u) /\ u[Position + 1] = Member
    <3>1. mi <= Len(Members)
      BY <2>5 DEF AtMember
    <3>2. Position + 1 = Len(s) + mi /\ Len(s) + mi \in 1 .. Len(t)
      BY <1>3, <1>7, <2>1, <2>2, <3>1
    <3>3. t[Len(s) + mi] = Members[mi]
      BY <1>1, <1>3, <1>4, <1>7, <3>1
    <3>4. u[Len(s) + mi] = t[Len(s) + mi]
      BY <1>4, <1>7, <3>2 DEF Begins
    <3>. QED
      BY <2>2, <3>2, <3>3, <3>4 DEF Member
  <2>. QED
    BY <1>1, <2>3, <2>4, <2>5 DEF u, c
<1>. QED
  BY <1>3, <1>6, <1>7

(* Going from one group to another does not move the walk.                 *)
LEMMA PositionKept ==
  ASSUME input \in InputType, PlaceOK, MissGroup \/ EnterGroup \/ LeaveGroup
  PROVE  Position' = Position
<1> DEFINE c == Segment.chain
           s == WalkTo(input, c)[gi - 1]
           t == WalkTo(input, c)[gi]
<1>0. /\ ~Done /\ gi <= Len(c) /\ gi \in Nat /\ mi \in Nat
      /\ UNCHANGED <<input, seg>>
  BY DEF PlaceOK, MissGroup, EnterGroup, LeaveGroup, AtGroup
<1>1. Segment' = Segment
  BY <1>0, SamePlace
<1>2. Position' = Len(WalkTo(input, c)[gi' - 1]) + (IF mi' > 0 THEN mi' - 1 ELSE 0)
  BY <1>0, <1>1 DEF Position
<1>3. Position = Len(s) + (IF mi > 0 THEN mi - 1 ELSE 0)
  BY DEF Position
<1>4. /\ s \in Seq(Models)
      /\ InSnapshot(Group) => Members \in Seq(Models) /\ t = s \o Members
      /\ ~InSnapshot(Group) => t = s \o <<>>
  BY <1>0, GroupWalk
<1>5. (gi + 1) - 1 = gi
  BY <1>0
<1> HIDE DEF s, t
<1>6. CASE MissGroup
  <2>1. mi = 0 /\ mi' = 0 /\ gi' = gi + 1 /\ ~InSnapshot(Group)
    BY <1>6 DEF MissGroup, AtGroup
  <2>2. t = s
    BY <1>4, <2>1
  <2>. QED
    BY <1>2, <1>3, <1>5, <2>1, <2>2 DEF t
<1>7. CASE EnterGroup
  <2>1. mi = 0 /\ mi' = 1 /\ gi' = gi
    BY <1>7 DEF EnterGroup, AtGroup
  <2>. QED
    BY <1>2, <1>3, <2>1 DEF s
<1>8. CASE LeaveGroup
  <2>1. mi > 0 /\ mi' = 0 /\ gi' = gi + 1 /\ InSnapshot(Group)
        /\ mi > Len(Members) /\ mi <= Len(Members) + 1
    BY <1>8 DEF LeaveGroup, PlaceOK
  <2>2. Len(t) = Len(s) + Len(Members) /\ Len(Members) \in Nat /\ Len(s) \in Nat
    BY <1>4, <2>1
  <2>3. Position = Len(t)
    BY <1>0, <1>3, <2>1, <2>2
  <2>4. Position' = Len(t) + 0
    BY <1>2, <1>5, <2>1 DEF t
  <2>. QED
    BY <2>2, <2>3, <2>4
<1>. QED
  BY <1>6, <1>7, <1>8

(* A turn at a member moves it by one.                                     *)
LEMMA PositionNext ==
  ASSUME input \in InputType, PlaceOK, PassSeen \/ DropMember \/ TakeMember
  PROVE  Position' = Position + 1
<1>1. /\ ~Done /\ mi \in Nat /\ mi > 0 /\ mi' = mi + 1 /\ UNCHANGED <<input, seg, gi>>
  BY DEF PlaceOK, PassSeen, DropMember, TakeMember, AtMember
<1>2. Segment' = Segment
  BY <1>1, SamePlace
<1> DEFINE l == Len(WalkTo(input, Segment.chain)[gi - 1])
<1>3. l \in Nat
  BY <1>1, GroupWalk
<1>4. Position' = l + (IF mi' > 0 THEN mi' - 1 ELSE 0)
  BY <1>1, <1>2 DEF Position
<1>5. Position = l + (IF mi > 0 THEN mi - 1 ELSE 0)
  BY DEF Position
<1> HIDE DEF l
<1>. QED
  BY <1>1, <1>3, <1>4, <1>5

(* The segments of the request, and the walk of each.                      *)
LEMMA SegmentWalks ==
  ASSUME input \in InputType
  PROVE  /\ Len(Plan) = IF Triggered(input) THEN 2 ELSE 1
         /\ \A k \in 1 .. Len(Plan) : /\ Walk(input, Plan[k].chain) \in Seq(Models)
                                     /\ IsSegment(Plan[k], Groups)
         /\ Whole = IF Triggered(input)
                    THEN Walk(input, Plan[1].chain) \o Walk(input, Plan[2].chain)
                    ELSE Walk(input, Plan[1].chain)
         /\ Whole \in Seq(Models)
<1>1. Len(Plan) = IF Triggered(input) THEN 2 ELSE 1
  BY DEF Plan, Segments
<1>2. ASSUME NEW k \in 1 .. Len(Plan)
      PROVE  Walk(input, Plan[k].chain) \in Seq(Models) /\ IsSegment(Plan[k], Groups)
  <2>1. IsSegment(Plan[k], Groups)
    BY PlanType DEF SegmentType, IsSegment
  <2> DEFINE c == Plan[k].chain
  <2>2. c \in Seq(Groups) /\ WellFormed(input, Groups, Models)
    BY <2>1, InputWellFormed DEF IsSegment
  <2>3. Walk(input, c) \in Seq(Models)
    <3> HIDE DEF c
    <3>. QED
      BY <2>2, WalkElements
  <2>. QED
    BY <2>1, <2>3
<1>3. Whole = IF Triggered(input)
              THEN Walk(input, Plan[1].chain) \o Walk(input, Plan[2].chain)
              ELSE Walk(input, Plan[1].chain)
  BY DEF Whole, WholeWalk, Plan
<1>4. Whole \in Seq(Models)
  <2>1. Triggered(input) => 1 \in 1 .. Len(Plan) /\ 2 \in 1 .. Len(Plan)
    BY <1>1
  <2>2. ~Triggered(input) => 1 \in 1 .. Len(Plan)
    BY <1>1
  <2>. QED
    BY <1>2, <1>3, <2>1, <2>2
<1>. QED
  BY <1>1, <1>2, <1>3, <1>4

(* Where the walk of the whole request is.                                 *)
LEMMA WholeAt ==
  ASSUME input \in InputType, PlaceOK, ~Done
  PROVE  /\ Whole \in Seq(Models)
         /\ WholePosition \in 0 .. Len(Whole)
         /\ AtMember => /\ WholePosition + 1 \in 1 .. Len(Whole)
                        /\ Whole[WholePosition + 1] = Member
         /\ seg = Len(Plan) /\ Position = Len(SegWalk) => WholePosition = Len(Whole)
<1> DEFINE u == Walk(input, Plan[1].chain)
           v == Walk(input, Plan[2].chain)
           x == Member
<1>1. /\ SegWalk \in Seq(Models) /\ Position \in 0 .. Len(SegWalk)
      /\ AtMember => /\ Position + 1 \in 1 .. Len(SegWalk)
                     /\ SegWalk[Position + 1] = x
      /\ seg \in 1 .. Len(Plan)
  BY Positions, PlaceType
<1>2. /\ Len(Plan) = IF Triggered(input) THEN 2 ELSE 1
      /\ Whole \in Seq(Models)
      /\ Triggered(input) => Whole = u \o v
      /\ ~Triggered(input) => Whole = u
  BY SegmentWalks
<1>3. /\ u \in Seq(Models)
      /\ Triggered(input) => v \in Seq(Models)
  <2>1. 1 \in 1 .. Len(Plan) /\ (Triggered(input) => 2 \in 1 .. Len(Plan))
    BY <1>2
  <2>. QED
    BY <2>1, SegmentWalks
<1>4. /\ seg = 1 => SegWalk = u /\ WholePosition = Position
      /\ seg = 2 => SegWalk = v /\ WholePosition = Len(u) + Position
  BY DEF SegWalk, Segment, WholePosition
<1> HIDE DEF u, v, x
<1>5. CASE ~Triggered(input)
  <2>1. seg = 1
    BY <1>1, <1>2, <1>5
  <2>. QED
    BY <1>1, <1>2, <1>4, <1>5, <2>1 DEF x
<1>6. CASE Triggered(input)
  <2>0. Len(Whole) = Len(u) + Len(v) /\ Len(u) \in Nat /\ Len(v) \in Nat
    BY <1>2, <1>3, <1>6
  <2>1. CASE seg = 1
    <3>1. ASSUME AtMember
          PROVE  Position + 1 \in 1 .. Len(Whole) /\ Whole[Position + 1] = x
      BY <1>1, <1>2, <1>3, <1>4, <1>6, <2>0, <2>1, <3>1
    <3>2. Position \in 0 .. Len(Whole)
      BY <1>1, <1>4, <2>0, <2>1
    <3>. QED
      BY <1>2, <1>4, <1>6, <2>1, <3>1, <3>2 DEF x
  <2>2. CASE seg = 2
    <3>1. ASSUME AtMember
          PROVE  /\ Len(u) + Position + 1 \in 1 .. Len(Whole)
                 /\ Whole[Len(u) + Position + 1] = x
      <4>1. Position + 1 \in 1 .. Len(v) /\ v[Position + 1] = x
        BY <1>1, <1>4, <2>2, <3>1
      <4>2. Position \in Nat /\ Len(u) + (Position + 1) = Len(u) + Position + 1
        BY <1>1, <2>0
      <4>3. (u \o v)[Len(u) + (Position + 1)] = v[Position + 1]
        BY <1>3, <1>6, <2>0, <4>1, <4>2
      <4>. QED
        BY <1>2, <1>6, <2>0, <4>1, <4>2, <4>3
    <3>2. Len(u) + Position \in 0 .. Len(Whole)
      BY <1>1, <1>4, <2>0, <2>2
    <3>3. Position = Len(SegWalk) => Len(u) + Position = Len(Whole)
      BY <1>4, <2>0, <2>2
    <3>. QED
      BY <1>2, <1>4, <2>2, <3>1, <3>2, <3>3 DEF x
  <2>. QED
    BY <1>1, <1>2, <1>6, <2>1, <2>2
<1>. QED
  BY <1>5, <1>6

(* One model more is one candidate more.                                   *)
LEMMA PhaseAppend ==
  ASSUME NEW s \in Seq(Models), NEW x \in Models, NEW phase
  PROVE  InPhase(phase, Append(s, x))
           = Append(InPhase(phase, s), [model |-> x, phase |-> phase])
BY DEF InPhase

(* One report more is one model more among those reported.                 *)
LEMMA ModelsAppend ==
  ASSUME NEW S, NEW s \in Seq(S), NEW e \in S
  PROVE  ModelsOf(Append(s, e)) = Append(ModelsOf(s), e.model)
BY DEF ModelsOf

(* What is fixed while the walk stays in a segment, and always.            *)
LEMMA SameWalks ==
  ASSUME input' = input
  PROVE  /\ Whole' = Whole /\ Lost' = Lost
         /\ \A m : Reason(m)' = Reason(m)
         /\ seg' = seg => /\ SegWalk' = SegWalk /\ Free' = Free /\ Before' = Before
                          /\ Segment' = Segment /\ (Done' <=> Done)
                          /\ Position' = Position => WholePosition' = WholePosition
<1>1. Plan' = Plan
  BY SamePlace
<1>2. seg' = seg => Segment' = Segment /\ (Done' <=> Done)
  BY SamePlace
<1>3. Whole' = Whole
  BY DEF Whole
<1>4. seg' = seg => SegWalk' = SegWalk
  BY <1>2 DEF SegWalk
<1>. QED
  BY <1>1, <1>2, <1>3, <1>4 DEF Lost, Free, Before, WholePosition, Reason

(* Going from one group to another changes nothing that is listed.         *)
LEMMA GroupMove ==
  ASSUME TypeOK, Lists, Drops, MissGroup \/ EnterGroup \/ LeaveGroup
  PROVE  Lists' /\ Drops'
<1>1. /\ input \in InputType /\ PlaceOK /\ ~Done
      /\ UNCHANGED <<input, seg, seen, skipSeen, cands, memberSkips>>
  BY DEF TypeOK, MissGroup, EnterGroup, LeaveGroup, AtGroup
<1>2. Position' = Position
  BY <1>1, PositionKept
<1>3. /\ Whole' = Whole /\ Lost' = Lost /\ \A m : Reason(m)' = Reason(m)
      /\ SegWalk' = SegWalk /\ Free' = Free /\ Before' = Before
      /\ Segment' = Segment /\ ~Done' /\ WholePosition' = WholePosition
  BY <1>1, <1>2, SameWalks
<1>4. Lists'
  BY <1>1, <1>2, <1>3 DEF Lists
<1>5. Drops'
  BY <1>1, <1>3 DEF Drops
<1>. QED
  BY <1>4, <1>5

(* What a turn at a member finds: where the member stands on both walks,   *)
(* and what one member more adds to what they have given.                  *)
LEMMA AtTurn ==
  ASSUME TypeOK, PassSeen \/ DropMember \/ TakeMember
  PROVE  /\ ~Done /\ ~Done' /\ UNCHANGED <<input, seg, gi>> /\ Segment' = Segment
         /\ Member \in Models /\ seg \in 1 .. Len(Plan)
         /\ Group \in Groups
         /\ Member \in Free <=> ~Unavailable(input, Member)
         /\ Member \in Lost <=> Unavailable(input, Member)
         /\ FirstsTo(SegWalk, Free)[Position] \in Seq(Models)
         /\ FirstsTo(SegWalk, Free)'[Position']
              = IF Member \in Free \ Among(SegWalk, Free, Position)
                THEN Append(FirstsTo(SegWalk, Free)[Position], Member)
                ELSE FirstsTo(SegWalk, Free)[Position]
         /\ Among(SegWalk, Free, Position)'
              = Among(SegWalk, Free, Position) \cup {m \in {Member} : m \in Free}
         /\ FirstsTo(Whole, Lost)'[WholePosition']
              = IF Member \in Lost \ Among(Whole, Lost, WholePosition)
                THEN Append(FirstsTo(Whole, Lost)[WholePosition], Member)
                ELSE FirstsTo(Whole, Lost)[WholePosition]
         /\ Among(Whole, Lost, WholePosition)'
              = Among(Whole, Lost, WholePosition) \cup {m \in {Member} : m \in Lost}
<1> DEFINE x == Member
           w == SegWalk
           p == Position
           q == WholePosition
<1>1. /\ input \in InputType /\ PlaceOK /\ ~Done /\ AtMember
      /\ gi <= Len(Segment.chain) /\ mi > 0 /\ mi <= Len(Members)
      /\ UNCHANGED <<input, seg, gi>>
  BY DEF TypeOK, PlaceOK, PassSeen, DropMember, TakeMember, AtMember
<1>2. p' = p + 1
  BY <1>1, PositionNext
<1>3. /\ Whole' = Whole /\ Lost' = Lost /\ w' = w /\ Free' = Free
      /\ Segment' = Segment /\ ~Done'
  BY <1>1, SameWalks
<1>4. seg \in 1 .. Len(Plan) /\ x \in Models /\ Group \in Groups
  BY <1>1, PlaceType, GroupType
<1>5. w \in Seq(Models) /\ p \in 0 .. Len(w) /\ p + 1 \in 1 .. Len(w) /\ w[p + 1] = x
  BY <1>1, Positions
<1>6. /\ Whole \in Seq(Models) /\ q \in 0 .. Len(Whole)
      /\ q + 1 \in 1 .. Len(Whole) /\ Whole[q + 1] = x
  BY <1>1, WholeAt
<1>7. q' = q + 1
  <2>1. Len(Walk(input, Plan[1].chain)) \in Nat
    <3>1. 1 \in 1 .. Len(Plan)
      BY <1>1, PlanType
    <3>. QED
      BY <1>1, <3>1, SegmentWalks
  <2>2. Plan' = Plan
    BY <1>1, SamePlace
  <2>3. q = IF seg = 1 THEN p ELSE Len(Walk(input, Plan[1].chain)) + p
    BY <1>1 DEF WholePosition
  <2>4. q' = IF seg = 1 THEN p' ELSE Len(Walk(input, Plan[1].chain)) + p'
    BY <1>1, <1>3, <2>2 DEF WholePosition
  <2> HIDE DEF q, p
  <2>. QED
    BY <1>2, <1>5, <2>1, <2>3, <2>4
<1>8. x \in Free <=> ~Unavailable(input, x)
  <2>1. x \in ToSet(w)
    BY <1>5 DEF ToSet
  <2>. QED
    BY <2>1 DEF Free, Available
<1>9. x \in Lost <=> Unavailable(input, x)
  <2>1. x \in ToSet(Whole)
    BY <1>6 DEF ToSet
  <2>. QED
    BY <2>1 DEF Lost
<1> HIDE DEF x, w, p, q
<1>10. p + 1 - 1 = p /\ q + 1 - 1 = q
  BY <1>5, <1>6
<1>11. /\ FirstsTo(w, Free)[p] \in Seq(Models)
       /\ FirstsTo(w, Free)[p + 1] = IF x \in Free \ Among(w, Free, p)
                                    THEN Append(FirstsTo(w, Free)[p], x)
                                    ELSE FirstsTo(w, Free)[p]
       /\ Among(w, Free, p + 1) = Among(w, Free, p) \cup {m \in {x} : m \in Free}
  <2>1. /\ FirstsTo(w, Free)[(p + 1) - 1] \in Seq(Models)
        /\ FirstsTo(w, Free)[p + 1]
             = IF w[p + 1] \in Free \ Among(w, Free, (p + 1) - 1)
               THEN Append(FirstsTo(w, Free)[(p + 1) - 1], w[p + 1])
               ELSE FirstsTo(w, Free)[(p + 1) - 1]
        /\ Among(w, Free, p + 1)
             = Among(w, Free, (p + 1) - 1) \cup {m \in {w[p + 1]} : m \in Free}
    BY <1>5, OneMore
  <2>. QED
    BY <1>5, <1>10, <2>1
<1>12. /\ FirstsTo(Whole, Lost)[q + 1] = IF x \in Lost \ Among(Whole, Lost, q)
                                        THEN Append(FirstsTo(Whole, Lost)[q], x)
                                        ELSE FirstsTo(Whole, Lost)[q]
       /\ Among(Whole, Lost, q + 1) = Among(Whole, Lost, q) \cup {m \in {x} : m \in Lost}
  <2> DEFINE v == Whole
             k == q + 1
  <2>0. v \in Seq(Models) /\ k \in 1 .. Len(v)
    BY <1>6
  <2>1. /\ FirstsTo(v, Lost)[k - 1] \in Seq(Models)
        /\ FirstsTo(v, Lost)[k] = IF v[k] \in Lost \ Among(v, Lost, k - 1)
                                  THEN Append(FirstsTo(v, Lost)[k - 1], v[k])
                                  ELSE FirstsTo(v, Lost)[k - 1]
        /\ Among(v, Lost, k) = Among(v, Lost, k - 1) \cup {m \in {v[k]} : m \in Lost}
    <3> HIDE DEF v, k
    <3>. QED
      BY <2>0, OneMore
  <2>. QED
    BY <1>6, <1>10, <2>1
<1>. QED
  BY <1>1, <1>2, <1>3, <1>4, <1>7, <1>8, <1>9, <1>11, <1>12 DEF x, w, p, q

(* A turn at a member lists it, drops it or passes it as Compose declares. *)
LEMMA MemberMove ==
  ASSUME TypeOK, Lists, Drops, PassSeen \/ DropMember \/ TakeMember
  PROVE  Lists' /\ Drops'
<1> DEFINE x == Member
           f == FirstsTo(SegWalk, Free)[Position]
           fp == FirstsTo(SegWalk, Free)'[Position']
           taken == Among(SegWalk, Free, Position)
           d == FirstsTo(Whole, Lost)[WholePosition]
           dropped == Among(Whole, Lost, WholePosition)
           phase == Segment.phase
           C == [model : Models, phase : Phases]
<1>1. /\ ~Done /\ ~Done' /\ UNCHANGED <<input, seg, gi>> /\ Segment' = Segment
      /\ x \in Models /\ seg \in 1 .. Len(Plan) /\ Group \in Groups
      /\ x \in Free <=> ~Unavailable(input, x)
      /\ x \in Lost <=> Unavailable(input, x)
      /\ f \in Seq(Models)
  BY AtTurn
<1>2. /\ FirstsTo(SegWalk, Free)'[Position'] = IF x \in Free \ taken THEN Append(f, x) ELSE f
      /\ Among(SegWalk, Free, Position)' = taken \cup {m \in {x} : m \in Free}
      /\ FirstsTo(Whole, Lost)'[WholePosition']
           = IF x \in Lost \ dropped THEN Append(d, x) ELSE d
      /\ Among(Whole, Lost, WholePosition)' = dropped \cup {m \in {x} : m \in Lost}
  BY AtTurn
<1>3. /\ Before' = Before /\ \A m : Reason(m)' = Reason(m)
  BY <1>1, SameWalks
<1>4. /\ cands = Before \o InPhase(phase, f) /\ seen = taken
      /\ ModelsOf(memberSkips) = d /\ skipSeen = dropped
      /\ \A k \in 1 .. Len(memberSkips) :
           memberSkips[k].reason = Reason(memberSkips[k].model)
  BY <1>1 DEF Lists, Drops
<1>5. Before \in Seq(C) /\ phase \in Phases /\ InPhase(phase, f) \in Seq(C)
  <2>0. input \in InputType /\ PlaceOK
    BY DEF TypeOK
  <2>1. Before \in Seq(C)
    <3>1. CASE seg = 1
      BY <3>1 DEF Before
    <3>2. CASE seg # 1
      <4>1. 1 \in 1 .. Len(Plan)
        BY <2>0, PlanType
      <4> DEFINE segment == Plan[1]
      <4>2. IsSegment(segment, Groups) /\ WellFormed(input, Groups, Models)
        BY <2>0, <4>1, SegmentWalks, InputWellFormed
      <4>3. CandidatesOf(input, segment) \in Seq([model : Models, phase : Phases])
        <5> HIDE DEF segment
        <5>. QED
          BY <4>2, SegmentElements
      <4>. QED
        BY <3>2, <4>3 DEF Before
    <3>. QED
      BY <3>1, <3>2
  <2>2. phase \in Phases
    BY <1>1, <2>0, PlaceType
  <2> HIDE DEF f, phase
  <2>3. InPhase(phase, f) \in Seq(C)
    BY <1>1, <2>2, PhaseElements
  <2>. QED
    BY <2>1, <2>2, <2>3
<1> HIDE DEF f, taken, d, dropped
<1>6. /\ Lists' <=> /\ cands' = Before \o InPhase(phase, IF x \in Free \ taken
                                                       THEN Append(f, x) ELSE f)
                    /\ seen' = taken \cup {m \in {x} : m \in Free}
      /\ Drops' <=> /\ ModelsOf(memberSkips)' = IF x \in Lost \ dropped
                                               THEN Append(d, x) ELSE d
                    /\ skipSeen' = dropped \cup {m \in {x} : m \in Lost}
                    /\ \A k \in 1 .. Len(memberSkips') :
                         memberSkips'[k].reason = Reason(memberSkips'[k].model)
  BY <1>1, <1>2, <1>3 DEF Lists, Drops
<1>7. CASE PassSeen
  <2>1. x \in seen /\ UNCHANGED <<seen, skipSeen, cands, memberSkips>>
    BY <1>7 DEF PassSeen
  <2>2. x \in Free
    BY <1>4, <2>1 DEF taken, Among
  <2>3. ModelsOf(memberSkips)' = ModelsOf(memberSkips)
    BY <2>1 DEF ModelsOf
  <2>. QED
    BY <1>1, <1>4, <1>6, <2>1, <2>2, <2>3
<1>8. CASE DropMember
  <2>1. /\ x \notin Free /\ x \in Lost /\ UNCHANGED <<seen, cands>>
    BY <1>1, <1>8 DEF DropMember
  <2>2. Lists'
    BY <1>4, <1>6, <2>1
  <2>3. CASE x \in skipSeen
    <3>1. UNCHANGED <<skipSeen, memberSkips>>
      BY <1>8, <2>3 DEF DropMember
    <3>2. ModelsOf(memberSkips)' = ModelsOf(memberSkips)
      BY <3>1 DEF ModelsOf
    <3>. QED
      BY <1>4, <1>6, <2>1, <2>2, <2>3, <3>1, <3>2
  <2>4. CASE x \notin skipSeen
    <3> DEFINE e == [model |-> x, group |-> Group, reason |-> Reason(x)]
               S == [model : Models, group : Groups, reason : Reasons]
    <3>1. skipSeen' = skipSeen \cup {x} /\ memberSkips' = Append(memberSkips, e)
      BY <1>8, <2>4 DEF DropMember
    <3>2. e \in S /\ memberSkips \in Seq(S) /\ e.model = x /\ e.reason = Reason(x)
      BY <1>1 DEF Reason, Reasons, TypeOK, OutputOK
    <3> HIDE DEF e, S
    <3>3. ModelsOf(Append(memberSkips, e)) = Append(ModelsOf(memberSkips), x)
      BY <3>2, ModelsAppend
    <3>4. ModelsOf(memberSkips)' = ModelsOf(memberSkips')
      BY DEF ModelsOf
    <3>5. \A k \in 1 .. Len(memberSkips') :
            memberSkips'[k].reason = Reason(memberSkips'[k].model)
      BY <1>4, <3>1, <3>2
    <3>. QED
      BY <1>4, <1>6, <2>1, <2>2, <2>4, <3>1, <3>3, <3>4, <3>5
  <2>. QED
    BY <2>3, <2>4
<1>9. CASE TakeMember
  <2>1. /\ x \in Free /\ x \notin Lost /\ x \notin seen /\ seen' = seen \cup {x}
        /\ cands' = Append(cands, [model |-> x, phase |-> phase])
        /\ UNCHANGED <<skipSeen, memberSkips>>
    BY <1>1, <1>9 DEF TakeMember
  <2>2. InPhase(phase, Append(f, x))
          = Append(InPhase(phase, f), [model |-> x, phase |-> phase])
    <3> HIDE DEF x, phase
    <3>. QED
      BY <1>1, PhaseAppend
  <2>3. cands' = Before \o InPhase(phase, Append(f, x))
    <3> DEFINE b == Before
               g == InPhase(phase, f)
               c == [model |-> x, phase |-> phase]
    <3>1. c \in C
      BY <1>1, <1>5
    <3>2. Append(b \o g, c) = b \o Append(g, c)
      <4> HIDE DEF b, g, c, C
      <4>. QED
        BY <1>5, <3>1 DEF b, g
    <3>. QED
      BY <1>4, <2>1, <2>2, <3>2
  <2>4. ModelsOf(memberSkips)' = ModelsOf(memberSkips)
    BY <2>1 DEF ModelsOf
  <2>. QED
    BY <1>4, <1>6, <2>1, <2>3, <2>4
<1>. QED
  BY <1>7, <1>8, <1>9

(* A walk starts with nothing and meets models.                            *)
LEMMA SegmentWalk ==
  ASSUME input \in InputType, NEW c \in Seq(Groups)
  PROVE  WalkTo(input, c)[0] = <<>> /\ Walk(input, c) \in Seq(Models)
<1>1. WellFormed(input, Groups, Models)
  BY InputWellFormed
<1>2. /\ WalkTo(input, c)[0] = <<>>
      /\ \A k \in 1 .. Len(c) :
           WalkTo(input, c)[k] = WalkTo(input, c)[k - 1] \o Given(input, c[k])
      /\ \A k \in 0 .. Len(c) : WalkTo(input, c)[k] \in Seq(Models)
  BY <1>1, WalkUnrolled DEF WellFormed
<1>3. Walk(input, c) \in Seq(Models)
  BY <1>1, WalkElements
<1>. QED
  BY <1>2, <1>3

(* The end of a segment: its walk is done, and the next has not begun.     *)
LEMMA EndMove ==
  ASSUME TypeOK, Lists, Drops, EndSegment
  PROVE  Lists' /\ Drops'
<1> DEFINE segment == Segment
           given == CandidatesOf(input, segment)
           C == [model : Models, phase : Phases]
           u == Walk(input, Plan[1].chain)
<1>1. /\ input \in InputType /\ PlaceOK /\ ~Done /\ gi > Len(Segment.chain)
      /\ seg' = seg + 1 /\ gi' = 1 /\ mi = 0 /\ mi' = 0 /\ seen' = {}
      /\ UNCHANGED <<input, skipSeen, cands, memberSkips>>
  BY DEF TypeOK, EndSegment
<1>2. SegWalk \in Seq(Models) /\ Position = Len(SegWalk)
  BY <1>1, Positions
<1>3. /\ seg \in 1 .. Len(Plan) /\ Plan' = Plan
      /\ Len(Plan) = IF Triggered(input) THEN 2 ELSE 1
      /\ Whole' = Whole /\ Lost' = Lost /\ \A m : Reason(m)' = Reason(m)
      /\ Whole \in Seq(Models)
  BY <1>1, PlaceType, SamePlace, SegmentWalks, SameWalks
<1>4. InPhase(Segment.phase, FirstsTo(SegWalk, Free)[Position]) = given
  BY <1>2 DEF CandidatesOf, Firsts, SegWalk, Free
<1>5. cands = Before \o given
  BY <1>1, <1>4 DEF Lists
<1>6. \A k \in 1 .. Len(Plan) : CandidatesOf(input, Plan[k]) \in Seq(C)
  <2>. SUFFICES ASSUME NEW k \in 1 .. Len(Plan)
                PROVE  CandidatesOf(input, Plan[k]) \in Seq(C)
    OBVIOUS
  <2> DEFINE s == Plan[k]
  <2>1. IsSegment(s, Groups) /\ WellFormed(input, Groups, Models)
    BY <1>1, SegmentWalks, InputWellFormed
  <2>2. CandidatesOf(input, s) \in Seq([model : Models, phase : Phases])
    <3> HIDE DEF s
    <3>. QED
      BY <2>1, SegmentElements
  <2>. QED
    BY <2>2
<1>7. seg = 1 => cands = CandidatesOf(input, Plan[1])
  <2>. SUFFICES ASSUME seg = 1 PROVE cands = CandidatesOf(input, Plan[1])
    OBVIOUS
  <2>1. given = CandidatesOf(input, Plan[1]) /\ 1 \in 1 .. Len(Plan) /\ Before = <<>>
    BY <1>3 DEF Segment, Before
  <2>2. given \in Seq(C)
    BY <1>6, <2>1
  <2> HIDE DEF given, C
  <2>. QED
    BY <1>5, <2>1, <2>2
<1>8. CASE seg = Len(Plan)
  <2>1. Done' /\ WholePosition = Len(Whole) /\ WholePosition' = Len(Whole)
    <3>1. WholePosition = Len(Whole)
      BY <1>1, <1>2, <1>8, WholeAt
    <3>2. Done'
      BY <1>1, <1>3, <1>8 DEF Done
    <3>. QED
      BY <1>3, <3>1, <3>2 DEF WholePosition
  <2>2. cands = Candidates(input)
    <3>1. CASE Triggered(input)
      <4>1. seg = 2
        BY <1>3, <1>8, <3>1
      <4>2. given = CandidatesOf(input, Plan[2]) /\ Before = CandidatesOf(input, Plan[1])
        BY <4>1 DEF Segment, Before
      <4>. QED
        BY <1>5, <3>1, <4>2 DEF Candidates, Plan
    <3>2. CASE ~Triggered(input)
      <4>1. seg = 1
        BY <1>3, <1>8, <3>2
      <4>. QED
        BY <1>7, <3>2, <4>1 DEF Candidates, Plan
    <3>. QED
      BY <3>1, <3>2
  <2>3. Lists'
    BY <1>1, <2>1, <2>2 DEF Lists
  <2>4. Drops'
    BY <1>1, <1>3, <2>1 DEF Drops
  <2>. QED
    BY <2>3, <2>4
<1>9. CASE seg # Len(Plan)
  <2>1. seg = 1 /\ Len(Plan) = 2 /\ seg' = 2 /\ ~Done'
    BY <1>1, <1>3, <1>9 DEF Done
  <2>2. WholePosition = Len(u) /\ Len(u) \in Nat
    BY <1>1, <1>2, <2>1 DEF WholePosition, SegWalk, Segment
  <2> DEFINE c == Plan[2].chain
  <2>3. Segment' = Plan[2] /\ IsSegment(Plan[2], Groups)
    <3>1. 2 \in 1 .. Len(Plan)
      BY <2>1
    <3>. QED
      BY <1>1, <1>3, <2>1, <3>1, SegmentWalks DEF Segment
  <2>4. WalkTo(input, c)[0] = <<>> /\ Walk(input, c) \in Seq(Models)
    <3>1. c \in Seq(Groups)
      BY <2>3 DEF IsSegment
    <3> HIDE DEF c
    <3>. QED
      BY <1>1, <3>1, SegmentWalk
  <2>5. Position' = 0
    <3>1. Position' = Len(WalkTo(input, c)[1 - 1]) + 0
      BY <1>1, <2>3 DEF Position
    <3>2. Len(WalkTo(input, c)[1 - 1]) = 0
      BY <2>4
    <3>. QED
      BY <3>1, <3>2
  <2>6. WholePosition' = WholePosition
    <3>1. WholePosition' = Len(u) + 0
      BY <1>1, <1>3, <2>1, <2>5 DEF WholePosition
    <3>. QED
      BY <2>2, <3>1
  <2>7. Before' = cands
    BY <1>1, <1>3, <1>7, <2>1 DEF Before
  <2>8. FirstsTo(SegWalk, Free)'[Position'] = <<>> /\ Among(SegWalk, Free, Position)' = {}
    <3>1. SegWalk' = Walk(input, c)
      BY <1>1, <2>3 DEF SegWalk
    <3>2. \A A : FirstsTo(SegWalk', A)[0] = <<>>
      BY <2>4, <3>1, FirstsUnrolled
    <3>3. \A w, A : Among(w, A, 0) = {}
      BY DEF Among
    <3>. QED
      BY <2>5, <3>2, <3>3
  <2>9. Lists'
    <3>1. InPhase(Segment.phase, <<>>)' = <<>>
      BY DEF InPhase
    <3>2. cands \o <<>> = cands
      BY DEF TypeOK, OutputOK
    <3>3. Lists' <=> /\ cands' = Before' \o InPhase(Segment', <<>>)
                     /\ seen' = {}
      BY <2>1, <2>8 DEF Lists, InPhase
    <3>4. InPhase(Segment', <<>>) = <<>>
      BY DEF InPhase
    <3>. QED
      BY <1>1, <2>7, <3>2, <3>3, <3>4
  <2>10. Drops'
    BY <1>1, <1>3, <2>6 DEF Drops
  <2>. QED
    BY <2>9, <2>10
<1>. QED
  BY <1>8, <1>9

(* The walk starts with nothing listed and nothing dropped.                *)
LEMMA InitResults == Init => Lists /\ Drops
<1>. SUFFICES ASSUME Init PROVE Lists /\ Drops
  OBVIOUS
<1>1. TypeOK /\ input \in InputType /\ PlaceOK
  BY InitType DEF TypeOK
<1>2. /\ seg = 1 /\ gi = 1 /\ mi = 0 /\ seen = {} /\ skipSeen = {}
      /\ cands = <<>> /\ memberSkips = <<>> /\ ~Done
  BY <1>1, PlanType DEF Init, Done
<1>3. Segment.chain \in Seq(Groups)
  BY <1>1, <1>2, PlaceType
<1>4. Position = 0
  <2> DEFINE c == Segment.chain
  <2>1. WalkTo(input, c)[0] = <<>>
    <3>1. c \in Seq(Groups)
      BY <1>3
    <3> HIDE DEF c
    <3>. QED
      BY <1>1, <3>1, SegmentWalk
  <2>2. Position = Len(WalkTo(input, c)[1 - 1]) + 0
    BY <1>2 DEF Position
  <2>. QED
    BY <2>1, <2>2
<1>5. WholePosition = 0
  BY <1>2, <1>4 DEF WholePosition
<1>6. /\ SegWalk \in Seq(Models) /\ Whole \in Seq(Models)
  BY <1>1, <1>2, Positions, SegmentWalks
<1>7. /\ \A A : FirstsTo(SegWalk, A)[0] = <<>> /\ FirstsTo(Whole, A)[0] = <<>>
      /\ \A w, A : Among(w, A, 0) = {}
  BY <1>6, FirstsUnrolled DEF Among
<1>8. Lists
  <2>1. Before = <<>> /\ InPhase(Segment.phase, <<>>) = <<>>
    BY <1>2 DEF Before, InPhase
  <2>. QED
    BY <1>2, <1>4, <1>7, <2>1 DEF Lists
<1>9. Drops
  <2>1. ModelsOf(<<>>) = <<>>
    BY DEF ModelsOf
  <2>. QED
    BY <1>2, <1>5, <1>7, <2>1 DEF Drops
<1>. QED
  BY <1>8, <1>9

(* Every turn of a loop keeps the results as Compose declares them.        *)
LEMMA NextResults == TypeOK /\ Lists /\ Drops /\ [Next]_vars => Lists' /\ Drops'
<1>. SUFFICES ASSUME TypeOK, Lists, Drops, [Next]_vars PROVE Lists' /\ Drops'
  OBVIOUS
<1>1. ASSUME UNCHANGED vars PROVE Lists' /\ Drops'
  <2>1. /\ UNCHANGED <<input, seg, gi, mi, seen, skipSeen, cands, memberSkips>>
    BY <1>1 DEF vars
  <2>2. Segment' = Segment /\ (Done' <=> Done)
    BY <2>1, SamePlace
  <2>3. Position' = Position
    BY <2>1, <2>2 DEF Position
  <2>4. /\ Whole' = Whole /\ Lost' = Lost /\ \A m : Reason(m)' = Reason(m)
        /\ SegWalk' = SegWalk /\ Free' = Free /\ Before' = Before
        /\ WholePosition' = WholePosition
    BY <2>1, <2>3, SameWalks
  <2>. QED
    BY <2>1, <2>2, <2>3, <2>4 DEF Lists, Drops
<1>. QED
  BY <1>1, GroupMove, MemberMove, EndMove DEF Next

(* When Compose ends its candidates are those of its definition, in their  *)
(* order: the available members of the groups each segment names, each     *)
(* where it first stands (Compose, expand).                                *)
THEOREM CandidatesAreAsDeclared == Spec => []CandidatesAsDeclared
<1>1. Init => TypeOK /\ Lists /\ Drops
  BY InitType, InitResults
<1>2. TypeOK /\ Lists /\ Drops /\ [Next]_vars => (TypeOK /\ Lists /\ Drops)'
  BY NextType, NextResults
<1>3. TypeOK /\ Lists /\ Drops => CandidatesAsDeclared
  BY DEF Lists, CandidatesAsDeclared
<1>. QED
  BY <1>1, <1>2, <1>3, PTL DEF Spec


(* A group accounted for stays so: candidates and reports are only added.  *)
LEMMA AccountedStays ==
  ASSUME input' = input, Listed \subseteq Listed',
         \A i \in 1 .. Len(groupSkips) :
           \E j \in 1 .. Len(groupSkips') : groupSkips'[j] = groupSkips[i]
  PROVE  /\ \A m, k : Cand(m, k)' = Cand(m, k)
         /\ \A g, k : Accounted(g, k) => Accounted(g, k)'
<1>1. \A m, k : Cand(m, k)' = Cand(m, k)
  BY SettledStays
<1>2. ASSUME NEW g, NEW k, Accounted(g, k) PROVE Accounted(g, k)'
  <2>1. CASE \E i \in 1 .. Len(groupSkips) : groupSkips[i].group = g
    <3>1. PICK i \in 1 .. Len(groupSkips) : groupSkips[i].group = g
      BY <2>1
    <3>2. PICK j \in 1 .. Len(groupSkips') : groupSkips'[j] = groupSkips[i]
      OBVIOUS
    <3>. QED
      BY <3>1, <3>2 DEF Accounted
  <2>2. CASE InSnapshot(g) /\ \E m \in ToSet(input.members[g]) : Cand(m, k) \in Listed
    <3>1. PICK m \in ToSet(input.members[g]) : Cand(m, k) \in Listed
      BY <2>2
    <3>2. Cand(m, k)' \in Listed' /\ InSnapshot(g)' /\ m \in ToSet(input'.members[g])
      BY <1>1, <2>2, <3>1 DEF InSnapshot
    <3>. QED
      BY <3>2 DEF Accounted
  <2>. QED
    BY <1>2, <2>1, <2>2 DEF Accounted
<1>. QED
  BY <1>1, <1>2

(* A step keeps the groups passed accounted for when it accounts for the   *)
(* group it passes, if it passes one.                                      *)
LEMMA PassedStay ==
  ASSUME TypeOK, GroupsPassed, input' = input,
         \A g, k : Accounted(g, k) => Accounted(g, k)',
         NEW g0, NEW k0, NEW n0, Accounted(g0, k0)' \/ k0 = 0,
         k0 # 0 => k0 \in 1 .. Len(Plan) /\ g0 = Plan[k0].chain[n0],
         \A k \in 1 .. Len(Plan) : \A n \in 1 .. Len(Plan[k].chain) :
           k < seg' \/ (k = seg' /\ n < gi') =>
             k < seg \/ (k = seg /\ n < gi) \/ (k = k0 /\ n = n0)
  PROVE  \A k \in 1 .. Len(Plan') : \A n \in 1 .. Len(Plan'[k].chain) :
           k < seg' \/ (k = seg' /\ n < gi') => Accounted(Plan[k].chain[n], k)'
<1>1. Plan' = Plan
  BY SamePlace
<1>2. ASSUME NEW k \in 1 .. Len(Plan), NEW n \in 1 .. Len(Plan[k].chain),
             k < seg' \/ (k = seg' /\ n < gi'), NEW g, g = Plan[k].chain[n]
      PROVE  Accounted(g, k)'
  <2>1. CASE k = k0 /\ n = n0
    BY <1>2, <2>1
  <2>2. CASE ~(k = k0 /\ n = n0)
    <3>1. Accounted(g, k)
      BY <1>2, <2>2 DEF GroupsPassed
    <3>. QED
      BY <3>1
  <2>. QED
    BY <2>1, <2>2
<1>3. ASSUME NEW k \in 1 .. Len(Plan'), NEW n \in 1 .. Len(Plan'[k].chain),
             k < seg' \/ (k = seg' /\ n < gi')
      PROVE  Accounted(Plan[k].chain[n], k)'
  <2>1. PICK g : g = Plan[k].chain[n]
    OBVIOUS
  <2>2. Accounted(g, k)'
    BY <1>1, <1>2, <1>3, <2>1
  <2>3. Plan'[k].chain[n] = g
    BY <1>1, <2>1
  <2>. QED
    BY <2>2, <2>3 DEF Accounted
<1>. QED
  BY <1>3

(* A report is added at the end of those there are.                        *)
LEMMA ReportAdded ==
  ASSUME OutputOK, NEW g \in Groups, NEW detail \in Details,
         groupSkips' = Append(groupSkips, [group |-> g, detail |-> detail])
  PROVE  /\ \A i \in 1 .. Len(groupSkips) :
              \E j \in 1 .. Len(groupSkips') : groupSkips'[j] = groupSkips[i]
         /\ \E j \in 1 .. Len(groupSkips') : groupSkips'[j].group = g
<1> DEFINE e == [group |-> g, detail |-> detail]
           n == Len(groupSkips)
<1>1. /\ n \in Nat /\ Len(groupSkips') = n + 1
      /\ \A i \in 1 .. n : groupSkips'[i] = groupSkips[i]
      /\ groupSkips'[n + 1] = e
  BY DEF OutputOK
<1>2. e.group = g
  OBVIOUS
<1> HIDE DEF e, n
<1>3. n + 1 \in 1 .. Len(groupSkips') /\ \A i \in 1 .. n : i \in 1 .. Len(groupSkips')
  BY <1>1
<1>. QED
  BY <1>1, <1>2, <1>3 DEF n

(* Every turn of a loop keeps the groups passed accounted for.             *)
LEMMA NextGroups == TypeOK /\ GroupsPassed /\ [Next]_vars => GroupsPassed'
<1>. SUFFICES ASSUME TypeOK, GroupsPassed, [Next]_vars PROVE GroupsPassed'
  OBVIOUS
<1>0. /\ input \in InputType /\ PlaceOK /\ OutputOK /\ input' = input
      /\ seg \in Nat /\ gi \in Nat /\ mi \in Nat /\ available \in Nat
      /\ Plan' = Plan /\ Len(Plan) \in Nat
      /\ \A k \in 1 .. Len(Plan) : Len(Plan[k].chain) \in Nat
  <2>1. input \in InputType /\ PlaceOK /\ OutputOK /\ input' = input
    BY SameInput DEF TypeOK
  <2>. QED
    BY <2>1, PlanType, SamePlace DEF PlaceOK, OutputOK, SegmentType
<1>1. UNCHANGED cands => Listed' = Listed
  BY DEF Listed, ToSet
<1>2. ASSUME UNCHANGED <<cands, groupSkips>> PROVE \A g, k : Accounted(g, k) => Accounted(g, k)'
  <2>1. \A i \in 1 .. Len(groupSkips) :
          \E j \in 1 .. Len(groupSkips') : groupSkips'[j] = groupSkips[i]
    BY <1>2
  <2>. QED
    BY <1>0, <1>1, <1>2, <2>1, AccountedStays
(* A group is passed with a report, or with a candidate in hand.           *)
<1>3. ASSUME MissGroup \/ (LeaveGroup /\ available = 0) PROVE GroupsPassed'
  <2>1. /\ ~Done /\ gi <= Len(Segment.chain) /\ gi' = gi + 1 /\ mi' = 0 /\ seg' = seg
        /\ UNCHANGED cands
    BY <1>0, <1>3 DEF MissGroup, LeaveGroup, AtGroup, PlaceOK
  <2>2. Group \in Groups /\ seg \in 1 .. Len(Plan)
    BY <1>0, <2>1, GroupType, PlaceType
  <2>3. PICK detail \in Details :
          groupSkips' = Append(groupSkips, [group |-> Group, detail |-> detail])
    BY <1>3 DEF MissGroup, LeaveGroup, Details
  <2>4. /\ \A i \in 1 .. Len(groupSkips) :
             \E j \in 1 .. Len(groupSkips') : groupSkips'[j] = groupSkips[i]
        /\ \E j \in 1 .. Len(groupSkips') : groupSkips'[j].group = Group
    BY <1>0, <2>2, <2>3, ReportAdded
  <2>5. \A g, k : Accounted(g, k) => Accounted(g, k)'
    BY <1>0, <1>1, <2>1, <2>4, AccountedStays
  <2>6. PICK g0, k0, n0 : g0 = Group /\ k0 = seg /\ n0 = gi
    OBVIOUS
  <2>7. Accounted(g0, k0)'
    BY <2>4, <2>6 DEF Accounted
  <2>8. g0 = Plan[k0].chain[n0]
    BY <2>6 DEF Group, Segment
  <2>9. \A k \in 1 .. Len(Plan) : \A n \in 1 .. Len(Plan[k].chain) :
          k < seg' \/ (k = seg' /\ n < gi') =>
            k < seg \/ (k = seg /\ n < gi) \/ (k = k0 /\ n = n0)
    BY <1>0, <2>1, <2>6
  <2>. QED
    BY <1>0, <2>1, <2>2, <2>5, <2>6, <2>7, <2>8, <2>9, PassedStay DEF GroupsPassed
<1>4. ASSUME LeaveGroup, available # 0 PROVE GroupsPassed'
  <2>1. /\ ~Done /\ gi <= Len(Segment.chain) /\ gi' = gi + 1 /\ mi' = 0 /\ mi > 0
        /\ seg' = seg /\ InSnapshot(Group) /\ UNCHANGED <<cands, groupSkips>>
    BY <1>0, <1>4 DEF LeaveGroup, PlaceOK
  <2>2. seg \in 1 .. Len(Plan)
    BY <1>0, <2>1, PlaceType
  <2>3. Accounted(Group, seg)
    BY <1>0, <1>4, <2>1 DEF GroupsPassed, Accounted, Members
  <2>4. \A g, k : Accounted(g, k) => Accounted(g, k)'
    BY <1>2, <2>1
  <2>5. PICK g0, k0, n0 : g0 = Group /\ k0 = seg /\ n0 = gi
    OBVIOUS
  <2>6. Accounted(g0, k0)'
    BY <2>3, <2>4, <2>5
  <2>7. g0 = Plan[k0].chain[n0]
    BY <2>5 DEF Group, Segment
  <2>8. \A k \in 1 .. Len(Plan) : \A n \in 1 .. Len(Plan[k].chain) :
          k < seg' \/ (k = seg' /\ n < gi') =>
            k < seg \/ (k = seg /\ n < gi) \/ (k = k0 /\ n = n0)
    BY <1>0, <2>1, <2>5
  <2>. QED
    BY <1>0, <2>1, <2>2, <2>4, <2>5, <2>6, <2>7, <2>8, PassedStay DEF GroupsPassed
(* The other turns pass no group.                                          *)
<1>5. ASSUME \A g, k : Accounted(g, k) => Accounted(g, k)',
             \A k \in 1 .. Len(Plan) : \A n \in 1 .. Len(Plan[k].chain) :
               k < seg' \/ (k = seg' /\ n < gi') => k < seg \/ (k = seg /\ n < gi),
             mi' > 0 /\ available' > 0 =>
               \E m \in ToSet(Members') : Cand(m, seg)' \in Listed'
      PROVE  GroupsPassed'
  <2>1. 0 \notin 1 .. Len(Plan)
    BY <1>0
  <2>2. PICK k0 : k0 = 0
    OBVIOUS
  <2>. QED
    BY <1>0, <1>5, <2>1, <2>2, PassedStay DEF GroupsPassed
<1>6. CASE EnterGroup
  <2>1. UNCHANGED <<seg, gi, cands, groupSkips>> /\ available' = 0
    BY <1>6 DEF EnterGroup
  <2>. QED
    BY <1>2, <1>5, <2>1
<1>7. CASE EndSegment
  <2>1. UNCHANGED <<cands, groupSkips, mi>> /\ seg' = seg + 1 /\ gi' = 1 /\ mi = 0
        /\ ~Done /\ gi > Len(Segment.chain)
    BY <1>7 DEF EndSegment
  <2>2. \A k \in 1 .. Len(Plan) : \A n \in 1 .. Len(Plan[k].chain) :
          k < seg' \/ (k = seg' /\ n < gi') => k < seg \/ (k = seg /\ n < gi)
    BY <1>0, <2>1 DEF Segment
  <2>. QED
    BY <1>2, <1>5, <2>1, <2>2
<1>8. CASE PassSeen \/ DropMember \/ UNCHANGED vars
  <2>1. UNCHANGED <<seg, gi, cands, groupSkips, available>> /\ (mi' > 0 => mi > 0)
    BY <1>0, <1>8 DEF PassSeen, DropMember, AtMember, vars
  <2>2. Members' = Members /\ \A m : Cand(m, seg)' = Cand(m, seg)
    BY <1>0, <2>1, SamePlace DEF Cand
  <2>. QED
    BY <1>1, <1>2, <1>5, <2>1, <2>2 DEF GroupsPassed
<1>9. CASE TakeMember
  <2>1. /\ UNCHANGED <<seg, gi, groupSkips>> /\ ~Done /\ mi > 0 /\ mi <= Len(Members)
        /\ cands' = Append(cands, Cand(Member, seg))
    BY <1>9 DEF TakeMember, AtMember, Cand, Segment
  <2>2. Members \in Seq(Models) /\ gi <= Len(Segment.chain)
    BY <1>0, <2>1, GroupType DEF PlaceOK
  <2>3. Listed' = Listed \cup {Cand(Member, seg)}
    <3> DEFINE n == Len(cands)
    <3>1. /\ n \in Nat /\ Len(cands') = n + 1 /\ \A i \in 1 .. n : cands'[i] = cands[i]
          /\ cands'[n + 1] = Cand(Member, seg)
      BY <1>0, <2>1 DEF OutputOK
    <3>. QED
      BY <3>1 DEF Listed, ToSet
  <2>4. Member \in ToSet(Members)
    BY <1>0, <2>1, <2>2 DEF Member, ToSet
  <2>5. Members' = Members /\ \A m : Cand(m, seg)' = Cand(m, seg)
    BY <1>0, <2>1, SamePlace DEF Cand
  <2>6. \A i \in 1 .. Len(groupSkips) :
          \E j \in 1 .. Len(groupSkips') : groupSkips'[j] = groupSkips[i]
    BY <2>1
  <2>7. \A g, k : Accounted(g, k) => Accounted(g, k)'
    BY <1>0, <2>3, <2>6, AccountedStays
  <2>8. \E m \in ToSet(Members') : Cand(m, seg)' \in Listed'
    BY <2>3, <2>4, <2>5
  <2>. QED
    BY <1>5, <2>1, <2>7, <2>8
<1>. QED
  BY <1>3, <1>4, <1>6, <1>7, <1>8, <1>9 DEF Next

(* At the start no group is passed.                                        *)
LEMMA InitGroups == Init => GroupsPassed
<1>. SUFFICES ASSUME Init PROVE GroupsPassed
  OBVIOUS
<1>1. \A k \in 1 .. Len(Plan) : \A n \in 1 .. Len(Plan[k].chain) :
        ~(k < seg \/ (k = seg /\ n < gi))
  BY DEF Init
<1>. QED
  BY <1>1 DEF Init, GroupsPassed

(* When Compose ends, the members it dropped are reported once each, in    *)
(* the order met and with the reason; and a group that gives a segment no  *)
(* candidate is reported with all its members (groupSkips, memberSkips).   *)
THEOREM SkipsAreAsDeclared == Spec => []SkipsAsDeclared
<1>1. Init => IInv /\ Drops /\ GroupsPassed
  BY InitIInv, InitResults, InitGroups
<1>2. IInv /\ Lists /\ Drops /\ GroupsPassed /\ [Next]_vars
        => (IInv /\ Lists /\ Drops /\ GroupsPassed)'
  BY NextIInv, NextResults, NextGroups DEF IInv
<1>3. IInv /\ Drops /\ GroupsPassed => SkipsAsDeclared
  <2>. SUFFICES ASSUME IInv, Drops, GroupsPassed, Done
                PROVE  MembersExplained /\ GroupsExplained
    BY DEF SkipsAsDeclared
  <2>0. /\ input \in InputType /\ PlaceOK /\ Len(Plan) \in Nat /\ Whole \in Seq(Models)
        /\ DOMAIN cands = 1 .. Len(cands) /\ DOMAIN memberSkips = 1 .. Len(memberSkips)
    BY PlanType, SegmentWalks DEF IInv, TypeOK, OutputOK
  <2>1. ModelsOf(memberSkips) = FirstsTo(Whole, Lost)[Len(Whole)]
    BY DEF Drops, WholePosition
  <2>2. MembersExplained
    BY <2>1 DEF Drops, ModelsOf, MembersExplained, Dropped, Firsts, Whole, Lost
  <2>3. ToSet(ModelsOf(memberSkips)) = Lost
    <3> DEFINE w == Whole
    <3>1. w \in Seq(Models)
      BY <2>0
    <3>2. ToSet(FirstsTo(w, Lost)[Len(w)]) = Among(w, Lost, Len(w))
      <4> HIDE DEF w
      <4>. QED
        BY <3>1, FirstsElements
    <3>3. Among(w, Lost, Len(w)) = Lost
      BY <3>1 DEF Among, Lost, ToSet
    <3>. QED
      BY <2>1, <3>2, <3>3
  <2>4. ASSUME NEW k \in 1 .. Len(Plan), NEW g, InSnapshot(g),
               NEW m \in ToSet(input.members[g]), Cand(m, k) \in Listed
        PROVE  GivesTo(g, k)
    <3>1. PICK i \in 1 .. Len(cands) : cands[i] = Cand(m, k)
      BY <2>0, <2>4 DEF Listed, ToSet
    <3>2. cands[i].model = m /\ cands[i].phase = Plan[k].phase
      BY <3>1 DEF Cand
    <3>. QED
      BY <2>4, <3>2 DEF GivesTo
  <2>5. ASSUME NEW k \in 1 .. Len(Plan), NEW g \in ToSet(Plan[k].chain), ~GivesTo(g, k)
        PROVE  \E i \in 1 .. Len(groupSkips) : groupSkips[i].group = g
    <3> DEFINE c == Plan[k].chain
    <3>0. c \in Seq(Groups)
      BY <2>0, PlanType DEF SegmentType
    <3>1. PICK n \in 1 .. Len(c) : g = c[n]
      <4>1. g \in ToSet(c)
        OBVIOUS
      <4> HIDE DEF c
      <4>. QED
        BY <3>0, <4>1 DEF ToSet
    <3>2. k < seg
      BY <2>0 DEF Done, PlaceOK
    <3>3. Accounted(g, k)
      BY <3>1, <3>2 DEF GroupsPassed
    <3>4. ~(InSnapshot(g) /\ \E m \in ToSet(input.members[g]) : Cand(m, k) \in Listed)
      BY <2>5, <2>4
    <3>. QED
      BY <3>3, <3>4 DEF Accounted
  <2>6. ASSUME NEW k \in 1 .. Len(Plan), NEW g \in ToSet(Plan[k].chain), ~GivesTo(g, k),
               InSnapshot(g), NEW m \in ToSet(input.members[g])
        PROVE  \E i \in 1 .. Len(memberSkips) : memberSkips[i].model = m
    <3>1. Unavailable(input, m)
      <4>. SUFFICES ASSUME ~Unavailable(input, m) PROVE FALSE
        OBVIOUS
      <4>1. k < seg
        BY <2>0 DEF Done, PlaceOK
      <4>2. Cand(m, k) \in Listed
        BY <2>6, <4>1 DEF IInv, Progress, GroupSettled, Settled
      <4>. QED
        BY <2>6, <2>4, <4>2
    <3>2. m \in ToSet(Whole)
      <4> DEFINE c == Plan[k].chain
                 a == Walk(input, Plan[1].chain)
                 b == Walk(input, Plan[2].chain)
      <4>1. c \in Seq(Groups) /\ WellFormed(input, Groups, Models)
        BY <2>0, PlanType, InputWellFormed DEF SegmentType
      <4>2. m \in GivenSet(input, g) /\ g \in ToSet(c)
        BY <2>6 DEF GivenSet, InSnapshot
      <4>3. m \in ToSet(Walk(input, c))
        <5> HIDE DEF c
        <5>. QED
          BY <4>1, <4>2, WalkElements DEF Reached
      <4>4. CASE ~Triggered(input)
        <5>1. Len(Plan) = 1 /\ Whole = a
          BY <2>0, <4>4, SegmentWalks
        <5>2. k = 1
          BY <5>1
        <5>. QED
          BY <4>3, <5>1, <5>2
      <4>5. CASE Triggered(input)
        <5>1. /\ Len(Plan) = 2 /\ Whole = a \o b
              /\ a \in Seq(Models) /\ b \in Seq(Models)
          <6>1. Len(Plan) = 2 /\ Whole = a \o b
            BY <2>0, <4>5, SegmentWalks
          <6>2. 1 \in 1 .. Len(Plan) /\ 2 \in 1 .. Len(Plan)
            BY <6>1
          <6>. QED
            BY <2>0, <6>1, <6>2, SegmentWalks
        <5>2. k = 1 \/ k = 2
          BY <5>1
        <5>3. m \in ToSet(a) \/ m \in ToSet(b)
          BY <4>3, <5>2
        <5>4. ToSet(a \o b) = ToSet(a) \cup ToSet(b)
          <6> HIDE DEF a, b
          <6>. QED
            BY <5>1, ConcatElements
        <5>. QED
          BY <5>1, <5>3, <5>4
      <4>. QED
        BY <4>4, <4>5
    <3>3. m \in Lost
      BY <3>1, <3>2 DEF Lost
    <3>4. m \in ToSet(ModelsOf(memberSkips))
      BY <2>3, <3>3
    <3>. QED
      BY <3>4 DEF ModelsOf, ToSet
  <2>7. GroupsExplained
    BY <2>5, <2>6 DEF GroupsExplained
  <2>. QED
    BY <2>2, <2>7
<1>. QED
  BY <1>1, <1>2, <1>3, InitResults, PTL DEF Spec

=============================================================================
