--------------------------- MODULE DispatchProofs ---------------------------
(***************************************************************************)
(* Proofs about Dispatch, for any requests, configurations and sizes, from *)
(* what Compose promises (ComposeProofs).                                  *)
(***************************************************************************)
EXTENDS Dispatch, ComposeProofs

PCs == {"ready", "authenticated", "snapshot", "composed", "answered"} \cup Ended

Candidate == [model : Models, phase : Phases]

InputOf(q) == Input(snap[q], Sizes[q], tried[q], states[q])

(* The variables of a request that a handler works on.                     *)
HandlerType ==
  /\ snap \in [Requests -> Snapshots \cup {NoSnapshot}]
  /\ states \in [Requests -> SUBSET Models]
  /\ cands \in [Requests -> Seq(Candidate)]
  /\ at \in [Requests -> Nat \ {0}]
  /\ target \in [Requests -> Models \cup {NoTarget}]
  /\ group \in [Requests -> Groups \cup {NoTarget}]
  /\ cooled \in [Requests -> SUBSET Models]

WorldType ==
  /\ config \in Snapshots
  /\ admitted \in BOOLEAN
  /\ cooling \subseteq Models
  /\ changes \in Nat
  /\ pc \in [Requests -> PCs]
  /\ tried \in [Requests -> SUBSET Models]
  /\ reports \subseteq [from : Requests, model : Models,
                        outcome : {"normal", "abnormal"}]

(* What a handler has done when it is at a step.                           *)
Begun(q) == pc[q] \in {"snapshot", "composed", "answered"}

Composed(q) == pc[q] \in {"composed", "answered"}

(* The snapshot and the candidates are those of this dispatch, the run     *)
(* state covers what cools since before it, and what was handed out is the *)
(* candidate it had come to, with the group it is located in.              *)
StageOf(q) ==
  /\ cooled[q] \subseteq cooling
  /\ Begun(q) => snap[q] \in Snapshots
  /\ Composed(q) => /\ cands[q] = Candidates(InputOf(q))
                    /\ cooled[q] \cap AllMembers(snap[q]) \subseteq states[q]
  /\ pc[q] = "answered" => /\ at[q] <= Len(cands[q])
                           /\ target[q] = cands[q][at[q]].model
                           /\ group[q] = Locate(snap[q], target[q])

Stages == \A q \in Requests : StageOf(q)

IInv == WorldType /\ HandlerType /\ Stages

(* What dispatch knows of the candidates of a snapshot.                    *)
LEMMA Composition ==
  ASSUME NEW s \in Snapshots, NEW size, NEW tries \in SUBSET Models,
         NEW cools \in SUBSET Models
  PROVE  Promised(Input(s, size, tries, cools), Models)
<1> DEFINE in == Input(s, size, tries, cools)
<1>1. s \in SnapshotType
  BY DispatchAssumption
<1>2. IsInput(in, Groups, Models)
  BY <1>1 DEF Input, SnapshotType, IsInput, WellFormed
<1> HIDE DEF in
<1>3. Promised(in, Models)
  BY <1>2, CandidatesPromised
<1>. QED
  BY <1>3 DEF in

(* A candidate is a member of the snapshot that nothing speaks against.    *)
LEMMA CandidateFits ==
  ASSUME NEW s \in Snapshots, NEW size, NEW tries \in SUBSET Models,
         NEW cools \in SUBSET Models, NEW c,
         c = Candidates(Input(s, size, tries, cools))
  PROVE  /\ c \in Seq(Candidate)
         /\ \A i \in 1 .. Len(c) :
              /\ c[i].model \in Models
              /\ c[i].model \in AllMembers(s)
              /\ c[i].model \notin tries
              /\ c[i].model \notin cools
<1> DEFINE in == Input(s, size, tries, cools)
<1>1. Promised(in, Models)
  BY Composition
<1>2. in.tried = tries /\ in.cooling = cools /\ in.order = s.order /\ in.members = s.members
  BY DEF Input
<1> HIDE DEF in
<1>3. c = Candidates(in)
  BY DEF in
<1>4. c \in Seq(Candidate)
  BY <1>1, <1>3 DEF Promised, Candidate
<1>. SUFFICES ASSUME NEW i \in 1 .. Len(c)
              PROVE  /\ c[i].model \in Models
                     /\ c[i].model \in AllMembers(s)
                     /\ c[i].model \notin tries
                     /\ c[i].model \notin cools
  BY <1>4
<1>5. c[i] \in Candidate
  BY <1>4
<1>6. /\ ~Unavailable(in, c[i].model)
      /\ \E g \in ToSet(in.order) : c[i].model \in ToSet(in.members[g])
  BY <1>1, <1>3 DEF Promised
<1>7. c[i].model \in AllMembers(s)
  BY <1>2, <1>6 DEF AllMembers, MembersOf
<1>8. c[i].model \notin tries /\ c[i].model \notin cools
  BY <1>2, <1>6 DEF Unavailable
<1>. QED
  BY <1>5, <1>7, <1>8 DEF Candidate

(* The group named with a member of the snapshot is one of its groups, and *)
(* has it.                                                                 *)
LEMMA LocateType ==
  ASSUME NEW s \in Snapshots, NEW m \in AllMembers(s)
  PROVE  /\ Locate(s, m) \in Groups
         /\ Locate(s, m) \in ToSet(s.order)
         /\ m \in ToSet(s.members[Locate(s, m)])
<1> DEFINE n == Len(s.order)
           I == {i \in 1 .. n : m \in ToSet(s.members[s.order[i]])}
<1>1. s.order \in Seq(Groups)
  BY DispatchAssumption DEF SnapshotType
<1>2. n \in Nat /\ I \in SUBSET (0 .. n)
  BY <1>1
<1>3. I # {}
  <2>1. PICK g \in ToSet(s.order) : m \in ToSet(s.members[g])
    BY DEF AllMembers, MembersOf
  <2>2. PICK i \in 1 .. n : g = s.order[i]
    BY <1>1, <2>1 DEF ToSet
  <2>. QED
    BY <2>1, <2>2
<1>4. Min(I) \in I
  <2> HIDE DEF I, n
  <2>1. \E x \in I : \A y \in I : x <= y
    BY <1>2, <1>3, LeastUpTo
  <2>. QED
    BY <2>1 DEF Min
<1>5. SelectInSeq(s.order, LAMBDA g : m \in ToSet(s.members[g])) = Min(I)
  BY <1>3 DEF SelectInSeq
<1>6. Locate(s, m) = s.order[Min(I)]
  BY <1>5 DEF Locate
<1>7. \A i \in 1 .. n : s.order[i] \in Groups /\ s.order[i] \in ToSet(s.order)
  BY <1>1 DEF ToSet
<1>8. Min(I) \in 1 .. n /\ m \in ToSet(s.members[s.order[Min(I)]])
  BY <1>4
<1> HIDE DEF I, n
<1>. QED
  BY <1>6, <1>7, <1>8
-----------------------------------------------------------------------------
(* At the start nothing has been read or handed out.                       *)
LEMMA InitIInv == Init => IInv
<1>. SUFFICES ASSUME Init PROVE IInv
  OBVIOUS
<1>1. <<>> \in Seq(Candidate)
  OBVIOUS
<1>2. WorldType
  BY DispatchAssumption DEF Init, WorldType, PCs
<1>3. HandlerType
  BY <1>1 DEF Init, HandlerType
<1>4. Stages
  BY DEF Init, Stages, StageOf, Begun, Composed
<1>. QED
  BY <1>2, <1>3, <1>4 DEF IInv

(* A request that ends, or starts again, leaves nothing behind.            *)
LEMMA ForgetType ==
  ASSUME HandlerType, NEW q \in Requests, Forget(q)
  PROVE  HandlerType'
<1>1. <<>> \in Seq(Candidate)
  OBVIOUS
<1>. QED
  BY <1>1 DEF HandlerType, Forget

(* The steps of a handler and of the data plane keep the types.            *)
LEMMA RequestType ==
  ASSUME IInv, NEW q \in Requests, Serve(q) \/ Call(q)
  PROVE  WorldType' /\ HandlerType'
<1>0. WorldType /\ HandlerType /\ StageOf(q)
  BY DEF IInv, Stages
<1>1. CASE FailQuery(q) \/ RunOut(q)
  <2>1. HandlerType'
    BY <1>0, <1>1, ForgetType DEF FailQuery, RunOut
  <2>. QED
    BY <1>0, <1>1, <2>1 DEF FailQuery, RunOut, WorldType, Goto, world, PCs, Ended
<1>2. CASE Authenticate(q) \/ Refuse(q)
  BY <1>0, <1>2 DEF Authenticate, Refuse, WorldType, HandlerType, Goto, world, handler,
                    answer, PCs, Ended
<1>3. CASE ReadSnapshot(q)
  BY <1>0, <1>3 DEF ReadSnapshot, WorldType, HandlerType, Goto, world, answer, PCs
<1>4. CASE LoadStates(q)
  <2> DEFINE cools == cooling \cap AllMembers(snap[q])
             c == Candidates(Input(snap[q], Sizes[q], tried[q], cools))
  <2>1. snap[q] \in Snapshots /\ tried[q] \in SUBSET Models /\ cools \in SUBSET Models
    BY <1>0, <1>4 DEF LoadStates, StageOf, Begun, WorldType
  <2>2. c \in Seq(Candidate)
    <3> HIDE DEF cools
    <3>. QED
      BY <2>1, CandidateFits
  <2>3. /\ states' = [states EXCEPT ![q] = cools]
        /\ cands' = [cands EXCEPT ![q] = c]
        /\ at' = [at EXCEPT ![q] = 1]
        /\ Goto(q, "composed")
        /\ UNCHANGED <<world, cooling, tried, snap, answer, cooled, reports>>
    BY <1>4 DEF LoadStates, ComposeFrom
  <2> HIDE DEF cools, c
  <2>. QED
    BY <1>0, <2>1, <2>2, <2>3 DEF WorldType, HandlerType, Goto, world, answer, PCs
<1>5. CASE Resolve(q)
  <2> DEFINE m == cands[q][at[q]].model
             g == Locate(snap[q], m)
  <2>1. at[q] \in 1 .. Len(cands[q])
    BY <1>0, <1>5 DEF Resolve, HandlerType
  <2>2. m \in Models /\ m \in AllMembers(snap[q]) /\ snap[q] \in Snapshots
    <3>1. /\ snap[q] \in Snapshots /\ tried[q] \in SUBSET Models
          /\ states[q] \in SUBSET Models
          /\ cands[q] = Candidates(Input(snap[q], Sizes[q], tried[q], states[q]))
      BY <1>0, <1>5 DEF Resolve, StageOf, Begun, Composed, WorldType, HandlerType, InputOf
    <3>. QED
      BY <2>1, <3>1, CandidateFits
  <2>3. g \in Groups
    BY <2>2, LocateType
  <2>4. /\ target' = [target EXCEPT ![q] = m]
        /\ group' = [group EXCEPT ![q] = g]
        /\ Goto(q, "answered")
        /\ UNCHANGED <<world, cooling, tried, handler, cooled, reports>>
    BY <1>5 DEF Resolve
  <2> HIDE DEF m, g
  <2>. QED
    BY <1>0, <2>2, <2>3, <2>4 DEF WorldType, HandlerType, Goto, world, handler, PCs
<1>6. CASE FailResolve(q)
  BY <1>0, <1>6 DEF FailResolve, WorldType, HandlerType, world, answer
<1>7. CASE Succeed(q) \/ Retry(q)
  <2>1. HandlerType'
    BY <1>0, <1>7, ForgetType DEF Succeed, Retry
  <2>2. target[q] \in Models
    <3>1. /\ snap[q] \in Snapshots /\ tried[q] \in SUBSET Models
          /\ states[q] \in SUBSET Models
          /\ cands[q] = Candidates(Input(snap[q], Sizes[q], tried[q], states[q]))
          /\ at[q] \in 1 .. Len(cands[q]) /\ target[q] = cands[q][at[q]].model
      BY <1>0, <1>7 DEF Succeed, Retry, StageOf, Begun, Composed, WorldType, HandlerType,
                        InputOf
    <3>. QED
      BY <3>1, CandidateFits
  <2>3. WorldType'
    BY <1>0, <1>7, <2>2 DEF Succeed, Retry, WorldType, Goto, world, PCs, Ended
  <2>. QED
    BY <2>1, <2>3
<1>. QED
  BY <1>1, <1>2, <1>3, <1>4, <1>5, <1>6, <1>7 DEF Serve, Call

(* So do reports, time and operators.                                      *)
Elsewhere ==
  \/ \E rep \in reports : Report(rep)
  \/ \E m \in Models : EndCooling(m)
  \/ \E s \in Snapshots : Reconfigure(s)
  \/ Disable
  \/ UNCHANGED vars

(* These steps keep the types.                                             *)
LEMMA ElsewhereType ==
  ASSUME IInv, Elsewhere
  PROVE  WorldType' /\ HandlerType'
<1>0. WorldType /\ HandlerType
  BY DEF IInv
<1>1. ASSUME NEW m \in Models, Warm(m)
      PROVE  cooling' \subseteq Models /\ cooled' \in [Requests -> SUBSET Models]
  BY <1>0, <1>1 DEF Warm, WorldType, HandlerType
<1>2. ASSUME NEW rep \in reports, Report(rep) PROVE WorldType' /\ HandlerType'
  <2>1. rep.model \in Models /\ rep.outcome \in {"normal", "abnormal"}
    BY <1>0, <1>2 DEF WorldType
  <2>2. CASE rep.outcome = "normal"
    BY <1>0, <1>1, <1>2, <2>1, <2>2 DEF Report, WorldType, HandlerType, world, handler, answer
  <2>3. CASE rep.outcome = "abnormal"
    BY <1>0, <1>2, <2>1, <2>3 DEF Report, WorldType, HandlerType, world, handler, answer
  <2>. QED
    BY <2>1, <2>2, <2>3
<1>3. ASSUME NEW m \in Models, EndCooling(m) PROVE WorldType' /\ HandlerType'
  BY <1>0, <1>1, <1>3 DEF EndCooling, WorldType, HandlerType, handler, answer
<1>4. ASSUME NEW s \in Snapshots, Reconfigure(s) PROVE WorldType' /\ HandlerType'
  BY <1>0, <1>4 DEF Reconfigure, WorldType, HandlerType, handler, answer
<1>5. CASE Disable
  <2>1. changes' \in Nat
    BY <1>0, <1>5 DEF Disable, WorldType
  <2>2. /\ admitted' = FALSE
        /\ UNCHANGED <<config, cooling, pc, tried, handler, answer, cooled, reports>>
    BY <1>5 DEF Disable
  <2>3. admitted' \in BOOLEAN
    BY <2>2
  <2>4. WorldType'
    BY <1>0, <2>1, <2>2, <2>3, Zenon DEF WorldType
  <2>. QED
    BY <1>0, <2>2, <2>4 DEF HandlerType, handler, answer
<1>6. CASE UNCHANGED vars
  BY <1>0, <1>6 DEF vars, WorldType, HandlerType
<1>. QED
  BY <1>2, <1>3, <1>4, <1>5, <1>6 DEF Elsewhere
-----------------------------------------------------------------------------
(* What a request has is untouched.                                        *)
Untouched(r) ==
  /\ pc'[r] = pc[r] /\ snap'[r] = snap[r] /\ tried'[r] = tried[r]
  /\ states'[r] = states[r] /\ cands'[r] = cands[r] /\ at'[r] = at[r]
  /\ target'[r] = target[r] /\ group'[r] = group[r]

(* It is at the stage it was at when less is asked of what cools.          *)
LEMMA UntouchedStage ==
  ASSUME NEW r \in Requests, StageOf(r), Untouched(r),
         cooled'[r] \subseteq cooling', cooled'[r] \subseteq cooled[r]
  PROVE  StageOf(r)'
<1>1. InputOf(r)' = InputOf(r) /\ (Begun(r)' <=> Begun(r)) /\ (Composed(r)' <=> Composed(r))
  BY DEF Untouched, InputOf, Begun, Composed
<1>. QED
  BY <1>1 DEF Untouched, StageOf

(* A handler touches its own request only.                                 *)
LEMMA OthersUntouched ==
  ASSUME IInv, NEW q \in Requests, Serve(q) \/ Call(q), NEW r \in Requests, r # q
  PROVE  StageOf(r)'
<1>0. WorldType /\ HandlerType /\ StageOf(r)
  BY DEF IInv, Stages
<1>1. Untouched(r) /\ cooled'[r] \subseteq cooled[r] /\ cooling' = cooling
  <2>1. CASE FailQuery(q) \/ RunOut(q) \/ Succeed(q) \/ Retry(q)
    BY <1>0, <2>1 DEF FailQuery, RunOut, Succeed, Retry, Forget, Goto, Untouched, WorldType,
                      HandlerType
  <2>2. CASE Authenticate(q) \/ Refuse(q) \/ ReadSnapshot(q) \/ Resolve(q)
    BY <1>0, <2>2 DEF Authenticate, Refuse, ReadSnapshot, Resolve, Goto, Untouched, WorldType,
                      HandlerType, handler, answer
  <2>3. CASE LoadStates(q) \/ FailResolve(q)
    BY <1>0, <2>3 DEF LoadStates, ComposeFrom, FailResolve, Goto, Untouched, WorldType,
                      HandlerType, answer
  <2>. QED
    BY <2>1, <2>2, <2>3 DEF Serve, Call
<1>2. cooled'[r] \subseteq cooling'
  BY <1>0, <1>1 DEF StageOf
<1>. QED
  BY <1>0, <1>1, <1>2, UntouchedStage

(* Each step of a handler establishes what the next one relies on.         *)
LEMMA OwnStage ==
  ASSUME IInv, NEW q \in Requests, Serve(q) \/ Call(q)
  PROVE  StageOf(q)'
<1>0. WorldType /\ HandlerType /\ StageOf(q)
  BY DEF IInv, Stages
<1>1. CASE FailQuery(q) \/ RunOut(q) \/ Succeed(q) \/ Retry(q)
  <2>1. /\ pc'[q] \notin {"snapshot", "composed", "answered"} /\ cooled'[q] = {}
    BY <1>0, <1>1 DEF FailQuery, RunOut, Succeed, Retry, Forget, Goto, WorldType, HandlerType
  <2>. QED
    BY <2>1 DEF StageOf, Begun, Composed
<1>2. CASE Authenticate(q) \/ Refuse(q)
  <2>1. /\ pc'[q] \notin {"snapshot", "composed", "answered"}
        /\ cooled'[q] \subseteq cooling'
    BY <1>0, <1>2 DEF Authenticate, Refuse, Goto, WorldType, HandlerType, StageOf
  <2>. QED
    BY <2>1 DEF StageOf, Begun, Composed
<1>3. CASE ReadSnapshot(q)
  <2>1. /\ pc'[q] = "snapshot" /\ snap'[q] \in Snapshots /\ cooled'[q] \subseteq cooling'
    BY <1>0, <1>3 DEF ReadSnapshot, Goto, WorldType, HandlerType, StageOf
  <2>. QED
    BY <2>1 DEF StageOf, Begun, Composed
<1>4. CASE LoadStates(q)
  <2>1. /\ pc'[q] = "composed" /\ snap'[q] = snap[q] /\ snap[q] \in Snapshots
        /\ tried'[q] = tried[q] /\ states'[q] = cooling \cap AllMembers(snap[q])
        /\ cands'[q] = Candidates(Input(snap[q], Sizes[q], tried[q], states'[q]))
        /\ cooled' = cooled /\ cooling' = cooling
    BY <1>0, <1>4 DEF LoadStates, ComposeFrom, Goto, WorldType, HandlerType, StageOf, Begun
  <2>2. InputOf(q)' = Input(snap[q], Sizes[q], tried[q], states'[q])
    BY <2>1 DEF InputOf
  <2>. QED
    BY <1>0, <2>1, <2>2 DEF StageOf, Begun, Composed
<1>5. CASE Resolve(q)
  <2>1. /\ pc[q] = "composed" /\ pc'[q] = "answered"
        /\ at[q] <= Len(cands[q]) /\ target'[q] = cands[q][at[q]].model
        /\ group'[q] = Locate(snap[q], target'[q])
        /\ UNCHANGED <<cooling, tried, snap, states, cands, at, cooled>>
    BY <1>0, <1>5 DEF Resolve, Goto, handler, WorldType, HandlerType
  <2>2. InputOf(q)' = InputOf(q)
    BY <2>1 DEF InputOf
  <2>. QED
    BY <1>0, <2>1, <2>2 DEF StageOf, Begun, Composed
<1>6. CASE FailResolve(q)
  <2>1. /\ pc[q] = "composed"
        /\ UNCHANGED <<cooling, pc, tried, snap, states, cands, cooled>>
    BY <1>6 DEF FailResolve
  <2>2. InputOf(q)' = InputOf(q)
    BY <2>1 DEF InputOf
  <2>. QED
    BY <1>0, <2>1, <2>2 DEF StageOf, Begun, Composed
<1>. QED
  BY <1>1, <1>2, <1>3, <1>4, <1>5, <1>6 DEF Serve, Call

(* What happens elsewhere keeps every handler at its stage.                *)
LEMMA ElsewhereStages ==
  ASSUME IInv, Elsewhere
  PROVE  Stages'
<1>. SUFFICES ASSUME NEW r \in Requests PROVE StageOf(r)'
  BY DEF Stages
<1>0. WorldType /\ HandlerType /\ StageOf(r)
  BY DEF IInv, Stages
<1>1. /\ Untouched(r)
      /\ cooled'[r] \subseteq cooling' /\ cooled'[r] \subseteq cooled[r]
  <2>1. ASSUME NEW m, Warm(m)
        PROVE  cooled'[r] \subseteq cooling' /\ cooled'[r] \subseteq cooled[r]
    BY <1>0, <2>1 DEF Warm, StageOf
  <2>2. ASSUME NEW rep \in reports, Report(rep)
        PROVE  /\ Untouched(r)
               /\ cooled'[r] \subseteq cooling' /\ cooled'[r] \subseteq cooled[r]
    <3>1. rep.outcome \in {"normal", "abnormal"}
      BY <1>0, <2>2 DEF WorldType
    <3>2. Untouched(r)
      BY <2>2 DEF Report, Untouched, handler, answer
    <3>3. CASE rep.outcome = "normal"
      <4>1. Warm(rep.model)
        BY <2>2, <3>3 DEF Report
      <4>. QED
        BY <2>1, <3>2, <4>1
    <3>4. CASE rep.outcome = "abnormal"
      <4>1. cooled' = cooled /\ cooling \subseteq cooling'
        BY <2>2, <3>4 DEF Report
      <4>. QED
        BY <1>0, <3>2, <4>1 DEF StageOf
    <3>. QED
      BY <3>1, <3>3, <3>4
  <2>3. ASSUME NEW m \in Models, EndCooling(m)
        PROVE  /\ Untouched(r)
               /\ cooled'[r] \subseteq cooling' /\ cooled'[r] \subseteq cooled[r]
    BY <2>1, <2>3 DEF EndCooling, Untouched, handler, answer
  <2>4. CASE (\E s \in Snapshots : Reconfigure(s)) \/ Disable \/ UNCHANGED vars
    BY <1>0, <2>4 DEF Reconfigure, Disable, vars, Untouched, handler, answer, StageOf
  <2>. QED
    BY <2>2, <2>3, <2>4 DEF Elsewhere
<1>. QED
  BY <1>0, <1>1, UntouchedStage

(* IInv is inductive.                                                      *)
LEMMA NextIInv == IInv /\ [Next]_vars => IInv'
<1>. SUFFICES ASSUME IInv, [Next]_vars PROVE (WorldType /\ HandlerType /\ Stages)'
  BY DEF IInv
<1>1. ASSUME NEW q \in Requests, Serve(q) \/ Call(q)
      PROVE  (WorldType /\ HandlerType /\ Stages)'
  BY <1>1, RequestType, OthersUntouched, OwnStage DEF Stages
<1>2. CASE Elsewhere
  BY <1>2, ElsewhereType, ElsewhereStages
<1>. QED
  BY <1>1, <1>2 DEF Next, Elsewhere

(* IInv holds in every state.                                              *)
LEMMA Invariant == Spec => []IInv
BY InitIInv, NextIInv, PTL DEF Spec

(* What was handed out is a member of the group named with it.             *)
LEMMA Located ==
  ASSUME IInv, NEW q \in Requests, pc[q] = "answered"
  PROVE  /\ group[q] \in ToSet(snap[q].order)
         /\ target[q] \in ToSet(snap[q].members[group[q]])
<1>1. /\ snap[q] \in Snapshots /\ tried[q] \in SUBSET Models
      /\ states[q] \in SUBSET Models
      /\ cands[q] = Candidates(Input(snap[q], Sizes[q], tried[q], states[q]))
      /\ at[q] \in 1 .. Len(cands[q]) /\ target[q] = cands[q][at[q]].model
      /\ group[q] = Locate(snap[q], target[q])
  BY DEF IInv, Stages, StageOf, Begun, Composed, WorldType, HandlerType, InputOf
<1>2. target[q] \in AllMembers(snap[q])
  BY <1>1, CandidateFits
<1>. QED
  BY <1>1, <1>2, LocateType

(* Requests, handlers and reports keep their types, and the group named    *)
(* with a target is one of the snapshot's that has it (Compose, Locate).   *)
THEOREM TypeCorrect == Spec => []TypeOK
<1>1. IInv => TypeOK
  BY Located DEF IInv, TypeOK, WorldType, HandlerType, PCs, Candidate, Phases
<1>. QED
  BY <1>1, Invariant, PTL

(* What a request is about to be handed, or has been handed.               *)
LEMMA Handed ==
  ASSUME IInv, NEW q \in Requests, Composed(q), NEW i \in 1 .. Len(cands[q])
  PROVE  /\ cands[q][i].model \notin tried[q]
         /\ cands[q][i].model \notin cooled[q]
<1>1. /\ snap[q] \in Snapshots /\ tried[q] \in SUBSET Models
      /\ states[q] \in SUBSET Models
      /\ cands[q] = Candidates(Input(snap[q], Sizes[q], tried[q], states[q]))
      /\ cooled[q] \cap AllMembers(snap[q]) \subseteq states[q]
  BY DEF IInv, Stages, StageOf, Begun, Composed, WorldType, HandlerType, InputOf
<1>2. /\ cands[q][i].model \in AllMembers(snap[q])
      /\ cands[q][i].model \notin tried[q]
      /\ cands[q][i].model \notin states[q]
  BY <1>1, CandidateFits
<1>. QED
  BY <1>1, <1>2

(* No request is handed a target that has cooled since before its dispatch *)
(* began (Load, allMembers, unavailable).                                  *)
THEOREM CoolingIsRespected == Spec => []CoolingRespected
<1>1. IInv => CoolingRespected
  <2>. SUFFICES ASSUME IInv, NEW q \in Requests, pc[q] = "answered"
                PROVE  target[q] \notin cooled[q]
    BY DEF CoolingRespected
  <2>1. at[q] \in 1 .. Len(cands[q]) /\ target[q] = cands[q][at[q]].model
    BY DEF IInv, Stages, StageOf, HandlerType
  <2>. QED
    BY <2>1, Handed DEF Composed
<1>. QED
  BY <1>1, Invariant, PTL

(* Only a handler moves its request on, and it leaves "composed" by        *)
(* resolving a candidate or by running out of them.                        *)
LEMMA LeavesComposed ==
  ASSUME IInv, [Next]_vars, NEW q \in Requests, pc[q] = "composed", pc'[q] # "composed"
  PROVE  Resolve(q) \/ RunOut(q)
<1>0. WorldType /\ pc \in [Requests -> PCs]
  BY DEF IInv, WorldType
<1>1. CASE Elsewhere
  <2>1. pc' = pc
    BY <1>1 DEF Elsewhere, Report, EndCooling, Reconfigure, Disable, vars
  <2>. QED
    BY <2>1
<1>2. ASSUME NEW r \in Requests, Serve(r) \/ Call(r) PROVE Resolve(q) \/ RunOut(q)
  <2>1. CASE r = q
    BY <1>2, <2>1 DEF Serve, Call, FailQuery, Authenticate, Refuse, ReadSnapshot, LoadStates,
                      FailResolve, Succeed, Retry
  <2>2. CASE r # q
    <3>1. \/ \E step \in PCs : pc' = [pc EXCEPT ![r] = step]
          \/ pc' = pc
      BY <1>2 DEF Serve, Call, FailQuery, Authenticate, Refuse, ReadSnapshot, LoadStates,
                  Resolve, FailResolve, RunOut, Succeed, Retry, Goto, PCs, Ended
    <3>2. pc'[q] = pc[q]
      BY <1>0, <2>2, <3>1
    <3>. QED
      BY <3>2
  <2>. QED
    BY <2>1, <2>2
<1>. QED
  BY <1>1, <1>2 DEF Next, Elsewhere

(* No request is handed a target it has tried, whatever the configuration  *)
(* and the run state are when it comes back (tried_ids).                   *)
THEOREM TargetsAreNew == Spec => NeverTwice
<1>1. ASSUME IInv, [Next]_vars, NEW q \in Requests, pc[q] = "composed", pc'[q] = "answered"
      PROVE  target'[q] \notin tried[q]
  <2>0. WorldType /\ HandlerType
    BY <1>1 DEF IInv
  <2>1. Resolve(q)
    BY <1>1, <2>0, LeavesComposed DEF RunOut, Goto, WorldType
  <2>2. at[q] \in 1 .. Len(cands[q]) /\ target'[q] = cands[q][at[q]].model
    BY <2>0, <2>1 DEF Resolve, HandlerType
  <2>. QED
    BY <1>1, <2>2, Handed DEF Composed
<1>2. IInv /\ [Next]_vars
        => [\A q \in Requests : pc[q] = "composed" /\ pc'[q] = "answered"
                                 => target'[q] \notin tried[q]]_vars
  BY <1>1
<1>. QED
  BY <1>2, Invariant, PTL DEF Spec, NeverTwice

(* A request runs out of candidates only when every member of every group  *)
(* the strategy expands is unavailable or has failed to resolve (Compose,  *)
(* dispatch).                                                              *)
THEOREM UnavailableIsExhaustion == Spec => UnavailableOnlyWhenExhausted
<1>1. ASSUME IInv, [Next]_vars, NEW q \in Requests, pc[q] = "composed",
             pc'[q] = "unavailable"
      PROVE  Exhausted(q)
  <2>0. WorldType /\ HandlerType /\ StageOf(q)
    BY <1>1 DEF IInv, Stages
  <2>1. RunOut(q)
    BY <1>1, <2>0, LeavesComposed DEF Resolve, Goto, WorldType
  <2> DEFINE in == Input(snap[q], Sizes[q], tried[q], states[q])
             c == cands[q]
  <2>2. /\ snap[q] \in Snapshots /\ tried[q] \in SUBSET Models
        /\ states[q] \in SUBSET Models
        /\ c = Candidates(in)
        /\ at[q] \in Nat /\ at[q] > Len(c) /\ c \in Seq(Candidate)
    BY <1>1, <2>0, <2>1 DEF StageOf, Begun, Composed, WorldType, HandlerType, InputOf, RunOut
  <2>3. Promised(in, Models)
    BY <2>2, Composition
  <2>4. FailedToResolve(q) = {c[i].model : i \in 1 .. at[q] - 1}
    BY DEF FailedToResolve
  <2>5. 1 .. Len(c) \subseteq 1 .. at[q] - 1
    <3>1. Len(c) \in Nat
      BY <2>2
    <3> HIDE DEF c
    <3>. QED
      BY <2>2, <3>1
  <2>6. ASSUME NEW k \in 1 .. Len(Segments(in)),
               NEW g \in ToSet(Segments(in)[k].chain) \cap ToSet(in.order),
               NEW m \in ToSet(in.members[g])
        PROVE  Unavailable(in, m) \/ m \in FailedToResolve(q)
    <3> HIDE DEF in, c
    <3>1. Unavailable(in, m) \/ \E i \in 1 .. Len(c) : c[i].model = m
      BY <2>2, <2>3 DEF Promised
    <3>. QED
      BY <2>4, <2>5, <3>1
  <2>. QED
    BY <2>6 DEF Exhausted
<1>2. IInv /\ [Next]_vars
        => [\A q \in Requests : pc[q] = "composed" /\ pc'[q] = "unavailable"
                                 => Exhausted(q)]_vars
  BY <1>1
<1>. QED
  BY <1>2, Invariant, PTL DEF Spec, UnavailableOnlyWhenExhausted
=============================================================================
