------------------------------ MODULE Dispatch ------------------------------
(***************************************************************************)
(* A request of the data plane on its way through the dispatcher           *)
(* (src/backend/dispatch): authenticate, read a snapshot of the collection,*)
(* load the run state of its members, compose, resolve the candidates one  *)
(* after the other until one resolves, answer.  The data plane calls the   *)
(* target, reports the outcome, and on a failure dispatches again with the *)
(* targets it has tried.  Reports are applied, coolings end and operators  *)
(* change the configuration while other requests are on their way: each    *)
(* step of a request reads what is there when it is taken.                 *)
(*                                                                         *)
(* The run state is the set of targets that cool (RunState has the rest),  *)
(* the configuration what Collections.Snapshot returns.                    *)
(***************************************************************************)
EXTENDS Integers, FiniteSets, Compose

CONSTANTS
  Models,      \* the model_id values
  Groups,      \* the names of groups
  Snapshots,   \* the snapshots a collection may have
  Requests,    \* the requests of the data plane
  Sizes,       \* est_tokens of each request
  NoSnapshot,  \* snap[q] = NoSnapshot: none has been read
  NoTarget,    \* target[q] = NoTarget: nothing was handed out yet
  MaxChanges   \* bound on what operators and time change

(* A snapshot: what Compose is given of it.                                *)
SnapshotType ==
  [order : Seq(Groups), members : [Groups -> Seq(Models)],
   chain : Seq(Groups), compact : Seq(Groups),
   overflow : BOOLEAN, threshold : Int,
   known : SUBSET Models, enabled : SUBSET Models]

ASSUME DispatchAssumption ==
  /\ Snapshots \subseteq SnapshotType
  /\ Sizes \in [Requests -> Int]
  /\ NoTarget \notin Models
  /\ MaxChanges \in Nat

VARIABLES
  config,    \* the collection's snapshot now
  admitted,  \* its user model is enabled and the client's key is right
  cooling,   \* the targets that cool
  changes,   \* changes of these by operators and time so far
  pc,        \* where each request is
  tried,     \* its tried_ids
  snap,      \* the snapshot it read
  states,    \* the members of it that cooled when it loaded the run state
  cands,     \* the candidates composed from these
  at,        \* the one it resolves next
  target,    \* the target it was handed
  group,     \* decision.group, the group named with it
  cooled,    \* history: targets that cool since before its dispatch began
  reports    \* external: outcomes the data plane has yet to report

vars == <<config, admitted, cooling, changes, pc, tried, snap, states, cands,
          at, target, group, cooled, reports>>

world   == <<config, admitted, changes>>
handler == <<snap, states, cands, at>>
answer  == <<target, group>>

(* allMembers: whose run state is loaded.                                  *)
MembersOf(s, groups) == UNION {ToSet(s.members[g]) : g \in ToSet(groups)}

AllMembers(s) == MembersOf(s, s.order)

(* The arguments compose passes on to strategy.Compose: what it read of    *)
(* the collection and of the run state, and the request's own.             *)
Input(s, size, tries, cools) ==
  [order |-> s.order, members |-> s.members, chain |-> s.chain,
   compact |-> s.compact, overflow |-> s.overflow, threshold |-> s.threshold,
   known |-> s.known, enabled |-> s.enabled,
   tokens |-> size, tried |-> tries, cooling |-> cools]

(* Mutant: a group is taken without a look at its members.                 *)
LocateFirst(s, m) == s.order[1]

(* Snapshot.Locate: the first group of the snapshot that has the target.   *)
Locate(s, m) ==
  s.order[SelectInSeq(s.order, LAMBDA g : m \in ToSet(s.members[g]))]

Init ==
  /\ config \in Snapshots
  /\ admitted = TRUE
  /\ cooling = {}
  /\ changes = 0
  /\ pc = [q \in Requests |-> "ready"]
  /\ tried = [q \in Requests |-> {}]
  /\ snap = [q \in Requests |-> NoSnapshot]
  /\ states = [q \in Requests |-> {}]
  /\ cands = [q \in Requests |-> <<>>]
  /\ at = [q \in Requests |-> 1]
  /\ target = [q \in Requests |-> NoTarget]
  /\ group = [q \in Requests |-> NoTarget]
  /\ cooled = [q \in Requests |-> {}]
  /\ reports = {}

-----------------------------------------------------------------------------
(* Service.dispatch.                                                       *)

(* The call has returned, and what it worked on is gone.                   *)
Forget(q) ==
  /\ snap' = [snap EXCEPT ![q] = NoSnapshot]
  /\ states' = [states EXCEPT ![q] = {}]
  /\ cands' = [cands EXCEPT ![q] = <<>>]
  /\ at' = [at EXCEPT ![q] = 1]
  /\ target' = [target EXCEPT ![q] = NoTarget]
  /\ group' = [group EXCEPT ![q] = NoTarget]
  /\ cooled' = [cooled EXCEPT ![q] = {}]

Goto(q, step) == pc' = [pc EXCEPT ![q] = step]

Authenticate(q) ==
  /\ pc[q] = "ready"
  /\ admitted
  /\ Goto(q, "authenticated")
  /\ cooled' = [cooled EXCEPT ![q] = cooling]
  /\ UNCHANGED <<world, cooling, tried, handler, answer, reports>>

(* 401, 403 or 404: there is no point in trying again.                     *)
Refuse(q) ==
  /\ pc[q] = "ready"
  /\ ~admitted
  /\ Goto(q, "refused")
  /\ UNCHANGED <<world, cooling, tried, handler, answer, cooled, reports>>

ReadSnapshot(q) ==
  /\ pc[q] = "authenticated"
  /\ snap' = [snap EXCEPT ![q] = config]
  /\ Goto(q, "snapshot")
  /\ UNCHANGED <<world, cooling, tried, states, cands, at, answer, cooled, reports>>

(* RunStates.Load, one query for the members of the snapshot, and Compose, *)
(* which waits for nothing.                                                *)
ComposeFrom(q, cools, tries) ==
  /\ states' = [states EXCEPT ![q] = cools]
  /\ cands' = [cands EXCEPT ![q] = Candidates(Input(snap[q], Sizes[q], tries, cools))]
  /\ at' = [at EXCEPT ![q] = 1]

(* Mutants: the states of the members the priority chain can reach only;   *)
(* the tried_ids are not passed on.                                        *)
LoadStatesOfChain(q) ==
  /\ pc[q] = "snapshot"
  /\ ComposeFrom(q, cooling \cap MembersOf(snap[q], snap[q].chain), tried[q])
  /\ Goto(q, "composed")
  /\ UNCHANGED <<world, cooling, tried, snap, answer, cooled, reports>>

LoadStatesWithoutTried(q) ==
  /\ pc[q] = "snapshot"
  /\ ComposeFrom(q, cooling \cap AllMembers(snap[q]), {})
  /\ Goto(q, "composed")
  /\ UNCHANGED <<world, cooling, tried, snap, answer, cooled, reports>>

LoadStates(q) ==
  /\ pc[q] = "snapshot"
  /\ ComposeFrom(q, cooling \cap AllMembers(snap[q]), tried[q])
  /\ Goto(q, "composed")
  /\ UNCHANGED <<world, cooling, tried, snap, answer, cooled, reports>>

(* A query fails, and the call with it: 500.                               *)
FailQuery(q) ==
  /\ pc[q] \in {"ready", "authenticated", "snapshot"}
  /\ Goto(q, "error")
  /\ Forget(q)
  /\ UNCHANGED <<world, cooling, tried, reports>>

Resolve(q) ==
  /\ pc[q] = "composed"
  /\ at[q] <= Len(cands[q])
  /\ LET m == cands[q][at[q]].model
     IN  /\ target' = [target EXCEPT ![q] = m]
         /\ group' = [group EXCEPT ![q] = Locate(snap[q], m)]
  /\ Goto(q, "answered")
  /\ UNCHANGED <<world, cooling, tried, handler, cooled, reports>>

(* Mutants: the first failure ends the dispatch; the same candidate is     *)
(* tried again.                                                            *)
FailResolveAndEnd(q) ==
  /\ pc[q] = "composed"
  /\ at[q] <= Len(cands[q])
  /\ Goto(q, "unavailable")
  /\ Forget(q)
  /\ UNCHANGED <<world, cooling, tried, reports>>

FailResolveAndRepeat(q) ==
  /\ pc[q] = "composed"
  /\ at[q] <= Len(cands[q])
  /\ at' = [at EXCEPT ![q] = IF @ < Len(cands[q]) THEN @ + 1 ELSE 1]
  /\ UNCHANGED <<world, cooling, pc, tried, snap, states, cands, answer, cooled, reports>>

FailResolve(q) ==
  /\ pc[q] = "composed"
  /\ at[q] <= Len(cands[q])
  /\ at' = [at EXCEPT ![q] = @ + 1]
  /\ UNCHANGED <<world, cooling, pc, tried, snap, states, cands, answer, cooled, reports>>

(* 503, with no candidate or with none left.                               *)
RunOut(q) ==
  /\ pc[q] = "composed"
  /\ at[q] > Len(cands[q])
  /\ Goto(q, "unavailable")
  /\ Forget(q)
  /\ UNCHANGED <<world, cooling, tried, reports>>

-----------------------------------------------------------------------------
(* The data plane: it calls the target.  Whatever the outcome, it reports  *)
(* it, soon or late; if it was a failure it dispatches again.  A report of *)
(* a neutral outcome changes nothing and is left out.                      *)
Succeed(q) ==
  /\ pc[q] = "answered"
  /\ Goto(q, "served")
  /\ reports' = reports \cup {[from |-> q, model |-> target[q], outcome |-> "normal"]}
  /\ Forget(q)
  /\ UNCHANGED <<world, cooling, tried>>

Retry(q) ==
  /\ pc[q] = "answered"
  /\ Goto(q, "ready")
  /\ tried' = [tried EXCEPT ![q] = @ \cup {target[q]}]
  /\ \/ reports' = reports \cup {[from |-> q, model |-> target[q], outcome |-> "abnormal"]}
     \/ UNCHANGED reports
  /\ Forget(q)
  /\ UNCHANGED <<world, cooling>>

(* What cools no longer is no longer cooled throughout a dispatch.         *)
Warm(m) ==
  /\ cooling' = cooling \ {m}
  /\ cooled' = [q \in Requests |-> cooled[q] \ {m}]

(* Service.Report: a success ends the cooling, a failure may start one.    *)
Report(rep) ==
  /\ reports' = reports \ {rep}
  /\ CASE rep.outcome = "normal"   -> Warm(rep.model)
       [] rep.outcome = "abnormal" -> /\ cooling' \in {cooling, cooling \cup {rep.model}}
                                      /\ UNCHANGED cooled
  /\ UNCHANGED <<world, pc, tried, handler, answer>>

(* A cooling runs out, or an operator resets the target.                   *)
EndCooling(m) ==
  /\ m \in cooling
  /\ changes < MaxChanges
  /\ changes' = changes + 1
  /\ Warm(m)
  /\ UNCHANGED <<config, admitted, pc, tried, handler, answer, reports>>

(* An operator changes the collection, or the user model.                  *)
Reconfigure(s) ==
  /\ s # config
  /\ changes < MaxChanges
  /\ changes' = changes + 1
  /\ config' = s
  /\ UNCHANGED <<admitted, cooling, pc, tried, handler, answer, cooled, reports>>

Disable ==
  /\ admitted
  /\ changes < MaxChanges
  /\ changes' = changes + 1
  /\ admitted' = FALSE
  /\ UNCHANGED <<config, cooling, pc, tried, handler, answer, cooled, reports>>

-----------------------------------------------------------------------------
Serve(q) ==
  \/ FailQuery(q) \/ Authenticate(q) \/ Refuse(q) \/ ReadSnapshot(q)
  \/ LoadStates(q) \/ Resolve(q) \/ FailResolve(q) \/ RunOut(q)

Call(q) == Succeed(q) \/ Retry(q)

Next ==
  \/ \E q \in Requests : Serve(q) \/ Call(q)
  \/ \E rep \in reports : Report(rep)
  \/ \E m \in Models : EndCooling(m)
  \/ \E s \in Snapshots : Reconfigure(s)
  \/ Disable

Spec == Init /\ [][Next]_vars

(* A handler goes on, and the data plane calls the target it was given.    *)
(* No report need ever arrive.                                             *)
Fairness == \A q \in Requests : WF_vars(Serve(q)) /\ WF_vars(Call(q))

FairSpec == Spec /\ Fairness

-----------------------------------------------------------------------------
Ended == {"served", "refused", "unavailable", "error"}

(* Requests and the run state have their types; what was handed out is a   *)
(* member, in the snapshot it was chosen from, of the group named with it. *)
TypeOK ==
  /\ config \in Snapshots
  /\ admitted \in BOOLEAN
  /\ cooling \subseteq Models
  /\ changes \in Nat
  /\ pc \in [Requests -> {"ready", "authenticated", "snapshot", "composed",
                          "answered"} \cup Ended]
  /\ tried \in [Requests -> SUBSET Models]
  /\ snap \in [Requests -> Snapshots \cup {NoSnapshot}]
  /\ states \in [Requests -> SUBSET Models]
  /\ cands \in [Requests -> Seq([model : Models, phase : {"standard", "compact", "resume"}])]
  /\ at \in [Requests -> Nat \ {0}]
  /\ target \in [Requests -> Models \cup {NoTarget}]
  /\ group \in [Requests -> Groups \cup {NoTarget}]
  /\ cooled \in [Requests -> SUBSET Models]
  /\ reports \subseteq [from : Requests, model : Models,
                        outcome : {"normal", "abnormal"}]
  /\ \A q \in Requests : pc[q] = "answered" =>
       /\ group[q] \in ToSet(snap[q].order)
       /\ target[q] \in ToSet(snap[q].members[group[q]])

(* A request is never handed a target it has tried, however the order of   *)
(* the groups, the strategy or the run state change between its dispatches *)
(* (tried_ids).                                                            *)
NeverTwice ==
  [][\A q \in Requests : pc[q] = "composed" /\ pc'[q] = "answered"
                           => target'[q] \notin tried[q]]_vars

(* No request is handed a target that was cooling when its dispatch began  *)
(* and has cooled ever since: a cooling that one request caused holds for  *)
(* the next dispatch of every other, in both segments (Load, allMembers).  *)
CoolingRespected ==
  \A q \in Requests : pc[q] = "answered" => target[q] \notin cooled[q]

(* 503 is answered only when every member of every group the strategy      *)
(* expands was unavailable as the dispatch saw it, or failed to resolve.   *)
FailedToResolve(q) == {cands[q][i].model : i \in 1 .. at[q] - 1}

Exhausted(q) ==
  LET in == Input(snap[q], Sizes[q], tried[q], states[q])
  IN  \A k \in 1 .. Len(Segments(in)) :
        \A g \in ToSet(Segments(in)[k].chain) \cap ToSet(in.order) :
          \A m \in ToSet(in.members[g]) : Unavailable(in, m) \/ m \in FailedToResolve(q)

UnavailableOnlyWhenExhausted ==
  [][\A q \in Requests : pc[q] = "composed" /\ pc'[q] = "unavailable"
                           => Exhausted(q)]_vars

(* Every request ends, served or not, though every target may fail it and  *)
(* every candidate may fail to resolve: it runs out of targets to try.     *)
EveryRequestEnds == \A q \in Requests : <>(pc[q] \in Ended)
=============================================================================
