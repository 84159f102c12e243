------------------------------ MODULE UserModels ------------------------------
(***************************************************************************)
(* A user model (src/backend/usermodel): the row that says which clients   *)
(* may call a name and for which collection, its cached copy, and the      *)
(* verdict Authenticate gives on either.  Operators create, change and     *)
(* delete the row and then delete the copy; callers read the copy, or load *)
(* the row and store it.  Nothing spans a load and its fill, or a write    *)
(* and its invalidation.                                                   *)
(*                                                                         *)
(* User models share neither rows nor cache keys, so one stands for all.   *)
(***************************************************************************)
EXTENDS Integers, FiniteSets

CONSTANTS
  Collections,  \* the names a collection may have
  Keys,         \* the keys a client may present
  Protocols,    \* inbound protocols
  AnyProtocol,  \* no protocol, in a row or in a call
  Rows,         \* the rows operators write
  Asks,         \* what callers present: a key and a protocol
  Absent,       \* row = Absent: there is no such user model
  NoEntry,      \* entry = NoEntry: its key is not in Redis
  NoVerdict,    \* verdict[c] = NoVerdict: the call has not been answered
  Admins,       \* operators at work at the same time
  Callers,      \* dispatches at work at the same time
  TTL,          \* the life of a cached copy; 0: it never expires
  MaxWrites,    \* bound on the committed writes
  MaxFaults     \* bound on failed calls of Redis and unreadable copies

RowType == [collection : Collections, key : Keys,
            protocol : Protocols \cup {AnyProtocol}, enabled : BOOLEAN]

ASSUME ConstantsAssumption ==
  /\ Rows \subseteq RowType
  /\ Asks \subseteq [key : Keys, protocol : Protocols \cup {AnyProtocol}]
  /\ Absent \notin RowType
  /\ NoEntry \notin RowType
  /\ Absent # NoEntry
  /\ TTL \in Nat
  /\ MaxWrites \in Nat
  /\ MaxFaults \in Nat

VARIABLES
  collections,  \* the collections that exist
  row,          \* the row of user_models
  writes,       \* the writes committed so far
  entry,        \* the value of the user model's key in Redis
  tainted,      \* history: stored by a load that a write overlapped, or kept
                \* by an invalidation that failed
  admin,        \* each operator: idle, or about to invalidate
  replaced,     \* history: the row its write replaced
  caller,       \* how far each call of Authenticate has come
  got,          \* the row it has, of the copy or of the table
  overlapped,   \* history: a write has been committed since it loaded
  doubtful,     \* history: the copy it has was tainted
  seen,         \* history: the rows there were since it began, and those
                \* whose replacement was yet to be invalidated then
  verdict,      \* what Authenticate answers, and to what
  faults        \* calls of Redis failed so far

vars == <<collections, row, writes, entry, tainted, admin, replaced, caller,
          got, overlapped, doubtful, seen, verdict, faults>>

db    == <<collections, row, writes>>
redis == <<entry, tainted>>
ops   == <<admin, replaced>>
call  == <<got, overlapped, doubtful, seen, verdict>>

VerdictType ==
  [ask : Asks, says : {"admitted", "not_found", "disabled", "unauthorized",
                       "invalid_request"}]

ASSUME VerdictAssumption == NoVerdict \notin VerdictType

Init ==
  /\ collections = Collections
  /\ row \in Rows \cup {Absent}
  /\ writes = 0
  /\ entry = NoEntry
  /\ tainted = FALSE
  /\ admin = [a \in Admins |-> "idle"]
  /\ replaced = [a \in Admins |-> Absent]
  /\ caller = [c \in Callers |-> "idle"]
  /\ got = [c \in Callers |-> Absent]
  /\ overlapped = [c \in Callers |-> FALSE]
  /\ doubtful = [c \in Callers |-> FALSE]
  /\ seen = [c \in Callers |-> {}]
  /\ verdict = [c \in Callers |-> NoVerdict]
  /\ faults = 0

-----------------------------------------------------------------------------
(* Operators.  A write that no constraint refuses is committed, in the     *)
(* middle of the calls under way.                                          *)

Calling(c) == caller[c] # "idle"

Write(v) ==
  /\ writes < MaxWrites
  /\ writes' = writes + 1
  /\ row' = v
  /\ overlapped' = [c \in Callers |-> overlapped[c] \/ caller[c] = "loaded"]
  /\ seen' = [c \in Callers |-> IF Calling(c) THEN seen[c] \cup {v} ELSE seen[c]]
  /\ UNCHANGED <<redis, caller, got, doubtful, verdict, faults>>

(* The write is to be followed by an invalidation.                         *)
Owe(a) ==
  /\ admin' = [admin EXCEPT ![a] = "written"]
  /\ replaced' = [replaced EXCEPT ![a] = row]

(* The primary key refuses a second row, the foreign key a collection that *)
(* does not exist.  Nothing is invalidated: NotFound is never cached.      *)
Create(v) ==
  /\ row = Absent
  /\ v.collection \in collections
  /\ Write(v)
  /\ UNCHANGED <<collections, ops>>

Update(a, v) ==
  /\ admin[a] = "idle"
  /\ row # Absent
  /\ v.collection \in collections
  /\ Write(v)
  /\ Owe(a)
  /\ UNCHANGED collections

(* Mutant: the copy of a row that is gone is left behind.                  *)
DeleteOnly(a) ==
  /\ admin[a] = "idle"
  /\ row # Absent
  /\ Write(Absent)
  /\ UNCHANGED <<collections, ops>>

Delete(a) ==
  /\ admin[a] = "idle"
  /\ row # Absent
  /\ Write(Absent)
  /\ Owe(a)
  /\ UNCHANGED collections

CreateCollection(k) ==
  /\ k \notin collections
  /\ writes < MaxWrites
  /\ writes' = writes + 1
  /\ collections' = collections \cup {k}
  /\ UNCHANGED <<row, redis, ops, caller, call, faults>>

(* Mutant: the row goes on naming a collection that is gone.               *)
DeleteCollectionAnyway(k) ==
  /\ k \in collections
  /\ writes < MaxWrites
  /\ writes' = writes + 1
  /\ collections' = collections \ {k}
  /\ UNCHANGED <<row, redis, ops, caller, call, faults>>

(* Conflict while a user model is bound to it (the foreign key again).     *)
DeleteCollection(k) ==
  /\ k \in collections
  /\ row # Absent => row.collection # k
  /\ writes < MaxWrites
  /\ writes' = writes + 1
  /\ collections' = collections \ {k}
  /\ UNCHANGED <<row, redis, ops, caller, call, faults>>

Drop == entry' = NoEntry /\ tainted' = FALSE

Settle(a) ==
  /\ admin[a] = "written"
  /\ admin' = [admin EXCEPT ![a] = "idle"]
  /\ replaced' = [replaced EXCEPT ![a] = Absent]
  /\ UNCHANGED <<db, caller, call>>

Invalidate(a) == Settle(a) /\ Drop /\ UNCHANGED faults

Fault == faults < MaxFaults /\ faults' = faults + 1

LoseInvalidation(a) ==
  /\ Settle(a)
  /\ Fault
  /\ tainted' = (entry # NoEntry)
  /\ UNCHANGED entry

-----------------------------------------------------------------------------
(* Authenticate, over Get and ReadThrough.                                 *)

Goto(c, step) == caller' = [caller EXCEPT ![c] = step]

Call(c) ==
  /\ caller[c] = "idle"
  /\ Goto(c, "called")
  /\ seen' = [seen EXCEPT ![c] =
                {row} \cup {replaced[a] : a \in {b \in Admins : admin[b] = "written"}}]
  /\ UNCHANGED <<db, redis, ops, got, overlapped, doubtful, verdict, faults>>

Hit(c) ==
  /\ caller[c] = "called"
  /\ entry # NoEntry
  /\ got' = [got EXCEPT ![c] = entry]
  /\ doubtful' = [doubtful EXCEPT ![c] = tainted]
  /\ Goto(c, "read")
  /\ UNCHANGED <<db, redis, ops, overlapped, seen, verdict, faults>>

(* No copy, or Redis does not answer.                                      *)
Miss(c) ==
  /\ caller[c] = "called"
  /\ IF entry = NoEntry THEN UNCHANGED faults ELSE Fault
  /\ Goto(c, "missed")
  /\ UNCHANGED <<db, redis, ops, call>>

(* A copy that cannot be decoded is deleted, and the row is loaded.        *)
Discard(c) ==
  /\ caller[c] = "called"
  /\ entry # NoEntry
  /\ Fault
  /\ Drop
  /\ Goto(c, "missed")
  /\ UNCHANGED <<db, ops, call>>

(* NotFound is not stored.                                                 *)
Load(c) ==
  /\ caller[c] = "missed"
  /\ got' = [got EXCEPT ![c] = row]
  /\ Goto(c, IF row = Absent THEN "read" ELSE "loaded")
  /\ UNCHANGED <<db, redis, ops, overlapped, doubtful, seen, verdict, faults>>

(* The copy holds the client's key, which a user model's own JSON does not.*)
Store(c) == entry' = got[c] /\ tainted' = overlapped[c]

Fill(c) ==
  /\ caller[c] = "loaded"
  /\ Store(c)
  /\ Goto(c, "read")
  /\ UNCHANGED <<db, ops, call, faults>>

(* Set returns an error: it may have stored the copy or not, and the Del   *)
(* that follows may work or fail too.                                      *)
FillFails(c) ==
  /\ caller[c] = "loaded"
  /\ Fault
  /\ Store(c) \/ Drop \/ UNCHANGED redis
  /\ Goto(c, "read")
  /\ UNCHANGED <<db, ops, call>>

Verdict(r, k) ==
  IF r = Absent THEN "not_found"
  ELSE IF ~r.enabled THEN "disabled"
  ELSE IF r.key # k.key THEN "unauthorized"
  ELSE IF AnyProtocol \notin {r.protocol, k.protocol} /\ r.protocol # k.protocol
       THEN "invalid_request"
  ELSE "admitted"

Answer(c, k) ==
  /\ caller[c] = "read"
  /\ verdict' = [verdict EXCEPT ![c] = [ask |-> k, says |-> Verdict(got[c], k)]]
  /\ Goto(c, "answered")
  /\ UNCHANGED <<db, redis, ops, got, overlapped, doubtful, seen, faults>>

(* The call has returned, or its query has failed.                         *)
Return(c) ==
  /\ caller[c] \in {"missed", "answered"}
  /\ Goto(c, "idle")
  /\ got' = [got EXCEPT ![c] = Absent]
  /\ overlapped' = [overlapped EXCEPT ![c] = FALSE]
  /\ doubtful' = [doubtful EXCEPT ![c] = FALSE]
  /\ seen' = [seen EXCEPT ![c] = {}]
  /\ verdict' = [verdict EXCEPT ![c] = NoVerdict]
  /\ UNCHANGED <<db, redis, ops, faults>>

(* Mutant: copies are stored without a TTL.                                *)
ExpireNever ==
  /\ entry # NoEntry
  /\ TTL < 0
  /\ Drop
  /\ UNCHANGED <<db, ops, caller, call, faults>>

Expire ==
  /\ entry # NoEntry
  /\ TTL > 0
  /\ Drop
  /\ UNCHANGED <<db, ops, caller, call, faults>>

-----------------------------------------------------------------------------
Operate(a) ==
  \/ \E v \in Rows : Update(a, v)
  \/ Delete(a) \/ Invalidate(a) \/ LoseInvalidation(a)

Advance(c) ==
  \/ Hit(c) \/ Miss(c) \/ Discard(c) \/ Load(c) \/ Fill(c) \/ FillFails(c)
  \/ Return(c) \/ \E k \in Asks : Answer(c, k)

Next ==
  \/ \E v \in Rows : Create(v)
  \/ \E a \in Admins : Operate(a)
  \/ \E k \in Collections : CreateCollection(k) \/ DeleteCollection(k)
  \/ \E c \in Callers : Call(c) \/ Advance(c)
  \/ Expire

Spec == Init /\ [][Next]_vars

(* An operator that has written goes on to invalidate, a call goes on, and *)
(* Redis drops keys whose time has passed.                                 *)
Fairness ==
  /\ \A a \in Admins : WF_vars(Invalidate(a) \/ LoseInvalidation(a))
  /\ \A c \in Callers : WF_vars(Advance(c))
  /\ WF_vars(Expire)

FairSpec == Spec /\ Fairness

-----------------------------------------------------------------------------
(* Rows, copy, operators and calls have their types, and a row is bound to *)
(* a collection that exists.                                               *)
TypeOK ==
  /\ collections \subseteq Collections
  /\ row \in Rows \cup {Absent}
  /\ row # Absent => row.collection \in collections
  /\ writes \in Nat
  /\ entry \in Rows \cup {NoEntry}
  /\ tainted \in BOOLEAN
  /\ admin \in [Admins -> {"idle", "written"}]
  /\ replaced \in [Admins -> Rows \cup {Absent}]
  /\ caller \in [Callers -> {"idle", "called", "missed", "loaded", "read", "answered"}]
  /\ got \in [Callers -> Rows \cup {Absent}]
  /\ \A c \in Callers : caller[c] = "loaded" => got[c] # Absent
  /\ overlapped \in [Callers -> BOOLEAN]
  /\ doubtful \in [Callers -> BOOLEAN]
  /\ seen \in [Callers -> SUBSET (Rows \cup {Absent})]
  /\ verdict \in [Callers -> VerdictType \cup {NoVerdict}]
  /\ faults \in Nat

(* A copy in no doubt is the row, or the row that an operator has replaced *)
(* and is about to invalidate.                                             *)
CopyAccounted ==
  entry # NoEntry /\ ~tainted =>
    entry = row \/ \E a \in Admins : admin[a] = "written" /\ replaced[a] = entry

(* What a call has, it has seen; what it loaded and no write overlapped is *)
(* the row still.                                                          *)
ReadsAccounted ==
  \A c \in Callers :
    /\ Calling(c) => row \in seen[c]
    /\ caller[c] = "called" =>
         \A a \in Admins : admin[a] = "written" => replaced[a] \in seen[c]
    /\ caller[c] \in {"loaded", "read", "answered"} /\ ~doubtful[c] => got[c] \in seen[c]
    /\ caller[c] = "loaded" /\ ~overlapped[c] => got[c] = row
    /\ verdict[c] # NoVerdict =>
         caller[c] = "answered" /\ verdict[c].says = Verdict(got[c], verdict[c].ask)

(* A client is admitted or refused as the row said at some moment of its   *)
(* call, or before a change that was not yet invalidated when it began: an *)
(* old key, a disabled name or a row that is gone is judged by afterwards  *)
(* only where a load overlapped the change or an invalidation failed       *)
(* (Update, Delete, Get, Authenticate), although Create invalidates        *)
(* nothing.                                                                *)
VerdictsOfTheTime ==
  \A c \in Callers : verdict[c] # NoVerdict /\ ~doubtful[c] =>
    \E r \in seen[c] : verdict[c].says = Verdict(r, verdict[c].ask)

(* Whatever fails or overlaps, once the changes stop, clients are judged   *)
(* by the row and not by an older copy: the TTL is the "last resort".      *)
EventuallyCurrent == <>[](entry # NoEntry => entry = row)
=============================================================================
