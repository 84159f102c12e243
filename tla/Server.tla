-------------------------------- MODULE Server --------------------------------
(***************************************************************************)
(* The life of the process (src/backend/cmd/server): it loads its          *)
(* configuration, opens PostgreSQL and brings the schema up to date,       *)
(* serves two planes with a key each, and on a signal stops listening,     *)
(* waits up to a grace period for the requests under way, and then closes  *)
(* Redis and the connections to PostgreSQL, in the order of its defers.    *)
(* A request is seen by what it needs of the process: a connection for its *)
(* statement, Redis for the invalidation after a write, and the time to    *)
(* answer.                                                                 *)
(***************************************************************************)
EXTENDS Integers, FiniteSets

CONSTANTS
  Requests,   \* requests that arrive in the life of the process
  Plane,      \* the plane of each: dispatch or admin
  Presents,   \* the key it presents
  Writes,     \* the requests that change rows that are cached
  Keys,       \* the keys there are
  NoKey,      \* no key, where one is configured or presented
  Configs     \* the configurations it may find

Planes == {"dispatch", "admin"}

ConfigType == [complete : BOOLEAN, cache : BOOLEAN, key : [Planes -> Keys \cup {NoKey}]]

ASSUME ServerAssumption ==
  /\ Plane \in [Requests -> Planes]
  /\ Presents \in [Requests -> Keys \cup {NoKey}]
  /\ Writes \subseteq Requests
  /\ NoKey \notin Keys
  /\ Configs \subseteq ConfigType

VARIABLES
  config,     \* the environment
  phase,      \* how far run has come
  signalled,  \* SIGINT or SIGTERM has been received
  listener,   \* the listening socket
  pool,       \* the connections to PostgreSQL
  redis,      \* the client of Redis
  req,        \* how far each request has come
  served,     \* history: the requests that passed requireBearer
  lost,       \* history: the writes whose invalidation found Redis closed
  expired     \* history: the grace period has run out

serverVars == <<config, phase, signalled, listener, pool, redis, req, served, lost, expired>>

handlers == <<req, served, lost>>

ServerInit ==
  /\ config \in Configs
  /\ phase = "load"
  /\ signalled = FALSE
  /\ listener = "none"
  /\ pool = "none"
  /\ redis = "none"
  /\ req = [h \in Requests |-> "out"]
  /\ served = {}
  /\ lost = {}
  /\ expired = FALSE

-----------------------------------------------------------------------------
(* The process.                                                            *)

To(p) == phase' = p /\ UNCHANGED <<config, signalled>>

(* Mutant: the two planes may have one key.                                *)
AcceptableComplete(c) ==
  c.complete /\ c.key["dispatch"] # NoKey /\ c.key["admin"] # NoKey

(* config.Load: nothing required is missing, and the keys differ.          *)
Acceptable(c) ==
  /\ c.complete
  /\ \A p \in Planes : c.key[p] # NoKey
  /\ c.key["dispatch"] # c.key["admin"]

Load ==
  /\ phase = "load"
  /\ To(IF Acceptable(config) THEN "open" ELSE "exited")
  /\ UNCHANGED <<listener, pool, redis, handlers, expired>>

(* From here on a signal is caught, and cancels the opening.               *)
Signal ==
  /\ phase \notin {"load", "exited"}
  /\ signalled' = TRUE
  /\ UNCHANGED <<config, phase, listener, pool, redis, handlers, expired>>

Open ==
  /\ phase = "open"
  /\ pool = "none"
  /\ pool' = "open"
  /\ UNCHANGED <<config, phase, signalled, listener, redis, handlers, expired>>

(* Mutant: a pool of no use is left behind.                                *)
OpenFailsOnly ==
  /\ phase = "open"
  /\ To("exited")
  /\ UNCHANGED <<listener, pool, redis, handlers, expired>>

(* The pool cannot be made, or PostgreSQL does not answer, or refuses the  *)
(* schema: the pool is closed again.                                       *)
OpenFails ==
  /\ phase = "open"
  /\ To("exited")
  /\ pool' = IF pool = "open" THEN "closed" ELSE pool
  /\ UNCHANGED <<listener, redis, handlers, expired>>

(* The schema is up to date, and all is put together.                      *)
Assemble ==
  /\ phase = "open"
  /\ pool = "open"
  /\ To("serve")
  /\ redis' = IF config.cache THEN "open" ELSE "none"
  /\ UNCHANGED <<listener, pool, handlers, expired>>

Listen ==
  /\ phase = "serve"
  /\ listener = "none"
  /\ listener' = "open"
  /\ UNCHANGED <<config, phase, signalled, pool, redis, handlers, expired>>

(* The address is taken, or accepting fails later on.                      *)
ListenFails ==
  /\ phase = "serve"
  /\ listener \in {"none", "open"}
  /\ listener' = "failed"
  /\ UNCHANGED <<config, phase, signalled, pool, redis, handlers, expired>>

(* Then run returns with the error and does not wait for the requests.     *)
GiveUp ==
  /\ phase = "serve"
  /\ listener = "failed"
  /\ To("closeRedis")
  /\ UNCHANGED <<listener, pool, redis, handlers, expired>>

(* Mutant: run returns at once, and the defers close Redis and the pool.   *)
ShutdownAtOnce ==
  /\ phase = "serve"
  /\ signalled
  /\ To("closeRedis")
  /\ listener' = IF listener = "open" THEN "closed" ELSE listener
  /\ UNCHANGED <<pool, redis, handlers, expired>>

Shutdown ==
  /\ phase = "serve"
  /\ signalled
  /\ To("drain")
  /\ listener' = IF listener = "open" THEN "closed" ELSE listener
  /\ UNCHANGED <<pool, redis, handlers, expired>>

Finished == {"out", "refused", "answered"}

UnderWay == {h \in Requests : req[h] \notin Finished}

Drained ==
  /\ phase = "drain"
  /\ UnderWay = {}
  /\ To("closeRedis")
  /\ UNCHANGED <<listener, pool, redis, handlers, expired>>

(* Mutant: Shutdown is given no deadline.                                  *)
ExpireNever == FALSE /\ UNCHANGED serverVars

(* The grace period ends with requests under way.  They go on.             *)
Expire ==
  /\ phase = "drain"
  /\ UnderWay # {}
  /\ expired' = TRUE
  /\ To("closeRedis")
  /\ UNCHANGED <<listener, pool, redis, handlers>>

CloseRedis ==
  /\ phase = "closeRedis"
  /\ To("closePool")
  /\ redis' = IF redis = "open" THEN "closed" ELSE redis
  /\ pool' = "closing"
  /\ UNCHANGED <<listener, handlers, expired>>

(* Mutant: the pool is closed under the statements that run.               *)
ClosePoolNow ==
  /\ phase = "closePool"
  /\ pool' = "closed"
  /\ To("exited")
  /\ UNCHANGED <<listener, redis, handlers, expired>>

(* Once every connection has been given back, the process exits, whatever  *)
(* else is under way.                                                      *)
ClosePool ==
  /\ phase = "closePool"
  /\ \A h \in Requests : req[h] # "querying"
  /\ pool' = "closed"
  /\ To("exited")
  /\ UNCHANGED <<listener, redis, handlers, expired>>

-----------------------------------------------------------------------------
(* A request.                                                              *)

Goto(h, step) ==
  /\ phase # "exited"
  /\ req' = [req EXCEPT ![h] = step]
  /\ UNCHANGED <<config, phase, signalled, listener, pool, redis, expired>>

Accept(h) ==
  /\ req[h] = "out"
  /\ listener = "open"
  /\ Goto(h, "accepted")
  /\ UNCHANGED <<served, lost>>

(* keyMatches: a key that is not configured opens nothing.                 *)
Matches(h) == Presents[h] # NoKey /\ Presents[h] = config.key[Plane[h]]

Admit(h) ==
  /\ req[h] = "accepted"
  /\ Matches(h)
  /\ served' = served \cup {h}
  /\ Goto(h, "admitted")
  /\ UNCHANGED lost

Refuse(h) ==
  /\ req[h] = "accepted"
  /\ ~Matches(h)
  /\ Goto(h, "refused")
  /\ UNCHANGED <<served, lost>>

(* The statement runs on a connection of the pool, which a pool that is    *)
(* being closed does not give out.                                         *)
Query(h) ==
  /\ req[h] = "admitted"
  /\ Goto(h, IF pool = "open" THEN "querying" ELSE "answering")
  /\ UNCHANGED <<served, lost>>

(* It has been executed, or has failed; the connection is given back.      *)
Return(h) ==
  /\ req[h] = "querying"
  /\ \/ h \in Writes /\ Goto(h, "written")
     \/ Goto(h, "answering")
  /\ UNCHANGED <<served, lost>>

(* An error of Redis is not reported.                                      *)
Invalidate(h) ==
  /\ req[h] = "written"
  /\ lost' = IF redis = "closed" THEN lost \cup {h} ELSE lost
  /\ Goto(h, "answering")
  /\ UNCHANGED served

AnswerRequest(h) ==
  /\ req[h] = "answering"
  /\ Goto(h, "answered")
  /\ UNCHANGED <<served, lost>>

-----------------------------------------------------------------------------
Run ==
  \/ Load \/ Open \/ OpenFails \/ Assemble \/ GiveUp
  \/ Shutdown \/ Drained \/ Expire \/ CloseRedis \/ ClosePool

Handle(h) ==
  \/ Accept(h) \/ Admit(h) \/ Refuse(h) \/ Query(h) \/ Return(h)
  \/ Invalidate(h) \/ AnswerRequest(h)

ServerNext == Run \/ Signal \/ Listen \/ ListenFails \/ \E h \in Requests : Handle(h)

ServerSpec == ServerInit /\ [][ServerNext]_serverVars

(* run goes on, and statements end.  Nothing is assumed of the rest of a   *)
(* request: its upstream may never answer.                                 *)
FairSpec == ServerSpec /\ WF_serverVars(Run) /\ \A h \in Requests : WF_serverVars(Return(h))

-----------------------------------------------------------------------------
(* The process and its requests have their types, and what is open goes    *)
(* with the phase.                                                         *)
ServerTypeOK ==
  /\ config \in Configs
  /\ phase \in {"load", "open", "serve", "drain", "closeRedis", "closePool", "exited"}
  /\ signalled \in BOOLEAN
  /\ listener \in {"none", "open", "failed", "closed"}
  /\ pool \in {"none", "open", "closing", "closed"}
  /\ redis \in {"none", "open", "closed"}
  /\ req \in [Requests -> {"out", "accepted", "admitted", "refused", "querying",
                           "written", "answering", "answered"}]
  /\ served \subseteq Requests
  /\ lost \subseteq Requests
  /\ expired \in BOOLEAN
  /\ phase = "load" => pool = "none"
  /\ phase = "open" => pool \in {"none", "open"}
  /\ phase \in {"serve", "drain", "closeRedis"} => pool = "open"
  /\ phase = "exited" => pool \in {"none", "closed"}

(* What stops the process early: it outlived the grace period, or could    *)
(* not listen.                                                             *)
Hasty == expired \/ listener = "failed"

(* A request is cut off, and the invalidation after a write lost, only     *)
(* when the grace period ran out or the listener failed: otherwise every   *)
(* request that was accepted is answered, with Redis there for it (run:    *)
(* Shutdown before the defers, and their order).                           *)
LostOnlyInHaste ==
  lost # {} \/ (phase = "exited" /\ UnderWay # {}) => Hasty

(* Even so the process does not end in the middle of a statement: a write  *)
(* is executed or it is not (Store.Close waits for the connections).       *)
NoStatementCutOff == phase = "exited" => \A h \in Requests : req[h] # "querying"

(* No key opens both planes (Load, requireBearer, keyMatches).             *)
PlanesIsolated == \A g, h \in served : Presents[g] = Presents[h] => Plane[g] = Plane[h]

(* A process that is told to stop does, whatever its requests are waiting  *)
(* for, as long as its statements end.                                     *)
StopsWhenTold == signalled ~> phase = "exited"
=============================================================================
