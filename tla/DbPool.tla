-------------------------------- MODULE DbPool --------------------------------
(***************************************************************************)
(* The connection pool of libs/db (create_async_engine: pool_size,         *)
(* max_overflow, pool_pre_ping) and who uses it: the lifespan of main.py,  *)
(* GET /health, which asks S3 as well, and POST /mask, whose session keeps *)
(* its connection from the policy lookup through fetch and upload until    *)
(* the session is closed.                                                  *)
(*                                                                         *)
(* The database stops and comes back; a connection knows the database      *)
(* generation it was opened in and is dead in any other.                   *)
(***************************************************************************)
EXTENDS Naturals, FiniteSets

CONSTANTS
  Masks,      \* POST /mask requests
  Probes,     \* GET /health requests
  Startup,    \* the lifespan of main.py
  Slots,      \* connections the pool may have: pool_size + max_overflow
  PoolSize,   \* pool_size: idle connections it keeps
  Closed,     \* a slot without an open connection
  Nobody,     \* a slot nobody has checked out
  MaxRestarts \* bound: restarts of the database

ASSUME PoolAssumption ==
  /\ Masks \cap Probes = {} /\ Startup \notin Masks \cup Probes
  /\ Nobody \notin Masks \cup Probes \cup {Startup}
  /\ IsFiniteSet(Slots)
  /\ PoolSize \in Nat /\ MaxRestarts \in Nat
  /\ Closed \notin Nat

Users == Masks \cup Probes \cup {Startup}

VARIABLES
  up,         \* the database accepts connections and queries
  generation, \* its restarts so far
  conn,       \* slot -> generation its connection was opened in, or Closed
  holder,     \* slot -> who has checked it out, or Nobody
  at,         \* where each user is
  orphans,    \* requests whose session is left to the finalizer of its generator
  found,      \* the components each probe has found healthy
  met,        \* history: how each probe has seen the database and the pool
  hit         \* history: who has met an outage since it asked for a connection

vars == <<up, generation, conn, holder, at, orphans, found, met, hit>>
health == <<found, met>>

Init ==
  /\ up \in BOOLEAN
  /\ generation = 0
  /\ conn = [s \in Slots |-> Closed]
  /\ holder = [s \in Slots |-> Nobody]
  /\ at = [u \in Users |-> "new"]
  /\ orphans = {}
  /\ found = [p \in Probes |-> {}]
  /\ met = [p \in Probes |-> {}]
  /\ hit = {}

(* Who is past its query, or does not come to it, has its outage behind it. *)
Goto(u, place) ==
  /\ at' = [at EXCEPT ![u] = place]
  /\ hit' = IF place \in {"asking", "querying"} THEN hit ELSE hit \ {u}

(* From now on each probe under way has met this. *)
Meet(condition) ==
  met' = [p \in Probes |-> IF at[p] \in {"new", "done"} THEN met[p] ELSE met[p] \cup {condition}]

Free == { s \in Slots : holder[s] = Nobody }
Idle == { s \in Free : conn[s] # Closed }
Held(u) == { s \in Slots : holder[s] = u }

(* The pool hands out an idle connection while it has one. *)
Offered == IF Idle # {} THEN Idle ELSE Free

(* Returned to the pool: kept if it is alive and fits pool_size. *)
GiveBack(s) ==
  /\ holder' = [holder EXCEPT ![s] = Nobody]
  /\ conn' = [conn EXCEPT ![s] =
                IF up /\ @ = generation /\ Cardinality(Idle) < PoolSize THEN @ ELSE Closed]

-----------------------------------------------------------------------------
(* session.get begins a transaction, engine.connect() a connection: both ask
   the pool.  Requests come once the lifespan has yielded. *)
Ask(u) ==
  /\ at[u] = "new"
  /\ u = Startup \/ at[Startup] = "done"
  /\ at' = [at EXCEPT ![u] = "asking"]
  /\ hit' = IF up THEN hit ELSE hit \cup {u}
  /\ met' = [p \in Probes |->
               IF p # u THEN met[p] ELSE {IF up THEN "database up" ELSE "database down"}]
  /\ UNCHANGED <<up, generation, conn, holder, orphans, found>>

(* Slip: one session for all requests, and so one connection. *)
CheckoutShared(u) ==
  /\ at[u] = "asking"
  /\ up
  /\ \E s \in Slots :
       /\ holder' = [holder EXCEPT ![s] = u]
       /\ conn' = [conn EXCEPT ![s] = generation]
  /\ Goto(u, "querying")
  /\ UNCHANGED <<up, generation, orphans, health>>

(* Slip: pool_pre_ping left at its default. *)
CheckoutWithoutPing(u) ==
  /\ at[u] = "asking"
  /\ up
  /\ \E s \in Offered :
       /\ holder' = [holder EXCEPT ![s] = u]
       /\ conn' = [conn EXCEPT ![s] = IF @ = Closed THEN generation ELSE @]
  /\ Goto(u, "querying")
  /\ UNCHANGED <<up, generation, orphans, health>>

(* The ping finds the connection alive, or it is opened anew. *)
Checkout(u) ==
  /\ at[u] = "asking"
  /\ up
  /\ \E s \in Offered :
       /\ holder' = [holder EXCEPT ![s] = u]
       /\ conn' = [conn EXCEPT ![s] = generation]
  /\ Goto(u, "querying")
  /\ UNCHANGED <<up, generation, orphans, health>>

(* Where an exception takes a user: connect() is tried once and its failure
   logged, health_check returns False, get_session has a session to close. *)
AfterFailure(u) ==
  IF u \in Masks THEN "raising" ELSE IF u \in Probes THEN "asking_s3" ELSE "done"

ConnectFails(u) ==
  /\ at[u] = "asking"
  /\ ~up
  /\ \E s \in Offered : conn' = [conn EXCEPT ![s] = Closed]
  /\ Goto(u, AfterFailure(u))
  /\ UNCHANGED <<up, generation, holder, orphans, health>>

(* Slip: who gets no connection in time asks again. *)
PoolTimeoutRetried(u) ==
  /\ at[u] = "asking"
  /\ Free = {}
  /\ UNCHANGED vars

(* pool_timeout passes without a connection coming back. *)
PoolTimeout(u) ==
  /\ at[u] = "asking"
  /\ Free = {}
  /\ Goto(u, AfterFailure(u))
  /\ Meet("pool full")
  /\ UNCHANGED <<up, generation, conn, holder, orphans, found>>

(* SELECT of the policy, or SELECT 1. *)
QueryOk(u) ==
  /\ at[u] = "querying"
  /\ up
  /\ \A s \in Held(u) : conn[s] = generation
  /\ Goto(u, IF u \in Masks THEN "working" ELSE "closing")
  /\ UNCHANGED <<up, generation, conn, holder, orphans, health>>

(* The connection turns out dead, and the pool invalidates it at once. *)
QueryFails(u) ==
  /\ at[u] = "querying"
  /\ \E s \in Held(u) :
       /\ ~up \/ conn[s] # generation
       /\ conn' = [conn EXCEPT ![s] = Closed]
       /\ holder' = [holder EXCEPT ![s] = Nobody]
  /\ Goto(u, AfterFailure(u))
  /\ UNCHANGED <<up, generation, orphans, health>>

(* The database refuses the statement: the connection stays good. *)
QueryRaises(m) ==
  /\ m \in Masks
  /\ at[m] = "querying"
  /\ up
  /\ Goto(m, "raising")
  /\ UNCHANGED <<up, generation, conn, holder, orphans, health>>

(* The rest of MaskPipelineService.run, with the connection in hand: it
   answers, or a policy, the fetch, the masking or S3 makes it raise. *)
WorkDone(m) ==
  /\ m \in Masks
  /\ at[m] = "working"
  /\ Goto(m, "responding") \/ Goto(m, "raising")
  /\ UNCHANGED <<up, generation, conn, holder, orphans, health>>

(* FastAPI leaves the dependencies after it has sent the response. *)
Respond(m) ==
  /\ at[m] = "responding"
  /\ Goto(m, "closing")
  /\ UNCHANGED <<up, generation, conn, holder, orphans, health>>

(* `async with` ends: of db.get_session, connect or health_check, which then
   returns True. *)
Close(u) ==
  /\ at[u] = "closing"
  /\ \E s \in Held(u) : GiveBack(s)
  /\ Goto(u, IF u \in Probes THEN "asking_s3" ELSE "done")
  /\ found' = [p \in Probes |-> IF p = u THEN {"database"} ELSE found[p]]
  /\ UNCHANGED <<up, generation, orphans, met>>

(* s3.health_check: head_bucket answers in time, or raises. *)
CheckBucket(p) ==
  /\ p \in Probes
  /\ at[p] = "asking_s3"
  /\ found' \in {found, [found EXCEPT ![p] = @ \cup {"s3"}]}
  /\ Goto(p, "done")
  /\ UNCHANGED <<up, generation, conn, holder, orphans, met>>

(* Slip: `or`. *)
HealthStatusOfAny(p) == IF found[p] # {} THEN 200 ELSE 503

HealthStatus(p) == IF found[p] = {"database", "s3"} THEN 200 ELSE 503

(* The exception is thrown into the get_session of deps.py, at the yield inside
   its `async for`: db.get_session is not resumed but left suspended, for the
   event loop to close.  The error response does not wait for that. *)
Throw(m) ==
  /\ at[m] = "raising"
  /\ orphans' = orphans \cup {m}
  /\ Goto(m, "done")
  /\ UNCHANGED <<up, generation, conn, holder, health>>

(* Slip: the session is not in an `async with`, so closing the generator does
   not close it. *)
FinalizeWithoutClose(m) ==
  /\ m \in orphans
  /\ orphans' = orphans \ {m}
  /\ UNCHANGED <<up, generation, conn, holder, at, health, hit>>

(* The event loop closes the suspended generator, and that the session. *)
Finalize(m) ==
  /\ m \in orphans
  /\ orphans' = orphans \ {m}
  /\ IF Held(m) = {} THEN UNCHANGED <<conn, holder>> ELSE \E s \in Held(m) : GiveBack(s)
  /\ UNCHANGED <<up, generation, at, health, hit>>

DatabaseStops ==
  /\ up
  /\ up' = FALSE
  /\ Meet("database down")
  /\ hit' = { u \in Users : at[u] \in {"asking", "querying"} }
  /\ UNCHANGED <<generation, conn, holder, at, orphans, found>>

DatabaseStarts ==
  /\ ~up
  /\ generation < MaxRestarts
  /\ up' = TRUE
  /\ generation' = generation + 1
  /\ Meet("database up")
  /\ UNCHANGED <<conn, holder, at, orphans, found, hit>>

(* The lifespan after its yield: uvicorn has let every request end, and
   db.disconnect disposes of the pool's idle connections. *)
Shutdown ==
  /\ at[Startup] = "done"
  /\ \A u \in Masks \cup Probes : at[u] \in {"new", "done"}
  /\ Goto(Startup, "stopped")
  /\ conn' = [s \in Slots |-> IF s \in Free THEN Closed ELSE conn[s]]
  /\ UNCHANGED <<up, generation, holder, orphans, health>>

Step(u) ==
  \/ Checkout(u) \/ ConnectFails(u) \/ PoolTimeout(u)
  \/ QueryOk(u) \/ QueryFails(u)
  \/ Respond(u) \/ Close(u) \/ CheckBucket(u) \/ Throw(u) \/ Finalize(u)

Next ==
  \/ \E u \in Users : Ask(u) \/ Step(u) \/ QueryRaises(u) \/ WorkDone(u)
  \/ DatabaseStops \/ DatabaseStarts \/ Shutdown

Spec == Init /\ [][Next]_vars

(* The event loop resumes who is ready and closes abandoned generators; the
   pool's wait is bounded, and a database that is down refuses at once.  Nothing
   is assumed of the fetch and the upload, nor that the database comes back. *)
FairSpec == Spec /\ \A u \in Users : WF_vars(Step(u))

-----------------------------------------------------------------------------
(* Type invariant: who holds a connection, and that nobody holds two. *)
TypeOK ==
  /\ up \in BOOLEAN
  /\ generation \in 0..MaxRestarts
  /\ conn \in [Slots -> 0..generation \cup {Closed}]
  /\ holder \in [Slots -> Users \cup {Nobody}]
  /\ at \in [Users -> {"new", "asking", "querying", "working", "responding",
                       "closing", "asking_s3", "raising", "done", "stopped"}]
  /\ found \in [Probes -> SUBSET {"database", "s3"}]
  /\ met \in [Probes -> SUBSET {"database up", "database down", "pool full"}]
  /\ hit \subseteq Users
  /\ orphans \subseteq { m \in Masks : at[m] = "done" }
  /\ \A u \in Users :
       /\ Cardinality(Held(u)) <= 1
       /\ at[u] \in {"new", "asking"} => Held(u) = {}
       /\ at[u] \in {"querying", "working", "responding", "closing"} => Held(u) # {}

(***************************************************************************)
(* No request pays for a restart of the database that was over before it   *)
(* came, although the pool has connections of that time                    *)
(* ("detects/recycles dead connections, e.g. after a DB restart"): who     *)
(* loses the connection under a query has met an outage since it asked     *)
(* for one.                                                                *)
(***************************************************************************)
LostInItsOwnOutage ==
  [][\A u \in Users :
       at[u] = "querying" /\ at'[u] # "querying" /\ Held(u)' = {} => u \in hit]_vars

(***************************************************************************)
(* /health asks one dependency after the other while the database comes    *)
(* and goes.  Its 200 says that the bucket answered and the database was   *)
(* up at some time during the probe.  "unhealthy" for the database is not  *)
(* the trace of an outage that was over when the probe began: it was down  *)
(* during the probe, or the pool was exhausted, which /health does not     *)
(* tell from an outage.                                                    *)
(***************************************************************************)
HealthIsOfNow ==
  \A p \in Probes : at[p] = "done" =>
    /\ HealthStatus(p) = 200 => "database up" \in met[p] /\ "s3" \in found[p]
    /\ "database" \notin found[p] => met[p] \cap {"database down", "pool full"} # {}

(***************************************************************************)
(* get_session's "always closing it afterwards", as far as it is safety: a *)
(* connection that is checked out has somebody who will still give it back *)
(* - a request or probe before the end of its `async with`, or, where the  *)
(* exception has cut the request off from its session, the event loop that *)
(* has the suspended generator to close.  No path ends with a connection   *)
(* that nobody is going to return.                                         *)
(***************************************************************************)
EveryConnectionIsOwed ==
  \A s \in Slots : holder[s] # Nobody =>
    \/ at[holder[s]] \in {"querying", "working", "responding", "closing", "raising"}
    \/ holder[s] \in orphans

(***************************************************************************)
(* get_session's "always closing it afterwards": a connection comes back   *)
(* whichever way its request ended, also when the exception has cut        *)
(* db.get_session off from the request.  A request that is still fetching  *)
(* or uploading keeps it, for as long as that takes.                       *)
(***************************************************************************)
ConnectionsComeBack ==
  \A u \in Users, s \in Slots :
    holder[s] = u ~> holder[s] # u \/ at[u] = "working"

(***************************************************************************)
(* Who asks for a connection gets past the pool or an error, even if the   *)
(* requests that hold all connections never end and the database never     *)
(* comes back: /health goes on answering, and so does POST /mask.          *)
(***************************************************************************)
AskersGetAnAnswer ==
  \A u \in Users : at[u] = "asking" ~> at[u] \in {"working", "done"}

=============================================================================
