----------------------------- MODULE DbPoolProofs -----------------------------
(***************************************************************************)
(* Proofs about DbPool, for any number of requests and probes, any pool    *)
(* and any number of restarts of the database.                             *)
(***************************************************************************)
EXTENDS DbPool, FiniteSetTheorems, TLAPS

(* TypeOK in two parts: the types of everything, and who has a connection. *)
Typed ==
  /\ up \in BOOLEAN
  /\ generation \in 0..MaxRestarts
  /\ conn \in [Slots -> 0..generation \cup {Closed}]
  /\ holder \in [Slots -> Users \cup {Nobody}]
  /\ at \in [Users -> {"new", "asking", "querying", "working", "responding",
                       "closing", "asking_s3", "raising", "done", "stopped"}]
  /\ found \in [Probes -> SUBSET {"database", "s3"}]
  /\ met \in [Probes -> SUBSET {"database up", "database down", "pool full"}]
  /\ orphans \subseteq { m \in Masks : at[m] = "done" }

Holding ==
  \A u \in Users :
    /\ at[u] \in {"new", "asking"} => \A s \in Slots : holder[s] # u
    /\ at[u] \in {"querying", "working", "responding", "closing"} => \E s \in Slots : holder[s] = u

(* Nobody holds two connections, and only POST /mask does more with one than
   ask a query. *)
PoolInv ==
  /\ \A s, t \in Slots : holder[s] = holder[t] /\ holder[s] # Nobody => s = t
  /\ \A u \in Users : at[u] \in {"working", "responding", "raising"} => u \in Masks
  /\ \A u \in Users : at[u] = "stopped" => u = Startup

(* A probe under way has met the database as it is now.  The connection it has
   is of this generation, unless the database went away during the probe. *)
Running(p) == at[p] \notin {"new", "done"}

MetInv ==
  \A p \in Probes : Running(p) =>
    /\ IF up THEN "database up" \in met[p] ELSE "database down" \in met[p]
    /\ \A s \in Slots : holder[s] = p /\ at[p] = "querying" /\ conn[s] # generation =>
         "database down" \in met[p]

(* Who waits for a connection or a query has met an outage if there is one, or
   if there has been one since its connection was opened. *)
Waiting(u) == at[u] \in {"asking", "querying"}

HitInv ==
  /\ hit \subseteq Users
  /\ \A u \in Users : Waiting(u) /\ ~up => u \in hit
  /\ \A u \in Users, s \in Slots :
       at[u] = "querying" /\ holder[s] = u /\ conn[s] # generation => u \in hit

(* What a probe has found so far, and why. *)
FoundOf(p) ==
  /\ at[p] \in {"new", "asking", "querying", "closing"} => found[p] = {}
  /\ at[p] = "closing" => "database up" \in met[p]
  /\ at[p] \in {"asking_s3", "done"} =>
       IF "database" \in found[p] THEN "database up" \in met[p]
       ELSE met[p] \cap {"database down", "pool full"} # {}
  /\ at[p] = "asking_s3" => "s3" \notin found[p]

FoundInv == \A p \in Probes : FoundOf(p)

(* The inductive invariant. *)
IInv == Typed /\ Holding /\ PoolInv /\ EveryConnectionIsOwed /\ MetInv /\ HitInv /\ FoundInv

-----------------------------------------------------------------------------
LEMMA AtMostOne ==
  ASSUME NEW h, NEW u, \A s, t \in Slots : h[s] = u /\ h[t] = u => s = t
  PROVE  Cardinality({ s \in Slots : h[s] = u }) <= 1
<1>1. CASE \A s \in Slots : h[s] # u
  <2>1. { s \in Slots : h[s] = u } = {}
    BY <1>1
  <2> QED
    BY <2>1, FS_EmptySet
<1>2. CASE \E s \in Slots : h[s] = u
  <2>1. PICK s \in Slots : h[s] = u
    BY <1>2
  <2>2. { t \in Slots : h[t] = u } = {s}
    BY <2>1
  <2>3. Cardinality({s}) = 1
    BY FS_Singleton
  <2> QED
    BY <2>2, <2>3
<1> QED
  BY <1>1, <1>2

(* A connection that comes back frees its slot and no other. *)
LEMMA GivenBack ==
  ASSUME Typed, NEW s \in Slots, GiveBack(s)
  PROVE  /\ holder' = [holder EXCEPT ![s] = Nobody]
         /\ conn' \in [Slots -> 0..generation \cup {Closed}]
         /\ \A t \in Slots \ {s} : conn'[t] = conn[t]
  BY DEF Typed, GiveBack

(* A failure takes nobody anywhere with a connection in hand. *)
LEMMA FailuresEnd ==
  ASSUME NEW u \in Users
  PROVE  /\ AfterFailure(u) \in {"raising", "asking_s3", "done"}
         /\ AfterFailure(u) = "raising" => u \in Masks
  BY DEF AfterFailure

LEMMA InitEstablishes == Init => IInv
<1> SUFFICES ASSUME Init PROVE IInv
  OBVIOUS
<1> USE PoolAssumption DEF Init
<1>1. PoolInv
  BY DEF PoolInv
<1>2. Holding
  BY DEF Holding, Users
<1>3. Typed
  BY DEF Typed
<1>4. \A p \in Probes : at[p] = "new"
  BY DEF Users
<1>5. MetInv /\ FoundInv
  BY <1>4 DEF MetInv, FoundInv, FoundOf, Running
<1>6. EveryConnectionIsOwed
  BY DEF EveryConnectionIsOwed
<1>7. HitInv
  BY DEF HitInv, Waiting
<1> QED
  BY <1>1, <1>2, <1>3, <1>5, <1>6, <1>7 DEF IInv

LEMMA StutterKeeps == IInv /\ UNCHANGED vars => IInv'
<1> SUFFICES ASSUME IInv, UNCHANGED vars PROVE IInv'
  OBVIOUS
<1>1. \A u : Held(u)' = Held(u)
  BY DEF Held, vars
<1> QED
  BY <1>1 DEF IInv, Typed, Holding, PoolInv, EveryConnectionIsOwed, MetInv, HitInv,
              FoundInv, FoundOf, Running, Waiting, vars, health

-----------------------------------------------------------------------------
LEMMA TypedStep ==
  ASSUME IInv, Next PROVE Typed'
<1>0. /\ generation \in Nat /\ generation <= MaxRestarts /\ MaxRestarts \in Nat
      /\ generation \in 0..generation
  <2>1. generation \in 0..MaxRestarts
    BY DEF IInv, Typed
  <2> QED
    BY <2>1, PoolAssumption
<1> USE PoolAssumption DEF IInv, Typed, Users
<1>1. ASSUME NEW u \in Users, Ask(u) PROVE Typed'
  BY <1>1 DEF Ask, Goto
<1>2. ASSUME NEW u \in Users, Checkout(u) PROVE Typed'
  <2>1. PICK s \in Slots : /\ holder' = [holder EXCEPT ![s] = u]
                           /\ conn' = [conn EXCEPT ![s] = generation]
    BY <1>2 DEF Checkout, Offered, Idle, Free
  <2>2. holder' \in [Slots -> Users \cup {Nobody}] /\ conn' \in [Slots -> 0..generation \cup {Closed}]
    <3>1. holder \in [Slots -> Users \cup {Nobody}] /\ conn \in [Slots -> 0..generation \cup {Closed}]
      OBVIOUS
    <3> HIDE PoolAssumption DEF Typed, Users
    <3> QED
      BY <1>0, <2>1, <3>1
  <2> QED
    BY <1>2, <2>2 DEF Checkout, Goto, health
<1>3. ASSUME NEW u \in Users, ConnectFails(u) PROVE Typed'
  BY <1>3 DEF ConnectFails, Goto, AfterFailure, Offered, Idle, Free, health
<1>4. ASSUME NEW u \in Users, PoolTimeout(u) PROVE Typed'
  BY <1>4 DEF PoolTimeout, Goto, AfterFailure, Meet
<1>5. ASSUME NEW u \in Users, QueryOk(u) PROVE Typed'
  BY <1>5 DEF QueryOk, Goto, health
<1>6. ASSUME NEW u \in Users, QueryFails(u) PROVE Typed'
  BY <1>6 DEF QueryFails, Goto, AfterFailure, Held, health
<1>7. ASSUME NEW u \in Users, QueryRaises(u) PROVE Typed'
  BY <1>7 DEF QueryRaises, Goto, health
<1>8. ASSUME NEW u \in Users, WorkDone(u) PROVE Typed'
  <2>1. PICK place \in {"responding", "raising"} : at' = [at EXCEPT ![u] = place]
    BY <1>8 DEF WorkDone, Goto
  <2>2. at[u] = "working" /\ UNCHANGED <<up, generation, conn, holder, orphans, found, met>>
    BY <1>8 DEF WorkDone, health
  <2>3. orphans \subseteq { m \in Masks : at'[m] = "done" }
    BY <2>1, <2>2
  <2> QED
    BY <2>1, <2>2, <2>3
<1>9. ASSUME NEW u \in Users, Respond(u) PROVE Typed'
  BY <1>9 DEF Respond, Goto, PoolInv, health
<1>10. ASSUME NEW u \in Users, Close(u) PROVE Typed'
  BY <1>10, GivenBack DEF Close, Goto, Held
<1>11. ASSUME NEW u \in Users, CheckBucket(u) PROVE Typed'
  <2>1. found' \in [Probes -> SUBSET {"database", "s3"}]
    <3>1. CASE found' = found
      BY <3>1
    <3>2. CASE found' = [found EXCEPT ![u] = @ \cup {"s3"}]
      BY <1>11, <3>2 DEF CheckBucket
    <3> QED
      BY <1>11, <3>1, <3>2 DEF CheckBucket
  <2> QED
    <3>1. at' = [at EXCEPT ![u] = "done"] /\ UNCHANGED <<up, generation, conn, holder, orphans, met>>
      BY <1>11 DEF CheckBucket, Goto
    <3>2. orphans \subseteq { m \in Masks : at'[m] = "done" }
      BY <3>1
    <3> QED
      BY <2>1, <3>1, <3>2
<1>12. ASSUME NEW u \in Users, Throw(u) PROVE Typed'
  <2>1. at' = [at EXCEPT ![u] = "done"] /\ orphans' = orphans \cup {u}
    BY <1>12 DEF Throw, Goto
  <2>2. UNCHANGED <<up, generation, conn, holder, found, met>> /\ u \in Masks
    BY <1>12 DEF Throw, PoolInv, health
  <2>3. orphans' \subseteq { m \in Masks : at'[m] = "done" }
    BY <2>1, <2>2
  <2> QED
    BY <2>1, <2>2, <2>3
<1>13. ASSUME NEW u \in Users, Finalize(u) PROVE Typed'
  <2>1. /\ holder' \in [Slots -> Users \cup {Nobody}]
        /\ conn' \in [Slots -> 0..generation \cup {Closed}]
    <3>1. CASE Held(u) = {}
      BY <1>13, <3>1 DEF Finalize
    <3>2. CASE Held(u) # {}
      <4>1. PICK s \in Slots : GiveBack(s)
        BY <1>13, <3>2 DEF Finalize, Held
      <4> QED
        BY <4>1, GivenBack
    <3> QED
      BY <3>1, <3>2
  <2> QED
    BY <1>13, <2>1 DEF Finalize, health
<1>14. CASE DatabaseStops
  BY <1>14 DEF DatabaseStops, Meet
<1>15. CASE DatabaseStarts
  <2>1. generation' \in 0..MaxRestarts /\ 0..generation \subseteq 0..generation'
    <3>1. generation \in Nat /\ generation < MaxRestarts /\ generation' = generation + 1
      <4> HIDE PoolAssumption DEF Typed, IInv
      <4> QED
        BY <1>0, <1>15 DEF DatabaseStarts
    <3> QED
      <4> HIDE PoolAssumption DEF Typed, IInv
      <4> QED
        BY <1>0, <3>1
  <2>2. conn' \in [Slots -> 0..generation' \cup {Closed}]
    BY <1>15, <2>1 DEF DatabaseStarts
  <2>3. met' \in [Probes -> SUBSET {"database up", "database down", "pool full"}]
    BY <1>15 DEF DatabaseStarts, Meet
  <2> QED
    BY <1>15, <2>1, <2>2, <2>3 DEF DatabaseStarts
<1>16. CASE Shutdown
  BY <1>16 DEF Shutdown, Goto, Free, health
<1> QED
  BY <1>1, <1>2, <1>3, <1>4, <1>5, <1>6, <1>7, <1>8, <1>9, <1>10, <1>11, <1>12, <1>13, <1>14,
     <1>15, <1>16 DEF Next, Step

LEMMA PlacesKept ==
  ASSUME Typed, PoolInv, NEW u \in Users, NEW place, at' = [at EXCEPT ![u] = place],
         place \in {"working", "responding", "raising"} => u \in Masks,
         place # "stopped",
         \A t \in Slots : holder'[t] = Nobody \/ holder'[t] = holder[t]
  PROVE  PoolInv'
<1>1. at'[u] = place /\ \A v \in Users \ {u} : at'[v] = at[v]
  BY DEF Typed
<1>2. \A s, t \in Slots : holder'[s] = holder'[t] /\ holder'[s] # Nobody => s = t
  BY DEF PoolInv
<1>3. \A v \in Users : at'[v] \in {"working", "responding", "raising"} => v \in Masks
  BY <1>1 DEF PoolInv
<1>4. \A v \in Users : at'[v] = "stopped" => v = Startup
  BY <1>1 DEF PoolInv
<1> QED
  BY <1>2, <1>3, <1>4 DEF PoolInv

LEMMA PoolStep ==
  ASSUME IInv, Next PROVE PoolInv'
<1> USE PoolAssumption DEF IInv, Typed, PoolInv, Users
<1>1. ASSUME NEW u \in Users, Ask(u) PROVE PoolInv'
  BY <1>1 DEF Ask, Goto
<1>2. ASSUME NEW u \in Users, Checkout(u) PROVE PoolInv'
  <2>1. PICK s \in Slots : holder' = [holder EXCEPT ![s] = u]
    BY <1>2 DEF Checkout, Offered, Idle, Free
  <2>2. \A t \in Slots : holder[t] # u
    BY <1>2 DEF Checkout, Holding
  <2> QED
    BY <1>2, <2>1, <2>2 DEF Checkout, Goto
<1>3. ASSUME NEW u \in Users, ConnectFails(u) PROVE PoolInv'
  BY <1>3, FailuresEnd DEF ConnectFails, Goto
<1>4. ASSUME NEW u \in Users, PoolTimeout(u) PROVE PoolInv'
  <2>1. holder' = holder /\ at' = [at EXCEPT ![u] = AfterFailure(u)]
    BY <1>4 DEF PoolTimeout, Goto
  <2> QED
    BY <2>1, FailuresEnd
<1>5. ASSUME NEW u \in Users, QueryOk(u) PROVE PoolInv'
  <2>1. /\ holder' = holder
        /\ at' = [at EXCEPT ![u] = IF u \in Masks THEN "working" ELSE "closing"]
    BY <1>5 DEF QueryOk, Goto
  <2> QED
    BY <2>1, PlacesKept
<1>6. ASSUME NEW u \in Users, QueryFails(u) PROVE PoolInv'
  <2>1. PICK s \in Slots : holder' = [holder EXCEPT ![s] = Nobody]
    BY <1>6 DEF QueryFails, Held
  <2>2. at' = [at EXCEPT ![u] = AfterFailure(u)]
    BY <1>6 DEF QueryFails, Goto
  <2>3. \A t \in Slots : holder'[t] = Nobody \/ holder'[t] = holder[t]
    BY <2>1
  <2> QED
    BY <2>2, <2>3, FailuresEnd, PlacesKept
<1>7. ASSUME NEW u \in Users, QueryRaises(u) PROVE PoolInv'
  <2>1. u \in Masks /\ at' = [at EXCEPT ![u] = "raising"] /\ holder' = holder
    BY <1>7 DEF QueryRaises, Goto
  <2> QED
    BY <2>1, PlacesKept
<1>8. ASSUME NEW u \in Users, WorkDone(u) PROVE PoolInv'
  <2>1. PICK place \in {"responding", "raising"} : at' = [at EXCEPT ![u] = place]
    BY <1>8 DEF WorkDone, Goto
  <2>2. u \in Masks /\ holder' = holder
    BY <1>8 DEF WorkDone
  <2> QED
    BY <2>1, <2>2, PlacesKept
<1>9. ASSUME NEW u \in Users, Respond(u) PROVE PoolInv'
  BY <1>9 DEF Respond, Goto
<1>10. ASSUME NEW u \in Users, Close(u) PROVE PoolInv'
  <2>1. PICK s \in Slots : GiveBack(s)
    BY <1>10 DEF Close, Held
  <2>2. holder' = [holder EXCEPT ![s] = Nobody]
    BY <2>1, GivenBack
  <2> QED
    BY <1>10, <2>2 DEF Close, Goto
<1>11. ASSUME NEW u \in Users, CheckBucket(u) PROVE PoolInv'
  BY <1>11 DEF CheckBucket, Goto
<1>12. ASSUME NEW u \in Users, Throw(u) PROVE PoolInv'
  BY <1>12 DEF Throw, Goto
<1>13. ASSUME NEW u \in Users, Finalize(u) PROVE PoolInv'
  <2>1. CASE Held(u) = {}
    BY <1>13, <2>1 DEF Finalize
  <2>2. CASE Held(u) # {}
    <3>1. PICK s \in Slots : GiveBack(s)
      BY <1>13, <2>2 DEF Finalize, Held
    <3>2. holder' = [holder EXCEPT ![s] = Nobody]
      BY <3>1, GivenBack
    <3> QED
      BY <1>13, <3>2 DEF Finalize
  <2> QED
    BY <2>1, <2>2
<1>14. CASE DatabaseStops
  BY <1>14 DEF DatabaseStops
<1>15. CASE DatabaseStarts
  BY <1>15 DEF DatabaseStarts
<1>16. CASE Shutdown
  BY <1>16 DEF Shutdown, Goto
<1> QED
  BY <1>1, <1>2, <1>3, <1>4, <1>5, <1>6, <1>7, <1>8, <1>9, <1>10, <1>11, <1>12, <1>13, <1>14,
     <1>15, <1>16 DEF Next, Step

(* A step of u leaves the places and the connections of all others alone. *)
OthersKept(u) ==
  \A v \in Users \ {u} : /\ at'[v] = at[v]
                         /\ \A t \in Slots : holder[t] = v <=> holder'[t] = v

(* u has the connection it needs where it has got to. *)
HasItsOwn(u) ==
  /\ at'[u] \notin {"new", "asking"}
  /\ at'[u] \in {"querying", "working", "responding", "closing"} => \E s \in Slots : holder'[s] = u

LEMMA HoldingKept ==
  ASSUME Holding, NEW u \in Users, OthersKept(u), HasItsOwn(u)
  PROVE  Holding'
<1> SUFFICES ASSUME NEW v \in Users
             PROVE  /\ at'[v] \in {"new", "asking"} => \A s \in Slots : holder'[s] # v
                    /\ at'[v] \in {"querying", "working", "responding", "closing"} =>
                         \E s \in Slots : holder'[s] = v
  BY DEF Holding
<1>1. CASE v = u
  BY <1>1 DEF HasItsOwn
<1>2. CASE v # u
  <2>1. at'[v] = at[v] /\ \A t \in Slots : holder[t] = v <=> holder'[t] = v
    BY <1>2 DEF OthersKept
  <2> QED
    BY <2>1 DEF Holding
<1> QED
  BY <1>1, <1>2

(* One user goes on, and no connection changes hands. *)
LEMMA OnlyAPlaceChanges ==
  ASSUME Typed, NEW u \in Users, NEW place, at' = [at EXCEPT ![u] = place], holder' = holder
  PROVE  at'[u] = place /\ OthersKept(u)
<1>1. at'[u] = place /\ \A v \in Users \ {u} : at'[v] = at[v]
  BY DEF Typed
<1> QED
  BY <1>1 DEF OthersKept

(* One user goes on, and takes or gives back a connection. *)
LEMMA AConnectionChanges ==
  ASSUME Typed, NEW u \in Users, NEW place, at' = [at EXCEPT ![u] = place],
         NEW s \in Slots, NEW x, holder' = [holder EXCEPT ![s] = x],
         x = u \/ x = Nobody, holder[s] = u \/ holder[s] = Nobody
  PROVE  at'[u] = place /\ holder'[s] = x /\ OthersKept(u)
<1>1. at'[u] = place /\ \A v \in Users \ {u} : at'[v] = at[v]
  BY DEF Typed
<1>2. holder'[s] = x /\ \A t \in Slots \ {s} : holder'[t] = holder[t]
  BY DEF Typed
<1>3. Nobody \notin Users
  BY PoolAssumption DEF Users
<1>4. ASSUME NEW v \in Users \ {u}, NEW t \in Slots PROVE holder[t] = v <=> holder'[t] = v
  <2>1. CASE t = s
    BY <1>2, <1>3, <2>1
  <2>2. CASE t # s
    BY <1>2, <2>2
  <2> QED
    BY <2>1, <2>2
<1> QED
  BY <1>1, <1>2, <1>4 DEF OthersKept

LEMMA HoldingStep ==
  ASSUME IInv, Next PROVE Holding'
<1>0. Typed /\ Holding
  BY DEF IInv
<1>1. ASSUME NEW u \in Users, Ask(u) PROVE Holding'
  BY <1>0, <1>1 DEF Ask, Goto, Typed, Holding
<1>2. ASSUME NEW u \in Users, Checkout(u) PROVE Holding'
  <2>1. PICK s \in Slots : holder[s] = Nobody /\ holder' = [holder EXCEPT ![s] = u]
    BY <1>2 DEF Checkout, Offered, Idle, Free
  <2>2. at' = [at EXCEPT ![u] = "querying"]
    BY <1>2 DEF Checkout, Goto
  <2>3. at'[u] = "querying" /\ holder'[s] = u /\ OthersKept(u)
    BY <1>0, <2>1, <2>2, AConnectionChanges
  <2>4. HasItsOwn(u)
    BY <2>3 DEF HasItsOwn
  <2> QED
    BY <1>0, <2>3, <2>4, HoldingKept
<1>3. ASSUME NEW u \in Users, ConnectFails(u) \/ PoolTimeout(u) PROVE Holding'
  <2>1. at' = [at EXCEPT ![u] = AfterFailure(u)] /\ holder' = holder
    BY <1>3 DEF ConnectFails, PoolTimeout, Goto
  <2>2. at'[u] = AfterFailure(u) /\ OthersKept(u)
    BY <1>0, <2>1, OnlyAPlaceChanges
  <2>3. HasItsOwn(u)
    BY <2>2, FailuresEnd DEF HasItsOwn
  <2> QED
    BY <1>0, <2>2, <2>3, HoldingKept
<1>4. ASSUME NEW u \in Users, QueryOk(u) PROVE Holding'
  <2>1. /\ at[u] = "querying" /\ holder' = holder
        /\ at' = [at EXCEPT ![u] = IF u \in Masks THEN "working" ELSE "closing"]
    BY <1>4 DEF QueryOk, Goto
  <2>2. at'[u] = (IF u \in Masks THEN "working" ELSE "closing") /\ OthersKept(u)
    BY <1>0, <2>1, OnlyAPlaceChanges
  <2>3. \E s \in Slots : holder'[s] = u
    BY <1>0, <2>1 DEF Holding
  <2>4. HasItsOwn(u)
    BY <2>2, <2>3 DEF HasItsOwn
  <2> QED
    BY <1>0, <2>2, <2>4, HoldingKept
<1>5. ASSUME NEW u \in Users, QueryFails(u) PROVE Holding'
  <2>1. PICK s \in Slots : holder[s] = u /\ holder' = [holder EXCEPT ![s] = Nobody]
    BY <1>5 DEF QueryFails, Held
  <2>2. at' = [at EXCEPT ![u] = AfterFailure(u)]
    BY <1>5 DEF QueryFails, Goto
  <2>3. at'[u] = AfterFailure(u) /\ OthersKept(u)
    BY <1>0, <2>1, <2>2, AConnectionChanges
  <2>4. HasItsOwn(u)
    BY <2>3, FailuresEnd DEF HasItsOwn
  <2> QED
    BY <1>0, <2>3, <2>4, HoldingKept
<1>6. ASSUME NEW u \in Users, QueryRaises(u) \/ Throw(u) \/ CheckBucket(u) PROVE Holding'
  <2>1. PICK place \in {"raising", "done"} : at' = [at EXCEPT ![u] = place]
    BY <1>6 DEF QueryRaises, Throw, CheckBucket, Goto
  <2>2. holder' = holder
    BY <1>6 DEF QueryRaises, Throw, CheckBucket
  <2>3. at'[u] = place /\ OthersKept(u)
    BY <1>0, <2>1, <2>2, OnlyAPlaceChanges
  <2>4. HasItsOwn(u)
    BY <2>1, <2>3 DEF HasItsOwn
  <2> QED
    BY <1>0, <2>3, <2>4, HoldingKept
<1>7. ASSUME NEW u \in Users, WorkDone(u) \/ Respond(u) PROVE Holding'
  <2>1. PICK place \in {"responding", "raising", "closing"} : at' = [at EXCEPT ![u] = place]
    BY <1>7 DEF WorkDone, Respond, Goto
  <2>2. holder' = holder /\ at[u] \in {"working", "responding"}
    BY <1>7 DEF WorkDone, Respond
  <2>3. at'[u] = place /\ OthersKept(u)
    BY <1>0, <2>1, <2>2, OnlyAPlaceChanges
  <2>4. \E s \in Slots : holder'[s] = u
    BY <1>0, <2>2 DEF Holding
  <2>5. HasItsOwn(u)
    BY <2>1, <2>3, <2>4 DEF HasItsOwn
  <2> QED
    BY <1>0, <2>3, <2>5, HoldingKept
<1>8. ASSUME NEW u \in Users, Close(u) PROVE Holding'
  <2>1. PICK s \in Slots : holder[s] = u /\ GiveBack(s)
    BY <1>8 DEF Close, Held
  <2>2. holder' = [holder EXCEPT ![s] = Nobody]
    BY <1>0, <2>1, GivenBack
  <2>3. PICK place \in {"asking_s3", "done"} : at' = [at EXCEPT ![u] = place]
    BY <1>8 DEF Close, Goto
  <2>4. at'[u] = place /\ OthersKept(u)
    BY <1>0, <2>1, <2>2, <2>3, AConnectionChanges
  <2>5. HasItsOwn(u)
    BY <2>3, <2>4 DEF HasItsOwn
  <2> QED
    BY <1>0, <2>4, <2>5, HoldingKept
<1>9. ASSUME NEW u \in Users, Finalize(u) PROVE Holding'
  <2>1. at[u] = "done" /\ at' = at
    BY <1>0, <1>9 DEF Finalize, Typed
  <2>2. CASE Held(u) = {}
    BY <1>0, <1>9, <2>1, <2>2 DEF Finalize, Holding
  <2>3. CASE Held(u) # {}
    <3>1. PICK s \in Slots : holder[s] = u /\ GiveBack(s)
      BY <1>9, <2>3 DEF Finalize, Held
    <3>2. holder' = [holder EXCEPT ![s] = Nobody]
      BY <1>0, <3>1, GivenBack
    <3>3. at' = [at EXCEPT ![u] = "done"]
      BY <1>0, <2>1 DEF Typed
    <3>4. at'[u] = "done" /\ OthersKept(u)
      BY <1>0, <3>1, <3>2, <3>3, AConnectionChanges
    <3>5. HasItsOwn(u)
      BY <3>4 DEF HasItsOwn
    <3> QED
      BY <1>0, <3>4, <3>5, HoldingKept
  <2> QED
    BY <2>2, <2>3
<1>10. CASE DatabaseStops \/ DatabaseStarts
  BY <1>0, <1>10 DEF DatabaseStops, DatabaseStarts, Holding
<1>11. CASE Shutdown
  <2>1. at' = [at EXCEPT ![Startup] = "stopped"] /\ holder' = holder
    BY <1>11 DEF Shutdown, Goto
  <2>2. Startup \in Users
    BY DEF Users
  <2>3. at'[Startup] = "stopped" /\ OthersKept(Startup)
    BY <1>0, <2>1, <2>2, OnlyAPlaceChanges
  <2>4. HasItsOwn(Startup)
    BY <2>3 DEF HasItsOwn
  <2> QED
    BY <1>0, <2>2, <2>3, <2>4, HoldingKept
<1> QED
  BY <1>1, <1>2, <1>3, <1>4, <1>5, <1>6, <1>7, <1>8, <1>9, <1>10, <1>11 DEF Next, Step

-----------------------------------------------------------------------------
(* u gives back the one connection it has. *)
LEMMA NothingLeft ==
  ASSUME Typed, PoolInv, NEW u \in Users, NEW s \in Slots, holder[s] = u,
         holder' = [holder EXCEPT ![s] = Nobody]
  PROVE  \A t \in Slots : holder'[t] # u
<1>1. u # Nobody
  BY PoolAssumption DEF Users
<1>2. holder'[s] = Nobody /\ \A t \in Slots \ {s} : holder'[t] = holder[t] /\ holder[t] # u
  BY <1>1 DEF Typed, PoolInv
<1> QED
  BY <1>1, <1>2

(* u will give back a connection if it has one. *)
Owes(u) ==
  at[u] \in {"querying", "working", "responding", "closing", "raising"} \/ u \in orphans

LEMMA OwedKept ==
  ASSUME EveryConnectionIsOwed, Typed', NEW u \in Users, OthersKept(u),
         orphans \ {u} \subseteq orphans',
         (\A t \in Slots : holder'[t] # u) \/ Owes(u)'
  PROVE  EveryConnectionIsOwed'
<1> SUFFICES ASSUME NEW s \in Slots, holder'[s] # Nobody PROVE Owes(holder[s])'
  BY DEF EveryConnectionIsOwed, Owes
<1>1. holder'[s] \in Users
  BY DEF Typed
<1>2. CASE holder'[s] = u
  BY <1>2
<1>3. CASE holder'[s] # u
  <2>1. holder[s] = holder'[s] /\ at'[holder[s]] = at[holder[s]]
    BY <1>1, <1>3 DEF OthersKept
  <2>2. Owes(holder[s]) /\ holder[s] # u
    <3>1. holder[s] # Nobody
      BY <2>1
    <3> QED
      BY <1>3, <2>1, <3>1 DEF EveryConnectionIsOwed, Owes
  <2> QED
    BY <2>1, <2>2 DEF Owes
<1> QED
  BY <1>2, <1>3

LEMMA OwedStep ==
  ASSUME IInv, Next PROVE EveryConnectionIsOwed'
<1>0. /\ Typed /\ Typed' /\ Holding /\ PoolInv /\ EveryConnectionIsOwed
      /\ orphans \subseteq Masks /\ Masks \cap Probes = {} /\ Nobody \notin Users
  BY TypedStep, PoolAssumption DEF IInv, Typed, Users
<1>1. ASSUME NEW u \in Users, Ask(u) PROVE EveryConnectionIsOwed'
  <2>1. /\ at[u] = "new" /\ at' = [at EXCEPT ![u] = "asking"]
        /\ holder' = holder /\ orphans' = orphans
    BY <1>1 DEF Ask, Goto
  <2>2. OthersKept(u) /\ \A t \in Slots : holder'[t] # u
    BY <1>0, <2>1, OnlyAPlaceChanges DEF Holding
  <2> QED
    BY <1>0, <2>1, <2>2, OwedKept
<1>2. ASSUME NEW u \in Users, Checkout(u) PROVE EveryConnectionIsOwed'
  <2>1. PICK s \in Slots : holder[s] = Nobody /\ holder' = [holder EXCEPT ![s] = u]
    BY <1>2 DEF Checkout, Offered, Idle, Free
  <2>2. at' = [at EXCEPT ![u] = "querying"] /\ orphans' = orphans
    BY <1>2 DEF Checkout, Goto
  <2>3. at'[u] = "querying" /\ OthersKept(u)
    BY <1>0, <2>1, <2>2, AConnectionChanges
  <2> QED
    BY <1>0, <2>2, <2>3, OwedKept DEF Owes
<1>3. ASSUME NEW u \in Users, ConnectFails(u) \/ PoolTimeout(u) PROVE EveryConnectionIsOwed'
  <2>1. /\ at[u] = "asking" /\ at' = [at EXCEPT ![u] = AfterFailure(u)]
        /\ holder' = holder /\ orphans' = orphans
    BY <1>3 DEF ConnectFails, PoolTimeout, Goto
  <2>2. OthersKept(u) /\ \A t \in Slots : holder'[t] # u
    BY <1>0, <2>1, OnlyAPlaceChanges DEF Holding
  <2> QED
    BY <1>0, <2>1, <2>2, OwedKept
<1>4. ASSUME NEW u \in Users, QueryOk(u) \/ QueryRaises(u) \/ WorkDone(u) \/ Respond(u)
      PROVE  EveryConnectionIsOwed'
  <2>1. PICK place \in {"working", "responding", "closing", "raising"} :
          at' = [at EXCEPT ![u] = place]
    BY <1>4 DEF QueryOk, QueryRaises, WorkDone, Respond, Goto
  <2>2. holder' = holder /\ orphans' = orphans
    BY <1>4 DEF QueryOk, QueryRaises, WorkDone, Respond
  <2>3. at'[u] = place /\ OthersKept(u)
    BY <1>0, <2>1, <2>2, OnlyAPlaceChanges
  <2> QED
    BY <1>0, <2>1, <2>2, <2>3, OwedKept DEF Owes
<1>5. ASSUME NEW u \in Users, QueryFails(u) PROVE EveryConnectionIsOwed'
  <2>1. PICK s \in Slots : holder[s] = u /\ holder' = [holder EXCEPT ![s] = Nobody]
    BY <1>5 DEF QueryFails, Held
  <2>2. at' = [at EXCEPT ![u] = AfterFailure(u)] /\ orphans' = orphans
    BY <1>5 DEF QueryFails, Goto
  <2>3. OthersKept(u) /\ \A t \in Slots : holder'[t] # u
    BY <1>0, <2>1, <2>2, AConnectionChanges, NothingLeft
  <2> QED
    BY <1>0, <2>2, <2>3, OwedKept
<1>6. ASSUME NEW u \in Users, Close(u) PROVE EveryConnectionIsOwed'
  <2>1. PICK s \in Slots : holder[s] = u /\ GiveBack(s)
    BY <1>6 DEF Close, Held
  <2>2. holder' = [holder EXCEPT ![s] = Nobody]
    BY <1>0, <2>1, GivenBack
  <2>3. PICK place \in {"asking_s3", "done"} : at' = [at EXCEPT ![u] = place]
    BY <1>6 DEF Close, Goto
  <2>4. orphans' = orphans
    BY <1>6 DEF Close
  <2>5. OthersKept(u) /\ \A t \in Slots : holder'[t] # u
    BY <1>0, <2>1, <2>2, <2>3, AConnectionChanges, NothingLeft
  <2> QED
    BY <1>0, <2>4, <2>5, OwedKept
<1>7. ASSUME NEW u \in Users, CheckBucket(u) PROVE EveryConnectionIsOwed'
  <2>1. /\ u \in Probes /\ at[u] = "asking_s3" /\ at' = [at EXCEPT ![u] = "done"]
        /\ holder' = holder /\ orphans' = orphans
    BY <1>7 DEF CheckBucket, Goto
  <2>2. OthersKept(u) /\ u \notin orphans
    BY <1>0, <2>1, OnlyAPlaceChanges
  <2>3. \A t \in Slots : holder'[t] # u
    BY <1>0, <2>1, <2>2 DEF EveryConnectionIsOwed
  <2> QED
    BY <1>0, <2>1, <2>2, <2>3, OwedKept
<1>8. ASSUME NEW u \in Users, Throw(u) PROVE EveryConnectionIsOwed'
  <2>1. at' = [at EXCEPT ![u] = "done"] /\ holder' = holder /\ orphans' = orphans \cup {u}
    BY <1>8 DEF Throw, Goto
  <2>2. OthersKept(u) /\ Owes(u)'
    BY <1>0, <2>1, OnlyAPlaceChanges DEF Owes
  <2> QED
    BY <1>0, <2>1, <2>2, OwedKept
<1>9. ASSUME NEW u \in Users, Finalize(u) PROVE EveryConnectionIsOwed'
  <2>1. orphans' = orphans \ {u} /\ at' = at
    BY <1>9 DEF Finalize
  <2>2. at' = [at EXCEPT ![u] = at[u]]
    BY <1>0, <2>1 DEF Typed
  <2>3. CASE Held(u) = {}
    <3>1. holder' = holder /\ \A t \in Slots : holder'[t] # u
      BY <1>9, <2>3 DEF Finalize, Held
    <3> QED
      BY <1>0, <2>1, <2>2, <3>1, OnlyAPlaceChanges, OwedKept
  <2>4. CASE Held(u) # {}
    <3>1. PICK s \in Slots : holder[s] = u /\ GiveBack(s)
      BY <1>9, <2>4 DEF Finalize, Held
    <3>2. holder' = [holder EXCEPT ![s] = Nobody]
      BY <1>0, <3>1, GivenBack
    <3>3. OthersKept(u) /\ \A t \in Slots : holder'[t] # u
      BY <1>0, <2>2, <3>1, <3>2, AConnectionChanges, NothingLeft
    <3> QED
      BY <1>0, <2>1, <3>3, OwedKept
  <2> QED
    BY <2>3, <2>4
<1>10. CASE DatabaseStops \/ DatabaseStarts
  BY <1>0, <1>10 DEF DatabaseStops, DatabaseStarts, EveryConnectionIsOwed
<1>11. CASE Shutdown
  <2>1. /\ at[Startup] = "done" /\ at' = [at EXCEPT ![Startup] = "stopped"]
        /\ holder' = holder /\ orphans' = orphans /\ Startup \in Users /\ Startup \notin Masks
    BY <1>11, PoolAssumption DEF Shutdown, Goto, Users
  <2>2. OthersKept(Startup)
    BY <1>0, <2>1, OnlyAPlaceChanges
  <2>3. \A t \in Slots : holder'[t] # Startup
    BY <1>0, <2>1 DEF EveryConnectionIsOwed
  <2> QED
    BY <1>0, <2>1, <2>2, <2>3, OwedKept
<1> QED
  BY <1>1, <1>2, <1>3, <1>4, <1>5, <1>6, <1>7, <1>8, <1>9, <1>10, <1>11 DEF Next, Step

-----------------------------------------------------------------------------
(* A connection that somebody queries on was handed to it just now, and is of
   this generation, or is the one it was querying on. *)
NoStaleConnection ==
  \A u \in Users, s \in Slots : holder'[s] = u /\ at'[u] = "querying" =>
    \/ holder[s] = u /\ at[u] = "querying" /\ conn'[s] = conn[s]
    \/ conn'[s] = generation

(* Nobody who waits, and no probe under way, forgets what it has met. *)
NothingForgotten ==
  /\ \A u \in Users : Waiting(u)' => Waiting(u) /\ (u \in hit => u \in hit')
  /\ \A p \in Probes : Running(p)' => Running(p) /\ met[p] \subseteq met'[p]

(* One user goes on, as far as that matters to what all have met. *)
LEMMA GoingOn ==
  ASSUME Typed, NEW u \in Users, NEW place, Goto(u, place), place # "asking",
         place = "querying" => Waiting(u), Running(u),
         \A p \in Probes : Running(p) => met[p] \subseteq met'[p]
  PROVE  /\ NothingForgotten /\ hit' \subseteq hit
         /\ at'[u] = place /\ \A v \in Users \ {u} : at'[v] = at[v]
<1>1. at'[u] = place /\ \A v \in Users \ {u} : at'[v] = at[v]
  BY DEF Typed, Goto
<1>2. hit' \subseteq hit /\ hit \subseteq hit' \cup {u} /\ (place = "querying" => hit' = hit)
  BY DEF Goto
<1>3. ASSUME NEW v \in Users, Waiting(v)' PROVE Waiting(v) /\ (v \in hit => v \in hit')
  <2>1. CASE v = u
    BY <1>1, <1>2, <1>3, <2>1 DEF Waiting
  <2>2. CASE v # u
    BY <1>1, <1>2, <1>3, <2>2 DEF Waiting
  <2> QED
    BY <2>1, <2>2
<1>4. ASSUME NEW p \in Probes, Running(p)' PROVE Running(p) /\ met[p] \subseteq met'[p]
  <2>1. p \in Users
    BY DEF Users
  <2>2. Running(p)
    BY <1>1, <1>4, <2>1 DEF Running
  <2> QED
    BY <2>2
<1> QED
  BY <1>1, <1>2, <1>3, <1>4 DEF NothingForgotten

(* Steps of users but their first leave the database as it is, hand out no
   stale connection and forget nothing that matters. *)
LEMMA UserStepKeeps ==
  ASSUME IInv, NEW u \in Users, Step(u) \/ QueryRaises(u) \/ WorkDone(u)
  PROVE  NoStaleConnection /\ NothingForgotten /\ hit' \subseteq hit /\ UNCHANGED <<up, generation>>
<1>0. Typed /\ Nobody \notin Users
  BY PoolAssumption DEF IInv, Users
<1>1. CASE Checkout(u)
  <2>1. PICK s \in Slots : /\ holder' = [holder EXCEPT ![s] = u]
                           /\ conn' = [conn EXCEPT ![s] = generation]
    BY <1>1 DEF Checkout, Offered, Idle, Free
  <2>2. at[u] = "asking" /\ Goto(u, "querying") /\ UNCHANGED <<up, generation, met>>
    BY <1>1 DEF Checkout, health
  <2>3. \A t \in Slots : holder[t] # u
    BY <2>2 DEF IInv, Holding
  <2>4. /\ NothingForgotten /\ hit' \subseteq hit
        /\ at'[u] = "querying" /\ \A v \in Users \ {u} : at'[v] = at[v]
    BY <1>0, <2>2, GoingOn DEF Running, Waiting
  <2>5. NoStaleConnection
    BY <1>0, <2>1, <2>3, <2>4 DEF Typed, NoStaleConnection
  <2> QED
    BY <2>2, <2>4, <2>5
<1>2. CASE ConnectFails(u)
  <2>1. PICK s \in Slots : holder[s] = Nobody /\ conn' = [conn EXCEPT ![s] = Closed]
    BY <1>2 DEF ConnectFails, Offered, Idle, Free
  <2>2. /\ at[u] = "asking" /\ Goto(u, AfterFailure(u))
        /\ UNCHANGED <<up, generation, holder, met>>
    BY <1>2 DEF ConnectFails, health
  <2>3. /\ NothingForgotten /\ hit' \subseteq hit
        /\ at'[u] = AfterFailure(u) /\ \A v \in Users \ {u} : at'[v] = at[v]
    BY <1>0, <2>2, FailuresEnd, GoingOn DEF Running
  <2>4. NoStaleConnection
    BY <1>0, <2>1, <2>2, <2>3, FailuresEnd DEF Typed, NoStaleConnection
  <2> QED
    BY <2>2, <2>3, <2>4
<1>3. CASE PoolTimeout(u)
  <2>1. /\ at[u] = "asking" /\ Goto(u, AfterFailure(u))
        /\ UNCHANGED <<up, generation, conn, holder>>
    BY <1>3 DEF PoolTimeout
  <2>2. \A p \in Probes : met[p] \subseteq met'[p]
    BY <1>3 DEF PoolTimeout, Meet
  <2>3. /\ NothingForgotten /\ hit' \subseteq hit
        /\ at'[u] = AfterFailure(u) /\ \A v \in Users \ {u} : at'[v] = at[v]
    BY <1>0, <2>1, <2>2, FailuresEnd, GoingOn DEF Running
  <2>4. NoStaleConnection
    BY <1>0, <2>1, <2>3, FailuresEnd DEF NoStaleConnection
  <2> QED
    BY <2>1, <2>3, <2>4
<1>4. CASE QueryOk(u) \/ QueryRaises(u) \/ WorkDone(u) \/ Respond(u) \/ CheckBucket(u) \/ Throw(u)
  <2>1. PICK place \in {"working", "closing", "raising", "responding", "done"} : Goto(u, place)
    BY <1>4 DEF QueryOk, QueryRaises, WorkDone, Respond, CheckBucket, Throw
  <2>2. /\ at[u] \in {"querying", "working", "responding", "asking_s3", "raising"}
        /\ UNCHANGED <<up, generation, conn, holder, met>>
    BY <1>4 DEF QueryOk, QueryRaises, WorkDone, Respond, CheckBucket, Throw, health
  <2>3. /\ NothingForgotten /\ hit' \subseteq hit
        /\ at'[u] = place /\ \A v \in Users \ {u} : at'[v] = at[v]
    BY <1>0, <2>1, <2>2, GoingOn DEF Running
  <2>4. NoStaleConnection
    BY <1>0, <2>1, <2>2, <2>3 DEF NoStaleConnection
  <2> QED
    BY <2>2, <2>3, <2>4
<1>5. CASE QueryFails(u)
  <2>1. PICK s \in Slots : /\ holder[s] = u /\ holder' = [holder EXCEPT ![s] = Nobody]
                           /\ conn' = [conn EXCEPT ![s] = Closed]
    BY <1>5 DEF QueryFails, Held
  <2>2. at[u] = "querying" /\ Goto(u, AfterFailure(u)) /\ UNCHANGED <<up, generation, met>>
    BY <1>5 DEF QueryFails, health
  <2>3. /\ NothingForgotten /\ hit' \subseteq hit
        /\ at'[u] = AfterFailure(u) /\ \A v \in Users \ {u} : at'[v] = at[v]
    BY <1>0, <2>2, FailuresEnd, GoingOn DEF Running
  <2>4. NoStaleConnection
    BY <1>0, <2>1, <2>3, FailuresEnd DEF Typed, NoStaleConnection
  <2> QED
    BY <2>2, <2>3, <2>4
<1>6. CASE Close(u)
  <2>1. PICK s \in Slots : holder[s] = u /\ GiveBack(s)
    BY <1>6 DEF Close, Held
  <2>2. holder' = [holder EXCEPT ![s] = Nobody] /\ \A t \in Slots \ {s} : conn'[t] = conn[t]
    BY <1>0, <2>1, GivenBack
  <2>3. PICK place \in {"asking_s3", "done"} : Goto(u, place)
    BY <1>6 DEF Close
  <2>4. at[u] = "closing" /\ UNCHANGED <<up, generation, met>>
    BY <1>6 DEF Close
  <2>5. /\ NothingForgotten /\ hit' \subseteq hit
        /\ at'[u] = place /\ \A v \in Users \ {u} : at'[v] = at[v]
    BY <1>0, <2>3, <2>4, GoingOn DEF Running
  <2>6. NoStaleConnection
    BY <1>0, <2>2, <2>5 DEF Typed, NoStaleConnection
  <2> QED
    BY <2>4, <2>5, <2>6
<1>7. CASE Finalize(u)
  <2>1. UNCHANGED <<up, generation, at, met, hit>>
    BY <1>7 DEF Finalize, health
  <2>2. NothingForgotten /\ hit' \subseteq hit
    BY <2>1 DEF NothingForgotten, Running, Waiting
  <2>3. NoStaleConnection
    <3>1. CASE Held(u) = {}
      BY <1>7, <2>1, <3>1 DEF Finalize, NoStaleConnection
    <3>2. CASE Held(u) # {}
      <4>1. PICK s \in Slots : GiveBack(s)
        BY <1>7, <3>2 DEF Finalize, Held
      <4>2. holder' = [holder EXCEPT ![s] = Nobody] /\ \A t \in Slots \ {s} : conn'[t] = conn[t]
        BY <1>0, <4>1, GivenBack
      <4> QED
        BY <1>0, <2>1, <4>2 DEF Typed, NoStaleConnection
    <3> QED
      BY <3>1, <3>2
  <2> QED
    BY <2>1, <2>2, <2>3
<1> QED
  BY <1>1, <1>2, <1>3, <1>4, <1>5, <1>6, <1>7 DEF Step

LEMMA MetStep ==
  ASSUME IInv, Next PROVE MetInv'
<1>0. Typed /\ MetInv /\ Startup \notin Probes /\ \A p \in Probes : p \in Users
  BY PoolAssumption DEF IInv, Users
<1>1. ASSUME NEW u \in Users, Ask(u) PROVE MetInv'
  <2>1. at[u] = "new" /\ at' = [at EXCEPT ![u] = "asking"]
    BY <1>1 DEF Ask
  <2>2. /\ UNCHANGED <<up, generation, conn, holder>>
        /\ met' = [p \in Probes |->
                     IF p # u THEN met[p] ELSE {IF up THEN "database up" ELSE "database down"}]
    BY <1>1 DEF Ask
  <2> SUFFICES ASSUME NEW p \in Probes, Running(p)'
               PROVE  /\ IF up' THEN "database up" \in met'[p] ELSE "database down" \in met'[p]
                      /\ \A s \in Slots : holder'[s] = p /\ at'[p] = "querying" /\ conn'[s] # generation' =>
                           "database down" \in met'[p]
    BY DEF MetInv
  <2>3. CASE p = u
    BY <1>0, <2>1, <2>2, <2>3 DEF Typed
  <2>4. CASE p # u
    BY <1>0, <2>1, <2>2, <2>4 DEF Typed, MetInv, Running, Users
  <2> QED
    BY <2>3, <2>4
<1>2. ASSUME NEW u \in Users, Step(u) \/ QueryRaises(u) \/ WorkDone(u) PROVE MetInv'
  <2>1. NoStaleConnection /\ NothingForgotten /\ UNCHANGED <<up, generation>>
    BY <1>2, UserStepKeeps
  <2> SUFFICES ASSUME NEW p \in Probes, Running(p)'
               PROVE  /\ IF up' THEN "database up" \in met'[p] ELSE "database down" \in met'[p]
                      /\ \A s \in Slots : holder'[s] = p /\ at'[p] = "querying" /\ conn'[s] # generation' =>
                           "database down" \in met'[p]
    BY DEF MetInv
  <2>2. Running(p) /\ met[p] \subseteq met'[p]
    BY <2>1 DEF NothingForgotten
  <2> QED
    BY <1>0, <2>1, <2>2 DEF MetInv, NoStaleConnection
<1>3. CASE DatabaseStops
  <2>1. ~up' /\ UNCHANGED <<generation, conn, holder, at>>
    BY <1>3 DEF DatabaseStops
  <2>2. \A p \in Probes : Running(p) => "database down" \in met'[p]
    BY <1>3 DEF DatabaseStops, Meet, Running
  <2> QED
    BY <2>1, <2>2 DEF MetInv, Running
<1>4. CASE DatabaseStarts
  <2>1. ~up /\ up' /\ UNCHANGED <<conn, holder, at>>
    BY <1>4 DEF DatabaseStarts
  <2>2. \A p \in Probes : Running(p) => met'[p] = met[p] \cup {"database up"}
    BY <1>4 DEF DatabaseStarts, Meet, Running
  <2>3. \A p \in Probes : Running(p) => "database down" \in met[p]
    BY <1>0, <2>1 DEF MetInv
  <2> QED
    BY <2>1, <2>2, <2>3 DEF MetInv, Running
<1>5. CASE Shutdown
  <2>1. /\ at' = [at EXCEPT ![Startup] = "stopped"]
        /\ \A p \in Probes : at[p] \in {"new", "done"}
    BY <1>5 DEF Shutdown, Goto
  <2>2. \A p \in Probes : ~Running(p)'
    BY <1>0, <2>1 DEF Typed, Running, Users
  <2> QED
    BY <2>2 DEF MetInv
<1> QED
  BY <1>1, <1>2, <1>3, <1>4, <1>5 DEF Next

LEMMA HitStep ==
  ASSUME IInv, Next PROVE HitInv'
<1>0. Typed /\ Holding /\ HitInv /\ Startup \in Users
  BY DEF IInv, Users
<1>1. ASSUME NEW u \in Users, Ask(u) PROVE HitInv'
  <2>1. /\ at'[u] = "asking" /\ \A v \in Users \ {u} : at'[v] = at[v]
        /\ hit' = (IF up THEN hit ELSE hit \cup {u})
        /\ UNCHANGED <<up, generation, conn, holder>>
    BY <1>0, <1>1 DEF Ask, Typed
  <2> QED
    BY <1>0, <2>1 DEF HitInv, Waiting
<1>2. ASSUME NEW u \in Users, Step(u) \/ QueryRaises(u) \/ WorkDone(u) PROVE HitInv'
  BY <1>0, <1>2, UserStepKeeps DEF HitInv, NoStaleConnection, NothingForgotten, Waiting
<1>3. CASE DatabaseStops
  BY <1>0, <1>3 DEF DatabaseStops, HitInv, Waiting
<1>4. CASE DatabaseStarts
  BY <1>0, <1>4 DEF DatabaseStarts, HitInv, Waiting
<1>5. CASE Shutdown
  <2>1. /\ at'[Startup] = "stopped" /\ \A v \in Users \ {Startup} : at'[v] = at[v]
        /\ hit' = hit \ {Startup} /\ UNCHANGED <<up, generation, holder>>
        /\ \A s \in Slots : holder[s] # Nobody => conn'[s] = conn[s]
    BY <1>0, <1>5 DEF Shutdown, Goto, Free, Typed
  <2>2. Nobody \notin Users
    BY PoolAssumption DEF Users
  <2> QED
    BY <1>0, <2>1, <2>2 DEF HitInv, Waiting
<1> QED
  BY <1>1, <1>2, <1>3, <1>4, <1>5 DEF Next

(* A probe that is left alone, or meets more, has found what it had found. *)
LEMMA FoundKept ==
  ASSUME NEW p \in Probes, FoundOf(p), at'[p] = at[p], found'[p] = found[p],
         met[p] \subseteq met'[p]
  PROVE  FoundOf(p)'
  BY DEF FoundOf

LEMMA FoundStep ==
  ASSUME IInv, Next PROVE FoundInv'
<1>0. /\ Typed /\ MetInv /\ Startup \notin Probes /\ Masks \cap Probes = {}
      /\ \A p \in Probes : FoundOf(p) /\ p \in Users
  BY PoolAssumption DEF IInv, FoundInv, Users
<1> SUFFICES ASSUME NEW p \in Probes PROVE FoundOf(p)'
  BY DEF FoundInv
<1> DEFINE Kept == at'[p] = at[p] /\ found'[p] = found[p] /\ met[p] \subseteq met'[p]
<1>1. ASSUME NEW u \in Users, Ask(u) PROVE FoundOf(p)'
  <2>1. CASE p = u
    <3>1. at[p] = "new" /\ at'[p] = "asking" /\ found' = found
      BY <1>0, <1>1, <2>1 DEF Ask, Goto, Typed
    <3> QED
      BY <1>0, <3>1 DEF FoundOf
  <2>2. CASE p # u
    <3>1. Kept
      BY <1>0, <1>1, <2>2 DEF Ask, Goto, Typed
    <3> QED
      BY <1>0, <3>1, FoundKept
  <2> QED
    BY <2>1, <2>2
<1>2. ASSUME NEW u \in Users, Checkout(u) PROVE FoundOf(p)'
  <2>1. at[u] = "asking" /\ at' = [at EXCEPT ![u] = "querying"] /\ UNCHANGED <<found, met>>
    BY <1>2 DEF Checkout, Goto, health
  <2> QED
    BY <1>0, <2>1 DEF FoundOf, Typed
<1>3. ASSUME NEW u \in Users, ConnectFails(u) PROVE FoundOf(p)'
  <2>1. /\ at[u] = "asking" /\ at' = [at EXCEPT ![u] = AfterFailure(u)]
        /\ UNCHANGED <<found, met>> /\ ~up
    BY <1>3 DEF ConnectFails, Goto, health
  <2>2. CASE p = u
    <3>1. "database down" \in met[p] /\ found[p] = {}
      BY <1>0, <2>1, <2>2 DEF MetInv, Running, FoundOf
    <3>2. at'[p] = "asking_s3"
      BY <1>0, <2>1, <2>2 DEF Typed, AfterFailure
    <3> QED
      BY <2>1, <3>1, <3>2 DEF FoundOf
  <2>3. CASE p # u
    BY <1>0, <2>1, <2>3, FoundKept DEF Typed
  <2> QED
    BY <2>2, <2>3
<1>4. ASSUME NEW u \in Users, PoolTimeout(u) PROVE FoundOf(p)'
  <2>1. /\ at[u] = "asking" /\ at' = [at EXCEPT ![u] = AfterFailure(u)]
        /\ UNCHANGED found /\ Meet("pool full")
    BY <1>4 DEF PoolTimeout, Goto
  <2>2. CASE p = u
    <3>1. "pool full" \in met'[p] /\ found'[p] = {}
      BY <1>0, <2>1, <2>2 DEF Meet, FoundOf
    <3>2. at'[p] = "asking_s3"
      BY <1>0, <2>1, <2>2 DEF Typed, AfterFailure
    <3> QED
      BY <3>1, <3>2 DEF FoundOf
  <2>3. CASE p # u
    <3>1. Kept
      BY <1>0, <2>1, <2>3 DEF Typed, Meet
    <3> QED
      BY <1>0, <3>1, FoundKept
  <2> QED
    BY <2>2, <2>3
<1>5. ASSUME NEW u \in Users, QueryOk(u) PROVE FoundOf(p)'
  <2>1. /\ at[u] = "querying" /\ at' = [at EXCEPT ![u] = IF u \in Masks THEN "working" ELSE "closing"]
        /\ UNCHANGED <<found, met>> /\ up
    BY <1>5 DEF QueryOk, Goto, health
  <2>2. CASE p = u
    <3>1. "database up" \in met[p] /\ found[p] = {}
      BY <1>0, <2>1, <2>2 DEF MetInv, Running, FoundOf
    <3>2. at'[p] = "closing"
      BY <1>0, <2>1, <2>2 DEF Typed
    <3> QED
      BY <2>1, <3>1, <3>2 DEF FoundOf
  <2>3. CASE p # u
    BY <1>0, <2>1, <2>3, FoundKept DEF Typed
  <2> QED
    BY <2>2, <2>3
<1>6. ASSUME NEW u \in Users, QueryFails(u) PROVE FoundOf(p)'
  <2>1. /\ at[u] = "querying" /\ at' = [at EXCEPT ![u] = AfterFailure(u)]
        /\ UNCHANGED <<found, met>>
    BY <1>6 DEF QueryFails, Goto, health
  <2>2. CASE p = u
    <3>1. \E s \in Slots : holder[s] = u /\ (~up \/ conn[s] # generation)
      BY <1>6 DEF QueryFails, Held
    <3>2. "database down" \in met[p] /\ found[p] = {}
      BY <1>0, <2>1, <2>2, <3>1 DEF MetInv, Running, FoundOf
    <3>3. at'[p] = "asking_s3"
      BY <1>0, <2>1, <2>2 DEF Typed, AfterFailure
    <3> QED
      BY <2>1, <3>2, <3>3 DEF FoundOf
  <2>3. CASE p # u
    BY <1>0, <2>1, <2>3, FoundKept DEF Typed
  <2> QED
    BY <2>2, <2>3
<1>7. ASSUME NEW u \in Users, QueryRaises(u) \/ WorkDone(u) \/ Respond(u) \/ Throw(u)
      PROVE  FoundOf(p)'
  <2>1. u \in Masks
    <3>1. at[u] \in {"responding", "raising"} => u \in Masks
      BY DEF IInv, PoolInv
    <3> QED
      BY <1>7, <3>1 DEF QueryRaises, WorkDone, Respond, Throw
  <2>2. Kept
    BY <1>0, <1>7, <2>1 DEF QueryRaises, WorkDone, Respond, Throw, Goto, Typed, health
  <2> QED
    BY <1>0, <2>2, FoundKept
<1>8. ASSUME NEW u \in Users, Close(u) PROVE FoundOf(p)'
  <2>1. /\ at[u] = "closing" /\ met' = met
        /\ at' = [at EXCEPT ![u] = IF u \in Probes THEN "asking_s3" ELSE "done"]
        /\ found' = [q \in Probes |-> IF q = u THEN {"database"} ELSE found[q]]
    BY <1>8 DEF Close, Goto
  <2>2. CASE p = u
    <3>1. at'[p] = "asking_s3" /\ found'[p] = {"database"} /\ "database up" \in met'[p]
      BY <1>0, <2>1, <2>2 DEF Typed, FoundOf
    <3> QED
      BY <3>1 DEF FoundOf
  <2>3. CASE p # u
    BY <1>0, <2>1, <2>3, FoundKept DEF Typed
  <2> QED
    BY <2>2, <2>3
<1>9. ASSUME NEW u \in Users, CheckBucket(u) PROVE FoundOf(p)'
  <2>1. /\ at[u] = "asking_s3" /\ at' = [at EXCEPT ![u] = "done"] /\ met' = met
        /\ found' = found \/ found' = [found EXCEPT ![u] = @ \cup {"s3"}]
    BY <1>9 DEF CheckBucket, Goto
  <2>2. CASE p = u
    <3>1. at'[p] = "done" /\ (found'[p] = found[p] \/ found'[p] = found[p] \cup {"s3"})
      BY <1>0, <2>1, <2>2 DEF Typed
    <3>2. "database" \in found'[p] <=> "database" \in found[p]
      BY <3>1
    <3> QED
      BY <1>0, <2>1, <2>2, <3>1, <3>2 DEF FoundOf
  <2>3. CASE p # u
    BY <1>0, <2>1, <2>3, FoundKept DEF Typed
  <2> QED
    BY <2>2, <2>3
<1>10. ASSUME NEW u \in Users, Finalize(u) PROVE FoundOf(p)'
  BY <1>0, <1>10, FoundKept DEF Finalize, health
<1>11. CASE DatabaseStops \/ DatabaseStarts
  <2>1. Kept
    <3>1. at' = at /\ found' = found /\ (Meet("database down") \/ Meet("database up"))
      BY <1>11 DEF DatabaseStops, DatabaseStarts
    <3> QED
      BY <3>1 DEF Meet
  <2> QED
    BY <1>0, <2>1, FoundKept
<1>12. CASE Shutdown
  <2>1. Kept
    BY <1>0, <1>12 DEF Shutdown, Goto, Typed, health
  <2> QED
    BY <1>0, <2>1, FoundKept
<1> QED
  BY <1>1, <1>2, <1>3, <1>4, <1>5, <1>6, <1>7, <1>8, <1>9, <1>10, <1>11, <1>12 DEF Next, Step

-----------------------------------------------------------------------------
(* The inductive invariant holds, whatever the database does. *)
THEOREM Invariance == Spec => []IInv
<1>1. ASSUME IInv, [Next]_vars PROVE IInv'
  <2>1. CASE UNCHANGED vars
    BY <1>1, <2>1, StutterKeeps
  <2>2. CASE Next
    BY <1>1, <2>2, TypedStep, HoldingStep, PoolStep, OwedStep, MetStep, HitStep, FoundStep DEF IInv
  <2> QED
    BY <1>1, <2>1, <2>2
<1> QED
  BY InitEstablishes, <1>1, PTL DEF Spec

(* Who has a connection has one, and those who should have one do. *)
THEOREM TypeCorrect == Spec => []TypeOK
<1>1. IInv => TypeOK
  <2> SUFFICES ASSUME IInv PROVE TypeOK
    OBVIOUS
  <2>1. \A u \in Users : Cardinality(Held(u)) <= 1
    <3> TAKE u \in Users
    <3>1. \A s, t \in Slots : holder[s] = u /\ holder[t] = u => s = t
      BY PoolAssumption DEF IInv, PoolInv, Users
    <3> QED
      BY <3>1, AtMostOne DEF Held
  <2>2. \A u \in Users :
          /\ at[u] \in {"new", "asking"} => Held(u) = {}
          /\ at[u] \in {"querying", "working", "responding", "closing"} => Held(u) # {}
    BY DEF IInv, Holding, Held
  <2> QED
    BY <2>1, <2>2 DEF IInv, Typed, HitInv, TypeOK
<1> QED
  BY Invariance, <1>1, PTL

(* Who loses its connection has met an outage since it asked for it: the pool
   hands out none that has not outlived all outages before. *)
THEOREM OutagesAreTheirOwn == Spec => LostInItsOwnOutage
<1>1. ASSUME IInv, [Next]_vars
      PROVE  [\A u \in Users : at[u] = "querying" /\ at'[u] # "querying" /\ Held(u)' = {} =>
                u \in hit]_vars
  <2> SUFFICES ASSUME Next, NEW v \in Users, at[v] = "querying", at'[v] # "querying", Held(v)' = {}
               PROVE  v \in hit
    BY <1>1 DEF vars
  <2>0. Typed /\ HitInv /\ Startup \in Users
    BY <1>1 DEF IInv, Users
  <2>1. ASSUME NEW u \in Users, QueryFails(u) PROVE v \in hit
    <3>1. at' = [at EXCEPT ![u] = AfterFailure(u)]
      BY <2>1 DEF QueryFails, Goto
    <3>2. v = u
      BY <2>0, <3>1 DEF Typed
    <3>3. \E s \in Slots : holder[s] = v /\ (~up \/ conn[s] # generation)
      BY <2>1, <3>2 DEF QueryFails, Held
    <3> QED
      BY <2>0, <3>3 DEF HitInv, Waiting
  <2>2. ASSUME NEW u \in Users, QueryOk(u) \/ QueryRaises(u) PROVE FALSE
    <3>1. PICK place \in {"working", "closing", "raising"} : at' = [at EXCEPT ![u] = place]
      BY <2>2 DEF QueryOk, QueryRaises, Goto
    <3>2. v = u /\ holder' = holder
      BY <2>0, <2>2, <3>1 DEF Typed, QueryOk, QueryRaises
    <3>3. \E s \in Slots : holder[s] = v
      BY <1>1 DEF IInv, Holding
    <3> QED
      BY <3>2, <3>3 DEF Held
  <2>3. ASSUME NEW u \in Users, NEW place, at[u] # "querying", at' = [at EXCEPT ![u] = place]
        PROVE  FALSE
    BY <2>0, <2>3 DEF Typed
  <2>4. ASSUME NEW u \in Users,
               Ask(u) \/ Checkout(u) \/ ConnectFails(u) \/ PoolTimeout(u) \/ WorkDone(u)
                 \/ Respond(u) \/ Close(u) \/ CheckBucket(u) \/ Throw(u)
        PROVE  FALSE
    BY <2>3, <2>4 DEF Ask, Checkout, ConnectFails, PoolTimeout, WorkDone, Respond, Close,
                      CheckBucket, Throw, Goto
  <2>5. ASSUME NEW u \in Users, Finalize(u) PROVE FALSE
    BY <2>5 DEF Finalize
  <2>6. CASE DatabaseStops \/ DatabaseStarts
    BY <2>6 DEF DatabaseStops, DatabaseStarts
  <2>7. CASE Shutdown
    BY <2>0, <2>3, <2>7 DEF Shutdown, Goto
  <2> QED
    BY <2>1, <2>2, <2>4, <2>5, <2>6, <2>7 DEF Next, Step
<1> QED
  BY Invariance, <1>1, PTL DEF Spec, LostInItsOwnOutage

(* Nothing is checked out that nobody is going to return: the safety that
   ConnectionsComeBack rests on. *)
THEOREM ConnectionsAreOwed == Spec => []EveryConnectionIsOwed
<1>1. IInv => EveryConnectionIsOwed
  BY DEF IInv
<1> QED
  BY Invariance, <1>1, PTL

(* What /health says was so during the probe. *)
THEOREM HealthIsTrue == Spec => []HealthIsOfNow
<1>1. IInv => HealthIsOfNow
  <2> SUFFICES ASSUME IInv, NEW p \in Probes, at[p] = "done"
               PROVE  /\ HealthStatus(p) = 200 => "database up" \in met[p] /\ "s3" \in found[p]
                      /\ "database" \notin found[p] =>
                           met[p] \cap {"database down", "pool full"} # {}
    BY DEF HealthIsOfNow
  <2>1. IF "database" \in found[p] THEN "database up" \in met[p]
        ELSE met[p] \cap {"database down", "pool full"} # {}
    BY DEF IInv, FoundInv, FoundOf
  <2>2. HealthStatus(p) = 200 => found[p] = {"database", "s3"}
    BY DEF HealthStatus
  <2> QED
    BY <2>1, <2>2
<1> QED
  BY Invariance, <1>1, PTL

=============================================================================
