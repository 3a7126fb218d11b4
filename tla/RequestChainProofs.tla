-------------------------- MODULE RequestChainProofs --------------------------
(***************************************************************************)
(* Proofs about RequestChain, for any number of concurrent requests, any   *)
(* tokens and any limits.                                                  *)
(***************************************************************************)
EXTENDS RequestChain, FiniteSetTheorems, TLAPS

(* A request's step, whichever layer it is in. *)
StepOf(r) ==
  \/ EnterMetrics(r) \/ EnterLogging(r) \/ ArriveInPublic(r) \/ Auth(r)
  \/ Invalid(r) \/ Valid(r) \/ CheckLimit(r) \/ Endpoint(r)
  \/ ExitLogging(r) \/ ExitMetrics(r)
  \/ SendResponse(r) \/ SendServerError(r)

(* The status a request is counted under: 500 for an exception. *)
StatusCounted(r) == IF answer[r] = Raised THEN 500 ELSE answer[r]

(* MetricsMiddleware counts on the way out, and not twice. *)
CountInv ==
  /\ counted = [r \in Requests |->
                  IF at[r] \in {"send", "answered"} THEN <<StatusCounted(r)>> ELSE <<>>]
  /\ \A r \in Requests : at[r] = "answered" => answer[r] # Raised

Refusable(r) == incoming[r].path = "mask" /\ incoming[r].json /\ ~Accepted(incoming[r].token)

(* No request that has to be refused is behind authentication, and 401 is the
   answer of those and of no other. *)
AuthInv ==
  \A r \in Requests :
    /\ at[r] \in {"validate", "limit", "endpoint"} /\ incoming[r].path = "mask" =>
         incoming[r].json /\ Accepted(incoming[r].token)
    /\ at[r] = "validate" => incoming[r].path = "mask"
    /\ at[r] = "limit" => incoming[r].path \in DOMAIN Limits
    /\ answer[r] # Unanswered => (answer[r] = 401 <=> Refusable(r))

Everyone == UNION { NamesIn(i.token) : i \in Incoming }

(* In no task of a request is anybody bound but its own caller. *)
ContextInv ==
  /\ context \in [Requests -> [Tasks -> [session : Everyone, user : Everyone]]]
  /\ \A r \in Requests, t \in Tasks :
       {context[r][t].session, context[r][t].user} \subseteq NamesIn(incoming[r].token)
  /\ \A line \in logs : line.request \in Requests

Before == {"arrived", "logging", "auth", "validate", "limit"}

Lesser(m, n) == IF m <= n THEN m ELSE n

(* The counter of a route tells how many of its requests were let through in
   the current window: each took one, and was not let through before. *)
LimitInv ==
  /\ ran \cup refused \subseteq Requests \X (1..windows)
  /\ \A p \in ran :
       /\ at[p[1]] \notin Before
       /\ incoming[p[1]].path = "mask" => Accepted(incoming[p[1]].token)
  /\ \A path \in DOMAIN Limits, w \in 1..windows :
       IsFiniteSet(LetThrough(path, w)) /\ Cardinality(LetThrough(path, w)) <= Limits[path]
  /\ \A path \in DOMAIN Limits :
       Cardinality(LetThrough(path, windows)) = Lesser(hits[path], Limits[path])
  /\ \A p \in refused : incoming[p[1]].path \in DOMAIN Limits
  /\ RefusedWhenUsedUp

(* The inductive invariant. *)
IInv ==
  TypeOK /\ CountInv /\ AuthInv /\ ContextInv /\ LinesNameTheirCaller /\ LimitInv

-----------------------------------------------------------------------------
LEMMA TypeStep ==
  ASSUME TypeOK, CountInv, AuthInv, NEW r \in Requests, StepOf(r)
  PROVE  TypeOK' /\ CountInv'
<1> USE ChainAssumption DEF TypeOK, CountInv, StatusCounted, Places, Raised, Unanswered
<1>1. CASE EnterMetrics(r)
  BY <1>1 DEF EnterMetrics, Goto
<1>2. CASE EnterLogging(r)
  BY <1>2 DEF EnterLogging, Goto
<1>3. CASE ArriveInPublic(r)
  BY <1>3 DEF ArriveInPublic, Goto
<1>4. CASE RefuseEarly(r)
  BY <1>4 DEF RefuseEarly, Goto, AnswerWith
<1>5. CASE Unauthorized(r)
  BY <1>5 DEF Unauthorized, Goto, Arrives, AnswerWith, StatusOf
<1>6. CASE ScopeRaises(r)
  BY <1>6 DEF ScopeRaises, Goto, Arrives, RaiseOut
<1>7. CASE Forbidden(r)
  BY <1>7 DEF Forbidden, Goto, Arrives, AnswerWith, StatusOf
<1>8. CASE Authorized(r)
  BY <1>8 DEF Authorized, Goto, Arrives
<1>9. CASE Invalid(r)
  BY <1>9 DEF Invalid, Goto, AnswerWith
<1>10. CASE Valid(r)
  BY <1>10 DEF Valid, Goto
<1>11. CASE CheckLimit(r)
  <2>1. hits' \in [DOMAIN Limits -> Nat]
    <3>1. incoming[r].path \in DOMAIN Limits
      BY <1>11 DEF CheckLimit, AuthInv
    <3> QED
      BY <1>11, <3>1 DEF CheckLimit, Counter
  <2>2. CASE hits'[Counter(r)] <= Limits[incoming[r].path]
    <3>1. /\ UNCHANGED <<incoming, answer, counted, windows>>
          /\ at[r] = "limit" /\ at' = [at EXCEPT ![r] = "endpoint"]
      BY <1>11, <2>2 DEF CheckLimit, Goto
    <3> QED
      BY <2>1, <3>1
  <2>3. CASE ~(hits'[Counter(r)] <= Limits[incoming[r].path])
    <3>1. /\ UNCHANGED <<incoming, counted, windows>>
          /\ at[r] = "limit" /\ at' = [at EXCEPT ![r] = "logging_exit"]
          /\ answer' = [answer EXCEPT ![r] = 429]
      BY <1>11, <2>3 DEF CheckLimit, Goto, AnswerWith
    <3> QED
      BY <2>1, <3>1
  <2> QED
    BY <2>2, <2>3
<1>12. CASE EndpointReturns(r)
  <2>1. PICK status \in {200, 503} : AnswerWith(r, status)
    BY <1>12 DEF EndpointReturns
  <2>2. UNCHANGED <<incoming, counted, hits, windows>> /\ at[r] = "endpoint"
    BY <1>12 DEF EndpointReturns
  <2> QED
    BY <2>1, <2>2 DEF AnswerWith, Goto
<1>13. CASE EndpointRefuses(r)
  BY <1>13 DEF EndpointRefuses, Goto, AnswerWith, StatusOf
<1>14. CASE EndpointRaises(r)
  BY <1>14 DEF EndpointRaises, Goto, RaiseOut
<1>15. CASE ExitLogging(r)
  BY <1>15 DEF ExitLogging, Goto
<1>16. CASE ExitMetrics(r)
  <2>1. Append(counted[r], StatusCounted(r)) = <<StatusCounted(r)>>
    BY <1>16 DEF ExitMetrics
  <2>2. counted' = [counted EXCEPT ![r] = <<StatusCounted(r)>>]
    BY <1>16, <2>1 DEF ExitMetrics
  <2>3. CountInv'
    BY <1>16, <2>2 DEF ExitMetrics, Goto
  <2>4. \A q \in Requests :
          Len(counted'[q]) = IF at'[q] \in {"send", "answered"} THEN 1 ELSE 0
    <3> TAKE q \in Requests
    <3>1. CASE at'[q] \in {"send", "answered"}
      BY <2>3, <3>1
    <3>2. CASE at'[q] \notin {"send", "answered"}
      BY <2>3, <3>2
    <3> QED
      BY <3>1, <3>2
  <2> QED
    BY <1>16, <2>3, <2>4 DEF ExitMetrics, Goto
<1>17. CASE SendResponse(r)
  BY <1>17 DEF SendResponse, Goto
<1>18. CASE SendServerError(r)
  BY <1>18 DEF SendServerError, Goto
<1> QED
  BY <1>1, <1>2, <1>3, <1>4, <1>5, <1>6, <1>7, <1>8, <1>9, <1>10, <1>11, <1>12, <1>13, <1>14,
     <1>15, <1>16, <1>17, <1>18 DEF StepOf, Auth, Endpoint

LEMMA AuthStep ==
  ASSUME TypeOK, AuthInv, NEW r \in Requests, StepOf(r) PROVE AuthInv'
<1> USE ChainAssumption DEF TypeOK, AuthInv, Refusable, Raised, Unanswered
<1>1. CASE EnterMetrics(r)
  BY <1>1 DEF EnterMetrics, Goto
<1>2. CASE EnterLogging(r)
  BY <1>2 DEF EnterLogging, Goto
<1>3. CASE ArriveInPublic(r)
  BY <1>3 DEF ArriveInPublic, Goto
<1>4. CASE RefuseEarly(r)
  BY <1>4 DEF RefuseEarly, Goto, AnswerWith
<1>5. CASE Unauthorized(r)
  BY <1>5 DEF Unauthorized, Goto, Arrives, AnswerWith, StatusOf
<1>6. CASE ScopeRaises(r)
  BY <1>6 DEF ScopeRaises, Goto, Arrives, RaiseOut
<1>7. CASE Forbidden(r)
  BY <1>7 DEF Forbidden, Goto, Arrives, AnswerWith, StatusOf
<1>8. CASE Authorized(r)
  BY <1>8 DEF Authorized, Goto, Arrives
<1>9. CASE Invalid(r)
  BY <1>9 DEF Invalid, Goto, AnswerWith
<1>10. CASE Valid(r)
  BY <1>10 DEF Valid, Goto
<1>11. CASE CheckLimit(r)
  BY <1>11 DEF CheckLimit, Goto, AnswerWith
<1>12. CASE EndpointReturns(r)
  <2>1. PICK status \in {200, 503} : AnswerWith(r, status)
    BY <1>12 DEF EndpointReturns
  <2>2. UNCHANGED <<incoming, counted, hits, windows>> /\ at[r] = "endpoint"
    BY <1>12 DEF EndpointReturns
  <2> QED
    BY <2>1, <2>2 DEF AnswerWith, Goto
<1>13. CASE EndpointRefuses(r)
  BY <1>13 DEF EndpointRefuses, Goto, AnswerWith, StatusOf
<1>14. CASE EndpointRaises(r)
  BY <1>14 DEF EndpointRaises, Goto, RaiseOut
<1>15. CASE ExitLogging(r)
  BY <1>15 DEF ExitLogging, Goto
<1>16. CASE ExitMetrics(r)
  BY <1>16 DEF ExitMetrics, Goto
<1>17. CASE SendResponse(r)
  BY <1>17 DEF SendResponse, Goto
<1>18. CASE SendServerError(r)
  BY <1>18 DEF SendServerError, Goto
<1> QED
  BY <1>1, <1>2, <1>3, <1>4, <1>5, <1>6, <1>7, <1>8, <1>9, <1>10, <1>11, <1>12, <1>13, <1>14,
     <1>15, <1>16, <1>17, <1>18 DEF StepOf, Auth, Endpoint

LEMMA ContextStep ==
  ASSUME TypeOK, ContextInv, LinesNameTheirCaller, NEW r \in Requests, StepOf(r)
  PROVE  ContextInv' /\ LinesNameTheirCaller'
<1> USE DEF TypeOK, ContextInv, LinesNameTheirCaller, Tasks
<1>1. CASE EnterMetrics(r)
  BY <1>1 DEF EnterMetrics
<1>2. CASE EnterLogging(r)
  <2> DEFINE bound == [Empty EXCEPT !.session = SessionOf(incoming[r].token)]
  <2>1. bound = [session |-> SessionOf(incoming[r].token), user |-> Nobody]
    BY DEF Empty
  <2>2. {bound.session, bound.user} \subseteq NamesIn(incoming[r].token)
    BY <2>1 DEF SessionOf, NamesIn
  <2>3. bound \in [session : Everyone, user : Everyone]
    BY <2>1, <2>2 DEF Everyone
  <2>4. context' = [context EXCEPT ![r]["metrics_child"] = bound, ![r]["logging_child"] = bound]
    BY <1>2 DEF EnterLogging
  <2> HIDE DEF bound
  <2> QED
    BY <1>2, <2>2, <2>3, <2>4, SMTT(30) DEF EnterLogging
<1>3. CASE ArriveInPublic(r)
  BY <1>3 DEF ArriveInPublic
<1>4. CASE RefuseEarly(r)
  BY <1>4 DEF RefuseEarly, AnswerWith, Log
<1>5. CASE Unauthorized(r)
  BY <1>5 DEF Unauthorized, AnswerWith, Log
<1>6. CASE ScopeRaises(r)
  BY <1>6 DEF ScopeRaises, RaiseOut
<1>7. CASE Forbidden(r)
  BY <1>7 DEF Forbidden, AnswerWith, Log
<1>8. CASE Authorized(r)
  BY <1>8 DEF Authorized
<1>9. CASE Invalid(r)
  BY <1>9 DEF Invalid, AnswerWith, Log
<1>10. CASE Valid(r)
  BY <1>10 DEF Valid
<1>11. CASE CheckLimit(r)
  BY <1>11 DEF CheckLimit, AnswerWith
<1>12. CASE EndpointReturns(r)
  BY <1>12 DEF EndpointReturns, AnswerWith, Log, EventOf
<1>13. CASE EndpointRefuses(r)
  BY <1>13 DEF EndpointRefuses, AnswerWith, Log
<1>14. CASE EndpointRaises(r)
  BY <1>14 DEF EndpointRaises, RaiseOut
<1>15. CASE ExitLogging(r)
  BY <1>15 DEF ExitLogging, Empty, NamesIn, Everyone
<1>16. CASE ExitMetrics(r)
  BY <1>16 DEF ExitMetrics
<1>17. CASE SendResponse(r)
  BY <1>17 DEF SendResponse
<1>18. CASE SendServerError(r)
  BY <1>18 DEF SendServerError, Log
<1> QED
  BY <1>1, <1>2, <1>3, <1>4, <1>5, <1>6, <1>7, <1>8, <1>9, <1>10, <1>11, <1>12, <1>13, <1>14,
     <1>15, <1>16, <1>17, <1>18 DEF StepOf, Auth, Endpoint

(* Only the limiter's own step touches its counters and its verdicts, and no
   step takes a request back to where it is judged. *)
LEMMA OthersLeaveLimits ==
  ASSUME TypeOK, NEW r \in Requests, StepOf(r), ~CheckLimit(r)
  PROVE  /\ UNCHANGED <<incoming, hits, windows, ran, refused>>
         /\ \A q \in Requests : at[q] \notin Before => at'[q] \notin Before
<1> USE DEF TypeOK, Before
<1>1. CASE EnterMetrics(r)
  BY <1>1 DEF EnterMetrics, Goto
<1>2. CASE EnterLogging(r)
  BY <1>2 DEF EnterLogging, Goto
<1>3. CASE ArriveInPublic(r)
  BY <1>3 DEF ArriveInPublic, Goto
<1>4. CASE RefuseEarly(r)
  BY <1>4 DEF RefuseEarly, Goto, AnswerWith
<1>5. CASE Unauthorized(r)
  BY <1>5 DEF Unauthorized, Goto, Arrives, AnswerWith, StatusOf
<1>6. CASE ScopeRaises(r)
  BY <1>6 DEF ScopeRaises, Goto, Arrives, RaiseOut
<1>7. CASE Forbidden(r)
  BY <1>7 DEF Forbidden, Goto, Arrives, AnswerWith, StatusOf
<1>8. CASE Authorized(r)
  BY <1>8 DEF Authorized, Goto, Arrives
<1>9. CASE Invalid(r)
  BY <1>9 DEF Invalid, Goto, AnswerWith
<1>10. CASE Valid(r)
  BY <1>10 DEF Valid, Goto
<1>11. CASE EndpointReturns(r)
  BY <1>11 DEF EndpointReturns, Goto, AnswerWith
<1>12. CASE EndpointRefuses(r)
  BY <1>12 DEF EndpointRefuses, Goto, AnswerWith
<1>13. CASE EndpointRaises(r)
  BY <1>13 DEF EndpointRaises, Goto, RaiseOut
<1>14. CASE ExitLogging(r)
  BY <1>14 DEF ExitLogging, Goto
<1>15. CASE ExitMetrics(r)
  BY <1>15 DEF ExitMetrics, Goto
<1>16. CASE SendResponse(r)
  BY <1>16 DEF SendResponse, Goto
<1>17. CASE SendServerError(r)
  BY <1>17 DEF SendServerError, Goto
<1> QED
  BY <1>1, <1>2, <1>3, <1>4, <1>5, <1>6, <1>7, <1>8, <1>9, <1>10, <1>11, <1>12, <1>13, <1>14, <1>15, <1>16, <1>17
     DEF StepOf, Auth, Endpoint

(* What is let through is one more of its route and window. *)
LEMMA LetThroughGrows ==
  ASSUME LimitInv, NEW r \in Requests, windows \in 1..MaxWindows, at[r] = "limit",
         ran' = ran \cup {<<r, windows>>}, incoming' = incoming,
         NEW path \in DOMAIN Limits, NEW w \in 1..windows
  PROVE  LetThrough(path, w)' = IF path = incoming[r].path /\ w = windows
                                THEN LetThrough(path, w) \cup {<<r, windows>>}
                                ELSE LetThrough(path, w)
  BY DEF LetThrough, LimitInv

LEMMA CheckLimitStep ==
  ASSUME TypeOK, AuthInv, LimitInv, NEW r \in Requests, CheckLimit(r) PROVE LimitInv'
<1> DEFINE own == incoming[r].path
<1> USE ChainAssumption DEF TypeOK
<1>1. /\ at[r] = "limit" /\ own \in DOMAIN Limits
      /\ UNCHANGED <<incoming, windows>>
      /\ hits' = [hits EXCEPT ![own] = @ + 1]
      /\ hits' \in [DOMAIN Limits -> Nat]
  BY DEF CheckLimit, Counter, AuthInv
<1>2. <<r, windows>> \notin ran
  BY <1>1 DEF LimitInv, Before
<1>3. CASE hits'[own] <= Limits[own]
  <2>1. ran' = ran \cup {<<r, windows>>} /\ refused' = refused /\ at' = [at EXCEPT ![r] = "endpoint"]
    BY <1>3 DEF CheckLimit, Goto, Counter
  <2>2. \A path \in DOMAIN Limits, w \in 1..windows :
          LetThrough(path, w)' = IF path = own /\ w = windows
                                 THEN LetThrough(path, w) \cup {<<r, windows>>}
                                 ELSE LetThrough(path, w)
    BY <1>1, <2>1, LetThroughGrows
  <2>3. <<r, windows>> \notin LetThrough(own, windows)
    BY <1>2 DEF LetThrough
  <2>4. windows \in 1..windows
    OBVIOUS
  <2>5. /\ IsFiniteSet(LetThrough(own, windows)')
        /\ Cardinality(LetThrough(own, windows)') = Cardinality(LetThrough(own, windows)) + 1
    <3>1. IsFiniteSet(LetThrough(own, windows))
      BY <1>1, <2>4 DEF LimitInv
    <3>2. LetThrough(own, windows)' = LetThrough(own, windows) \cup {<<r, windows>>}
      BY <1>1, <2>1, <2>4 DEF LetThrough, LimitInv
    <3>3. /\ IsFiniteSet(LetThrough(own, windows) \cup {<<r, windows>>})
          /\ Cardinality(LetThrough(own, windows) \cup {<<r, windows>>})
               = Cardinality(LetThrough(own, windows)) + 1
      <4> HIDE <1>1 DEF own, TypeOK
      <4> QED
        BY <2>3, <3>1, FS_AddElement
    <3> QED
      BY <3>2, <3>3
  <2>6. hits[own] < Limits[own] /\ hits'[own] = hits[own] + 1
    BY <1>1, <1>3
  <2>7. Cardinality(LetThrough(own, windows)) = hits[own]
    BY <1>1, <2>6 DEF LimitInv, Lesser
  <2>8. ran' \cup refused' \subseteq Requests \X (1..windows')
    BY <1>1, <2>1, <2>4 DEF LimitInv
  <2>9. \A p \in ran' :
          /\ at'[p[1]] \notin Before
          /\ incoming'[p[1]].path = "mask" => Accepted(incoming'[p[1]].token)
    BY <1>1, <2>1 DEF LimitInv, Before, AuthInv
  <2>10. \A path \in DOMAIN Limits, w \in 1..windows' :
           IsFiniteSet(LetThrough(path, w)') /\ Cardinality(LetThrough(path, w)') <= Limits[path]
    <3> TAKE path \in DOMAIN Limits, w \in 1..windows'
    <3>1. CASE path = own /\ w = windows
      BY <1>1, <2>5, <2>6, <2>7, <3>1
    <3>2. CASE ~(path = own /\ w = windows)
      BY <1>1, <2>2, <3>2 DEF LimitInv
    <3> QED
      BY <3>1, <3>2
  <2>11. \A path \in DOMAIN Limits :
           Cardinality(LetThrough(path, windows)') = Lesser(hits'[path], Limits[path])
    <3> TAKE path \in DOMAIN Limits
    <3>1. CASE path = own
      BY <1>1, <1>3, <2>5, <2>6, <2>7, <3>1 DEF Lesser
    <3>2. CASE path # own
      BY <1>1, <2>2, <2>4, <3>2 DEF LimitInv
    <3> QED
      BY <3>1, <3>2
  <2>12. \A p \in refused : LetThrough(incoming[p[1]].path, p[2])' = LetThrough(incoming[p[1]].path, p[2])
    <3> TAKE p \in refused
    <3>1. p[2] \in 1..windows /\ incoming[p[1]].path \in DOMAIN Limits
      BY DEF LimitInv
    <3>2. ~(incoming[p[1]].path = own /\ p[2] = windows)
      BY <2>6, <2>7 DEF LimitInv, RefusedWhenUsedUp
    <3> QED
      BY <1>1, <2>1, <3>2 DEF LetThrough
  <2> QED
    BY <1>1, <2>1, <2>8, <2>9, <2>10, <2>11, <2>12 DEF LimitInv, RefusedWhenUsedUp
<1>4. CASE ~(hits'[own] <= Limits[own])
  <2>1. /\ ran' = ran /\ refused' = refused \cup {<<r, windows>>}
        /\ at' = [at EXCEPT ![r] = "logging_exit"]
    BY <1>4 DEF CheckLimit, AnswerWith, Goto, Counter
  <2>2. \A path, w : LetThrough(path, w)' = LetThrough(path, w)
    BY <1>1, <2>1 DEF LetThrough
  <2>3. Cardinality(LetThrough(own, windows)) = Limits[own]
    BY <1>1, <1>4 DEF LimitInv, Lesser
  <2>4. windows \in 1..windows
    OBVIOUS
  <2>5. \A path \in DOMAIN Limits : Lesser(hits'[path], Limits[path]) = Lesser(hits[path], Limits[path])
    BY <1>1, <1>4 DEF Lesser
  <2>6. RefusedWhenUsedUp'
    BY <1>1, <2>1, <2>2, <2>3 DEF LimitInv, RefusedWhenUsedUp
  <2>7. \A p \in ran' : at'[p[1]] \notin Before
    BY <1>1, <2>1 DEF LimitInv, Before
  <2> QED
    BY <1>1, <2>1, <2>2, <2>4, <2>5, <2>6, <2>7 DEF LimitInv
<1> QED
  BY <1>3, <1>4

LEMMA LimitStep ==
  ASSUME TypeOK, AuthInv, LimitInv, NEW r \in Requests, StepOf(r) PROVE LimitInv'
<1>1. CASE CheckLimit(r)
  BY <1>1, CheckLimitStep
<1>2. CASE ~CheckLimit(r)
  <2>1. /\ UNCHANGED <<incoming, hits, windows, ran, refused>>
        /\ \A q \in Requests : at[q] \notin Before => at'[q] \notin Before
    BY <1>2, OthersLeaveLimits
  <2>2. \A path, w : LetThrough(path, w)' = LetThrough(path, w)
    BY <2>1 DEF LetThrough
  <2>3. \A p \in ran : p[1] \in Requests
    BY DEF LimitInv
  <2> QED
    BY <2>1, <2>2, <2>3 DEF LimitInv, RefusedWhenUsedUp
<1> QED
  BY <1>1, <1>2

(* A new window starts with nobody let through. *)
LEMMA NextWindowStep ==
  ASSUME IInv, NextWindow PROVE IInv'
<1> USE ChainAssumption DEF NextWindow
<1>1. TypeOK'
  BY DEF IInv, TypeOK
<1>2. CountInv' /\ AuthInv'
  BY DEF IInv, CountInv, AuthInv, StatusCounted, Refusable
<1>3. ContextInv' /\ LinesNameTheirCaller'
  BY DEF IInv, ContextInv, LinesNameTheirCaller
<1>4. LimitInv'
  <2> USE DEF IInv, TypeOK
  <2>1. \A path, w : LetThrough(path, w)' = LetThrough(path, w)
    BY DEF LetThrough
  <2>2. \A path : LetThrough(path, windows + 1) = {}
    BY DEF LetThrough, LimitInv
  <2>3. ran' \cup refused' \subseteq Requests \X (1..windows')
    BY DEF LimitInv
  <2>4. \A path \in DOMAIN Limits, w \in 1..windows' :
          IsFiniteSet(LetThrough(path, w)') /\ Cardinality(LetThrough(path, w)') <= Limits[path]
    <3> TAKE path \in DOMAIN Limits, w \in 1..windows'
    <3>1. CASE w = windows + 1
      <4>1. LetThrough(path, w)' = {}
        BY <2>1, <2>2, <3>1
      <4>2. 0 <= Limits[path]
        OBVIOUS
      <4> QED
        BY <4>1, <4>2, FS_EmptySet
    <3>2. CASE w # windows + 1
      BY <2>1, <3>2 DEF LimitInv
    <3> QED
      BY <3>1, <3>2
  <2>5. \A path \in DOMAIN Limits :
          Cardinality(LetThrough(path, windows))' = Lesser(hits'[path], Limits[path])
    <3> TAKE path \in DOMAIN Limits
    <3>1. { p \in ran : p[2] = windows + 1 /\ incoming[p[1]].path = path } = {}
      BY <2>2 DEF LetThrough
    <3>2. LetThrough(path, windows)' = {}
      BY <3>1 DEF LetThrough
    <3>3. hits'[path] = 0 /\ Limits[path] \in Nat
      OBVIOUS
    <3>4. Lesser(hits'[path], Limits[path]) = 0
      BY <3>3 DEF Lesser
    <3>5. \A S : S = {} => Cardinality(S) = 0
      BY FS_EmptySet
    <3>6. Cardinality(LetThrough(path, windows))' = 0
      <4> HIDE DEF NextWindow, IInv, TypeOK
      <4> QED
        BY <3>2, <3>5
    <3> QED
      BY <3>4, <3>6
  <2>6. RefusedWhenUsedUp'
    BY <2>1 DEF LimitInv, RefusedWhenUsedUp
  <2>7. \A p \in refused' : incoming'[p[1]].path \in DOMAIN Limits
    BY DEF LimitInv
  <2>8. \A p \in ran' :
          /\ at'[p[1]] \notin Before
          /\ incoming'[p[1]].path = "mask" => Accepted(incoming'[p[1]].token)
    BY DEF LimitInv
  <2> QED
    BY <2>3, <2>4, <2>5, <2>6, <2>7, <2>8 DEF LimitInv
<1> QED
  BY <1>1, <1>2, <1>3, <1>4 DEF IInv

LEMMA StutterStep == IInv /\ UNCHANGED vars => IInv'
<1> SUFFICES ASSUME IInv, UNCHANGED vars PROVE IInv'
  OBVIOUS
<1> USE DEF vars
<1>1. TypeOK' /\ CountInv' /\ AuthInv'
  BY DEF IInv, TypeOK, CountInv, AuthInv, StatusCounted, Refusable
<1>2. ContextInv' /\ LinesNameTheirCaller'
  BY DEF IInv, ContextInv, LinesNameTheirCaller
<1>3. LimitInv'
  <2>1. \A path, w : LetThrough(path, w)' = LetThrough(path, w)
    BY DEF LetThrough
  <2> QED
    BY <2>1 DEF IInv, LimitInv, RefusedWhenUsedUp
<1> QED
  BY <1>1, <1>2, <1>3 DEF IInv

LEMMA InitEstablishes == Init => IInv
<1> SUFFICES ASSUME Init PROVE IInv
  OBVIOUS
<1> USE ChainAssumption DEF Init, Raised, Unanswered
<1>1. TypeOK
  BY DEF TypeOK, Places
<1>2. CountInv /\ AuthInv
  BY DEF CountInv, AuthInv
<1>3. ContextInv /\ LinesNameTheirCaller
  <2>1. Requests # {} => Nobody \in Everyone
    BY DEF Everyone, NamesIn
  <2> QED
    BY <2>1 DEF ContextInv, LinesNameTheirCaller, Empty, NamesIn
<1>4. LimitInv
  <2>1. \A path, w : LetThrough(path, w) = {}
    BY DEF LetThrough
  <2> QED
    <3>1. \A path \in DOMAIN Limits : Limits[path] \in Nat /\ hits[path] = 0
      OBVIOUS
    <3>2. \A path, w : IsFiniteSet(LetThrough(path, w)) /\ Cardinality(LetThrough(path, w)) = 0
      BY <2>1, FS_EmptySet
    <3> QED
      BY <3>1, <3>2 DEF LimitInv, RefusedWhenUsedUp, Lesser
<1> QED
  BY <1>1, <1>2, <1>3, <1>4 DEF IInv

-----------------------------------------------------------------------------
(* The inductive invariant holds, however requests interleave. *)
THEOREM Invariance == Spec => []IInv
<1>1. ASSUME IInv, [Next]_vars PROVE IInv'
  <2>1. CASE UNCHANGED vars
    BY <1>1, <2>1, StutterStep
  <2>2. CASE NextWindow
    BY <1>1, <2>2, NextWindowStep
  <2>3. CASE \E r \in Requests : StepOf(r)
    BY <1>1, <2>3, TypeStep, AuthStep, ContextStep, LimitStep DEF IInv
  <2> QED
    BY <1>1, <2>1, <2>2, <2>3 DEF Next, StepOf
<1> QED
  BY InitEstablishes, <1>1, PTL DEF Spec

(* Types, and who has been answered and counted. *)
THEOREM TypeCorrect == Spec => []TypeOK
<1>1. IInv => TypeOK
  BY DEF IInv
<1> QED
  BY Invariance, <1>1, PTL

(* Logging context never leaks between requests. *)
THEOREM LinesAreTheirs == Spec => []LinesNameTheirCaller
<1>1. IInv => LinesNameTheirCaller
  BY DEF IInv
<1> QED
  BY Invariance, <1>1, PTL

(* Every answer is counted once, under its status. *)
THEOREM CountsAreRight == Spec => []CountedAsAnswered
<1>1. IInv => CountedAsAnswered
  BY DEF IInv, CountInv, StatusCounted, CountedAsAnswered
<1> QED
  BY Invariance, <1>1, PTL

(* The limit of each route holds in each window. *)
THEOREM LimitsHold == Spec => []WithinLimit
<1>1. IInv => WithinLimit
  BY DEF IInv, LimitInv, WithinLimit, LetThrough, Accepted, ValidToken
<1> QED
  BY Invariance, <1>1, PTL

(* Nobody is refused before the route's own limit is used up. *)
THEOREM LimitsAreUsedUp == Spec => []RefusedWhenUsedUp
<1>1. IInv => RefusedWhenUsedUp
  BY DEF IInv, LimitInv
<1> QED
  BY Invariance, <1>1, PTL

-----------------------------------------------------------------------------
(* RequestChain implements ApiGate. *)

(* Whom the limiter has let in, and whom it has not. *)
Admitted == { p[1] : p \in ran }
TurnedAway == { p[1] : p \in refused }

(* The gate's variables. *)
StageBar == [r \in Requests |-> StageOf(r)]
ReplyBar == [r \in Requests |-> IF at[r] = "answered" THEN answer[r] ELSE Unanswered]
UsedBar  == [path \in DOMAIN Limits |->
               IF hits[path] < Limits[path] THEN hits[path] ELSE Limits[path]]

(* The answers that a request can have on its way out. *)
DueTo(r) ==
  IF StageOf(r) = "inside" THEN OutcomesOf[incoming[r].path]
  ELSE IF StageOf(r) = "turned_away" THEN {429} ELSE {VerdictOn(incoming[r])} \ {Welcome}

(* Behind each dependency of the route a request is known to be in order as
   far as that one judges it; nobody enters before the limiter has let him;
   and the status on its way out is one the request can get, an exception
   standing for 500. *)
GateAt(r) ==
  /\ at[r] = "validate" =>
       /\ incoming[r].path = "mask" /\ incoming[r].json /\ ValidToken(incoming[r].token)
       /\ incoming[r].token.scope # NotString
       /\ RequiredScopes \subseteq incoming[r].token.scope
  /\ at[r] \in {"limit", "endpoint"} => VerdictOn(incoming[r]) = Welcome
  /\ at[r] \in Before => r \notin TurnedAway
  /\ at[r] = "endpoint" => r \in Admitted \/ incoming[r].path = "metrics"
  /\ answer[r] # Unanswered => StatusCounted(r) \in DueTo(r)

GateInv == \A r \in Requests : GateAt(r)

(* A step that nobody outside notices. *)
Unseen(r) ==
  /\ StageOf(r)' = StageOf(r)
  /\ UNCHANGED <<incoming, hits>>
  /\ at[r] # "answered" /\ at'[r] # "answered"

(* Who is still to be judged is outside. *)
LEMMA BeforeIsOutside ==
  ASSUME IInv, GateInv, NEW r \in Requests, at[r] \in Before
  PROVE  StageOf(r) = "outside"
<1>1. r \notin Admitted
  BY DEF IInv, LimitInv, Admitted
<1>2. r \notin TurnedAway
  BY DEF GateInv, GateAt
<1>3. answer[r] = Unanswered /\ at[r] # "endpoint"
  BY DEF IInv, TypeOK, Before
<1> QED
  BY <1>1, <1>2, <1>3 DEF StageOf, Admitted, TurnedAway

(* A step of one request leaves the others where they are. *)
LEMMA OthersStay ==
  ASSUME IInv, NEW r \in Requests, StepOf(r), NEW q \in Requests, q # r
  PROVE  /\ incoming' = incoming
         /\ at'[q] = at[q] /\ answer'[q] = answer[q]
         /\ q \in Admitted' <=> q \in Admitted
         /\ q \in TurnedAway' <=> q \in TurnedAway
         /\ StageOf(q)' = StageOf(q)
<1>1. at'[q] = at[q] /\ answer'[q] = answer[q]
  BY DEF IInv, TypeOK, StepOf, Auth, Endpoint, EnterMetrics, EnterLogging, ArriveInPublic, RefuseEarly,
         Unauthorized, ScopeRaises, Forbidden, Authorized, Invalid, Valid, CheckLimit, EndpointReturns,
         EndpointRefuses, EndpointRaises, ExitLogging, ExitMetrics, SendResponse, SendServerError,
         Goto, AnswerWith, RaiseOut
<1>2. /\ incoming' = incoming
      /\ q \in Admitted' <=> q \in Admitted
      /\ q \in TurnedAway' <=> q \in TurnedAway
  <2>1. CASE CheckLimit(r)
    <3>1. /\ incoming' = incoming
          /\ ran' = ran \/ ran' = ran \cup {<<r, windows>>}
          /\ refused' = refused \/ refused' = refused \cup {<<r, windows>>}
      BY <2>1 DEF CheckLimit
    <3> QED
      BY <3>1 DEF Admitted, TurnedAway
  <2>2. CASE ~CheckLimit(r)
    BY <2>2, OthersLeaveLimits DEF IInv, Admitted, TurnedAway
  <2> QED
    BY <2>1, <2>2
<1> QED
  BY <1>1, <1>2 DEF StageOf, Admitted, TurnedAway

(* Routing, authentication and validation let a request through. *)
LEMMA GoesOn ==
  ASSUME IInv, GateInv, NEW r \in Requests,
         \/ EnterMetrics(r) \/ EnterLogging(r) \/ Authorized(r) \/ Valid(r)
         \/ ArriveInPublic(r) /\ incoming[r].path # "metrics"
  PROVE  GateAt(r)' /\ Unseen(r)
<1>1. /\ at[r] \in Before /\ at'[r] \in Before
      /\ UNCHANGED <<incoming, answer, hits, ran, refused>>
  BY ChainAssumption DEF IInv, TypeOK, Before, EnterMetrics, EnterLogging, Authorized, Valid,
         ArriveInPublic, Goto, Arrives
<1>2. answer[r] = Unanswered /\ answer'[r] = Unanswered
  BY <1>1 DEF IInv, TypeOK, Before
<1>3. StageOf(r)' = StageOf(r)
  BY <1>1, <1>2 DEF StageOf, Before
<1>4. at'[r] = "validate" =>
        /\ incoming[r].path = "mask" /\ incoming[r].json /\ ValidToken(incoming[r].token)
        /\ incoming[r].token.scope # NotString
        /\ RequiredScopes \subseteq incoming[r].token.scope
  BY DEF IInv, TypeOK, EnterMetrics, EnterLogging, Authorized, Valid, ArriveInPublic, Goto,
         Arrives, Accepted, ValidToken
<1>5. at'[r] = "limit" => VerdictOn(incoming[r]) = Welcome
  <2>1. CASE Valid(r)
    BY <2>1 DEF GateInv, GateAt, Valid, VerdictOn
  <2>2. CASE ArriveInPublic(r)
    BY <2>2 DEF ArriveInPublic, VerdictOn
  <2> QED
    BY <2>1, <2>2 DEF IInv, TypeOK, EnterMetrics, EnterLogging, Authorized, Goto
<1>6. r \notin TurnedAway'
  BY <1>1 DEF GateInv, GateAt, TurnedAway
<1> QED
  BY <1>1, <1>2, <1>3, <1>4, <1>5, <1>6 DEF GateAt, Unseen, Before

(* They refuse one: the answer is the verdict on it. *)
LEMMA Refuses ==
  ASSUME IInv, GateInv, NEW r \in Requests,
         RefuseEarly(r) \/ Unauthorized(r) \/ ScopeRaises(r) \/ Forbidden(r) \/ Invalid(r)
  PROVE  GateAt(r)' /\ Unseen(r)
<1>1. /\ at[r] \in {"auth", "validate"} /\ at'[r] = "logging_exit"
      /\ UNCHANGED <<incoming, hits, ran, refused>>
  BY DEF IInv, TypeOK, RefuseEarly, Unauthorized, ScopeRaises, Forbidden, Invalid, Arrives,
         AnswerWith, RaiseOut, Goto
<1>2. StageOf(r) = "outside"
  BY <1>1, BeforeIsOutside DEF Before
<1>3. incoming[r].path # "metrics"
  BY DEF RefuseEarly, Unauthorized, ScopeRaises, Forbidden, Invalid, Arrives, GateInv, GateAt
<1>4. StageOf(r)' = "outside"
  BY <1>1, <1>2, <1>3 DEF StageOf
<1>5. StatusCounted(r)' = VerdictOn(incoming[r]) /\ VerdictOn(incoming[r]) # Welcome
  <2> USE DEF StatusCounted, VerdictOn, Welcome, Raised, IInv, TypeOK
  <2>1. CASE RefuseEarly(r)
    BY <2>1 DEF RefuseEarly, AnswerWith
  <2>2. CASE Unauthorized(r)
    BY <2>2 DEF Unauthorized, Arrives, AnswerWith, StatusOf, Accepted, ValidToken
  <2>3. CASE ScopeRaises(r)
    BY <2>3 DEF ScopeRaises, Arrives, RaiseOut, Accepted, ValidToken
  <2>4. CASE Forbidden(r)
    BY <2>4 DEF Forbidden, Arrives, AnswerWith, StatusOf, Accepted, ValidToken
  <2>5. CASE Invalid(r)
    BY <2>5 DEF Invalid, AnswerWith, GateInv, GateAt
  <2> QED
    BY <2>1, <2>2, <2>3, <2>4, <2>5
<1>6. StatusCounted(r)' \in DueTo(r)'
  BY <1>1, <1>4, <1>5 DEF DueTo
<1> QED
  BY <1>1, <1>2, <1>4, <1>6 DEF GateAt, Unseen, Before

(* The endpoint answers with one of its statuses, or raises. *)
LEMMA Answers ==
  ASSUME IInv, GateInv, NEW r \in Requests, Endpoint(r)
  PROVE  GateAt(r)' /\ Unseen(r)
<1>1. /\ at[r] = "endpoint" /\ at'[r] = "logging_exit"
      /\ UNCHANGED <<incoming, hits, ran, refused>>
  BY DEF IInv, TypeOK, Endpoint, EndpointReturns, EndpointRefuses, EndpointRaises,
         AnswerWith, RaiseOut, Goto
<1>2. incoming[r].path \in {"mask", "root", "health", "metrics"}
  BY <1>1, ChainAssumption DEF IInv, TypeOK, GateInv, GateAt, VerdictOn, Welcome
<1>3. answer'[r] # Unanswered /\ StatusCounted(r)' \in OutcomesOf[incoming[r].path]
  <2> USE <1>2 DEF StatusCounted, OutcomesOf, Raised, Unanswered, IInv, TypeOK
  <2>1. CASE EndpointReturns(r)
    <3>1. PICK status \in {200, 503} : AnswerWith(r, status) /\ (status = 503 => incoming[r].path = "health")
      BY <2>1 DEF EndpointReturns
    <3> QED
      BY <3>1 DEF AnswerWith
  <2>2. CASE EndpointRefuses(r)
    <3>1. PICK status \in {400, 404} : AnswerWith(r, status) /\ incoming[r].path = "mask"
      BY <2>2 DEF EndpointRefuses, StatusOf
    <3> QED
      BY <3>1 DEF AnswerWith
  <2>3. CASE EndpointRaises(r)
    BY <2>3 DEF EndpointRaises, RaiseOut
  <2> QED
    BY <2>1, <2>2, <2>3 DEF Endpoint
<1>4. StageOf(r) = "inside" /\ StageOf(r)' = "inside"
  BY <1>1, <1>3 DEF StageOf, GateInv, GateAt, Admitted
<1>5. StatusCounted(r)' \in DueTo(r)'
  BY <1>1, <1>3, <1>4 DEF DueTo
<1> QED
  BY <1>1, <1>4, <1>5 DEF GateAt, Unseen, Before

(* The middlewares pass the answer, or the exception, on. *)
LEMMA PassesOn ==
  ASSUME IInv, GateInv, NEW r \in Requests, ExitLogging(r) \/ ExitMetrics(r)
  PROVE  GateAt(r)' /\ Unseen(r)
<1>1. /\ at[r] \in {"logging_exit", "metrics_exit"} /\ at'[r] \in {"metrics_exit", "send"}
      /\ UNCHANGED <<incoming, answer, hits, ran, refused>>
  BY DEF IInv, TypeOK, ExitLogging, ExitMetrics, Goto
<1>2. StageOf(r)' = StageOf(r)
  BY <1>1 DEF StageOf
<1>3. StatusCounted(r)' = StatusCounted(r) /\ DueTo(r)' = DueTo(r)
  BY <1>1, <1>2 DEF StatusCounted, DueTo
<1> QED
  BY <1>1, <1>2, <1>3 DEF GateInv, GateAt, Unseen, Before

(* The caller gets it, an exception as 500. *)
LEMMA IsSent ==
  ASSUME IInv, GateInv, NEW r \in Requests, SendResponse(r) \/ SendServerError(r)
  PROVE  /\ GateAt(r)'
         /\ StageOf(r)' = StageOf(r) /\ UNCHANGED <<incoming, hits>>
         /\ at[r] # "answered" /\ at'[r] = "answered"
         /\ answer'[r] \in DueTo(r) \ {Unanswered}
<1>1. /\ at[r] = "send" /\ at'[r] = "answered"
      /\ UNCHANGED <<incoming, hits, ran, refused>>
      /\ answer'[r] = StatusCounted(r)
  BY DEF IInv, TypeOK, SendResponse, SendServerError, Goto, StatusCounted
<1>2. answer[r] # Unanswered /\ StatusCounted(r) # Unanswered /\ StatusCounted(r) # Raised
  BY <1>1 DEF IInv, TypeOK, StatusCounted, Raised, Unanswered
<1>3. StageOf(r)' = StageOf(r)
  BY <1>1, <1>2 DEF StageOf
<1>4. StatusCounted(r)' = StatusCounted(r) /\ DueTo(r)' = DueTo(r)
  BY <1>1, <1>2, <1>3 DEF StatusCounted, DueTo
<1> QED
  BY <1>1, <1>2, <1>3, <1>4 DEF GateInv, GateAt, Before

(* GET /metrics enters without a limit. *)
LEMMA EntersUnlimited ==
  ASSUME IInv, GateInv, NEW r \in Requests, ArriveInPublic(r), incoming[r].path = "metrics"
  PROVE  /\ GateAt(r)'
         /\ StageOf(r) = "outside" /\ StageOf(r)' = "inside"
         /\ VerdictOn(incoming[r]) = Welcome
         /\ UNCHANGED <<incoming, hits>>
         /\ at[r] # "answered" /\ at'[r] # "answered"
<1>1. /\ at[r] = "auth" /\ at'[r] = "endpoint"
      /\ UNCHANGED <<incoming, answer, hits, ran, refused>>
  BY ChainAssumption DEF IInv, TypeOK, ArriveInPublic, Goto
<1>2. answer'[r] = Unanswered
  BY <1>1 DEF IInv, TypeOK
<1>3. VerdictOn(incoming[r]) = Welcome
  BY DEF VerdictOn
<1> QED
  BY <1>1, <1>2, <1>3, BeforeIsOutside DEF GateAt, StageOf, Before

(* One more let in on this route, in this window. *)
OneMore(own) ==
  [path \in DOMAIN Limits |-> IF path = own THEN UsedBar[path] + 1 ELSE UsedBar[path]]

(* The limiter lets a request in while the window has room, else it answers 429. *)
LEMMA LimiterDecides ==
  ASSUME IInv, GateInv, NEW r \in Requests, CheckLimit(r)
  PROVE  /\ GateAt(r)'
         /\ StageOf(r) = "outside" /\ VerdictOn(incoming[r]) = Welcome
         /\ UNCHANGED incoming
         /\ at[r] # "answered" /\ at'[r] # "answered"
         /\ incoming[r].path \in DOMAIN Limits
         /\ \/ /\ UsedBar[incoming[r].path] < Limits[incoming[r].path]
               /\ UsedBar' = OneMore(incoming[r].path)
               /\ StageOf(r)' = "inside"
            \/ /\ UsedBar[incoming[r].path] = Limits[incoming[r].path]
               /\ UsedBar' = UsedBar
               /\ StageOf(r)' = "turned_away"
<1> DEFINE own == incoming[r].path
<1>1. /\ at[r] = "limit" /\ own \in DOMAIN Limits /\ answer[r] = Unanswered
      /\ UNCHANGED incoming
      /\ hits' = [hits EXCEPT ![own] = @ + 1]
  BY DEF CheckLimit, Counter, IInv, TypeOK, AuthInv
<1>2. /\ VerdictOn(incoming[r]) = Welcome
      /\ StageOf(r) = "outside" /\ r \notin Admitted /\ r \notin TurnedAway
  BY <1>1, BeforeIsOutside DEF GateInv, GateAt, Before, IInv, LimitInv, Admitted
<1>3. hits \in [DOMAIN Limits -> Nat] /\ Limits \in [DOMAIN Limits -> Nat]
  BY ChainAssumption DEF IInv, TypeOK
<1>4. CASE hits[own] + 1 <= Limits[own]
  <2>1. /\ ran' = ran \cup {<<r, windows>>} /\ refused' = refused /\ answer' = answer
        /\ at'[r] = "endpoint"
    BY <1>1, <1>3, <1>4 DEF CheckLimit, Counter, Goto, IInv, TypeOK
  <2>2. r \in Admitted' /\ StageOf(r)' = "inside"
    <3>1. <<r, windows>> \in ran' /\ <<r, windows>>[1] = r
      BY <2>1
    <3> QED
      BY <2>1, <3>1 DEF Admitted, StageOf
  <2>3. UsedBar[own] < Limits[own] /\ UsedBar' = OneMore(own)
    <3>1. hits[own] < Limits[own] /\ UsedBar[own] = hits[own]
      BY <1>1, <1>3, <1>4 DEF UsedBar
    <3>2. ASSUME NEW path \in DOMAIN Limits
          PROVE  (IF hits'[path] < Limits[path] THEN hits'[path] ELSE Limits[path])
                   = IF path = own THEN UsedBar[path] + 1 ELSE UsedBar[path]
      BY <1>1, <1>3, <1>4, <3>1 DEF UsedBar
    <3> QED
      BY <3>1, <3>2 DEF UsedBar, OneMore
  <2>4. GateAt(r)'
    BY <1>1, <1>2, <2>1, <2>2 DEF GateAt, Before
  <2> QED
    BY <1>1, <1>2, <2>1, <2>2, <2>3, <2>4
<1>5. CASE ~(hits[own] + 1 <= Limits[own])
  <2>1. /\ ran' = ran /\ refused' = refused \cup {<<r, windows>>}
        /\ answer'[r] = 429 /\ at'[r] = "logging_exit"
    BY <1>1, <1>3, <1>5 DEF CheckLimit, Counter, AnswerWith, Goto, IInv, TypeOK
  <2>2. StageOf(r)' = "turned_away"
    <3>1. r \in TurnedAway' /\ r \notin Admitted'
      <4>1. <<r, windows>> \in refused' /\ <<r, windows>>[1] = r
        BY <2>1
      <4>2. r \in TurnedAway'
        BY <4>1 DEF TurnedAway
      <4>3. Admitted' = Admitted
        BY <2>1 DEF Admitted
      <4> QED
        BY <1>2, <4>2, <4>3
    <3>2. own # "metrics"
      BY <1>1, ChainAssumption
    <3> QED
      BY <1>1, <2>1, <3>1, <3>2 DEF StageOf, Admitted, TurnedAway
  <2>3. UsedBar[own] = Limits[own] /\ UsedBar' = UsedBar
    <3>1. ~(hits[own] < Limits[own]) /\ ~(hits'[own] < Limits[own])
      BY <1>1, <1>3, <1>5
    <3>2. \A path \in DOMAIN Limits : path # own => hits'[path] = hits[path]
      BY <1>1, <1>3
    <3> QED
      BY <1>1, <3>1, <3>2 DEF UsedBar
  <2>4. StatusCounted(r)' \in DueTo(r)'
    BY <2>1, <2>2 DEF StatusCounted, DueTo, Raised
  <2>5. GateAt(r)'
    BY <2>1, <2>4 DEF GateAt, Before
  <2> QED
    BY <1>1, <1>2, <2>1, <2>2, <2>3, <2>5
<1> QED
  BY <1>3, <1>4, <1>5

-----------------------------------------------------------------------------
(* Nobody has been judged at the start. *)
LEMMA GateInit == Init => GateInv
  BY DEF Init, GateInv, GateAt, Before, TurnedAway

(* Each step of a request keeps what is known of it and of the others. *)
LEMMA GateStep ==
  ASSUME IInv, GateInv, NEW r \in Requests, StepOf(r) PROVE GateInv'
<1>1. GateAt(r)'
  BY GoesOn, Refuses, Answers, PassesOn, IsSent, EntersUnlimited, LimiterDecides DEF StepOf, Auth
<1>2. ASSUME NEW q \in Requests, q # r PROVE GateAt(q)'
  <2>1. /\ incoming' = incoming /\ at'[q] = at[q] /\ answer'[q] = answer[q]
        /\ q \in Admitted' <=> q \in Admitted
        /\ q \in TurnedAway' <=> q \in TurnedAway
        /\ StageOf(q)' = StageOf(q)
    BY <1>2, OthersStay
  <2>2. StatusCounted(q)' = StatusCounted(q) /\ DueTo(q)' = DueTo(q)
    BY <2>1 DEF StatusCounted, DueTo
  <2> QED
    BY <2>1, <2>2 DEF GateInv, GateAt
<1> QED
  BY <1>1, <1>2 DEF GateInv

(* A step that touches neither requests nor verdicts keeps it too. *)
LEMMA GateKept ==
  ASSUME GateInv, UNCHANGED <<incoming, at, answer, ran, refused>>
  PROVE  GateInv' /\ StageBar' = StageBar /\ ReplyBar' = ReplyBar
<1>1. /\ \A r : StageOf(r)' = StageOf(r)
      /\ Admitted' = Admitted /\ TurnedAway' = TurnedAway
  BY DEF StageOf, Admitted, TurnedAway
<1>2. \A r : StatusCounted(r)' = StatusCounted(r) /\ DueTo(r)' = DueTo(r)
  BY <1>1 DEF StatusCounted, DueTo
<1> QED
  BY <1>1, <1>2 DEF GateInv, GateAt, StageBar, ReplyBar

(* What the refinement needs is invariant, too. *)
THEOREM GateInvariance == Spec => [](IInv /\ GateInv)
<1>1. IInv /\ GateInv /\ [Next]_vars => GateInv'
  BY GateStep, GateKept DEF Next, StepOf, NextWindow, vars
<1> QED
  BY <1>1, GateInit, Invariance, PTL DEF Spec

-----------------------------------------------------------------------------
(* Seen from outside, one request moves at a time. *)
LEMMA BarsMove ==
  ASSUME IInv, NEW r \in Requests, StepOf(r)
  PROVE  /\ StageBar' = [StageBar EXCEPT ![r] = StageOf(r)']
         /\ ReplyBar' = [ReplyBar EXCEPT ![r] = IF at'[r] = "answered" THEN answer'[r] ELSE Unanswered]
<1>1. \A q \in Requests : q # r =>
        StageOf(q)' = StageOf(q) /\ at'[q] = at[q] /\ answer'[q] = answer[q]
  BY OthersStay
<1> QED
  BY <1>1 DEF StageBar, ReplyBar

(* Each step of a request is one of the gate's, or none. *)
LEMMA RequestMaps ==
  ASSUME IInv, GateInv, NEW r \in Requests, StepOf(r)
  PROVE  [Gate!Next]_Gate!gateVars
<1> DEFINE own == incoming[r].path
<1>1. /\ StageBar' = [StageBar EXCEPT ![r] = StageOf(r)']
      /\ ReplyBar' = [ReplyBar EXCEPT ![r] = IF at'[r] = "answered" THEN answer'[r] ELSE Unanswered]
      /\ StageBar[r] = StageOf(r)
      /\ ReplyBar[r] = IF at[r] = "answered" THEN answer[r] ELSE Unanswered
      /\ StageBar \in [Requests -> {"inside", "turned_away", "outside"}]
      /\ ReplyBar = [q \in Requests |-> ReplyBar[q]]
  BY BarsMove DEF StageBar, ReplyBar, StageOf
<1>2. incoming[r] \in Incoming
  BY DEF IInv, TypeOK
<1>3. CASE Unseen(r)
  <2>1. incoming' = incoming /\ UsedBar' = UsedBar
    BY <1>3 DEF Unseen, UsedBar
  <2>2. StageBar' = StageBar /\ ReplyBar' = ReplyBar
    BY <1>1, <1>3 DEF Unseen
  <2> QED
    BY <2>1, <2>2 DEF Gate!gateVars, StageBar, ReplyBar, UsedBar
<1>4. CASE ArriveInPublic(r) /\ own = "metrics"
  <2>1. /\ StageOf(r) = "outside" /\ StageOf(r)' = "inside"
        /\ VerdictOn(incoming[r]) = Welcome
        /\ UNCHANGED <<incoming, hits>>
        /\ at[r] # "answered" /\ at'[r] # "answered"
    BY <1>4, EntersUnlimited
  <2>2. own \notin DOMAIN Limits
    BY <1>4, ChainAssumption
  <2>3. /\ StageBar[r] = "outside" /\ StageBar' = [StageBar EXCEPT ![r] = "inside"]
        /\ ReplyBar' = ReplyBar
    BY <1>1, <2>1
  <2>4. UsedBar' = OneMore(own)
    <3>1. UsedBar' = UsedBar
      BY <2>1 DEF UsedBar
    <3>2. UsedBar = OneMore(own)
      BY <2>2 DEF UsedBar, OneMore
    <3> QED
      BY <3>1, <3>2
  <2>5. Gate!LetIn(r)
    BY <1>2, <2>1, <2>2, <2>3, <2>4 DEF Gate!LetIn, Gate!Path, StageBar, ReplyBar, UsedBar, OneMore
  <2> QED
    BY <2>5 DEF Gate!Next
<1>5. CASE CheckLimit(r)
  <2>1. /\ StageOf(r) = "outside" /\ VerdictOn(incoming[r]) = Welcome
        /\ UNCHANGED incoming /\ own \in DOMAIN Limits
        /\ at[r] # "answered" /\ at'[r] # "answered"
    BY <1>5, LimiterDecides
  <2>2. StageBar[r] = "outside" /\ ReplyBar' = ReplyBar
    BY <1>1, <2>1
  <2>3. CASE /\ UsedBar[own] < Limits[own]
             /\ UsedBar' = OneMore(own)
             /\ StageOf(r)' = "inside"
    <3>1. StageBar' = [StageBar EXCEPT ![r] = "inside"]
      BY <1>1, <2>3
    <3>2. Gate!LetIn(r)
      BY <1>2, <2>1, <2>2, <2>3, <3>1 DEF Gate!LetIn, Gate!Path, StageBar, ReplyBar, UsedBar, OneMore
    <3> QED
      BY <3>2 DEF Gate!Next
  <2>4. CASE /\ UsedBar[own] = Limits[own]
             /\ UsedBar' = UsedBar
             /\ StageOf(r)' = "turned_away"
    <3>1. StageBar' = [StageBar EXCEPT ![r] = "turned_away"]
      BY <1>1, <2>4
    <3>2. Gate!TurnAway(r)
      BY <1>2, <2>1, <2>2, <2>4, <3>1 DEF Gate!TurnAway, Gate!Path, StageBar, ReplyBar, UsedBar
    <3> QED
      BY <3>2 DEF Gate!Next
  <2> QED
    BY <1>5, <2>3, <2>4, LimiterDecides
<1>6. CASE SendResponse(r) \/ SendServerError(r)
  <2>1. /\ StageBar' = StageBar /\ UsedBar' = UsedBar /\ UNCHANGED incoming
        /\ ReplyBar[r] = Unanswered
        /\ ReplyBar' = [ReplyBar EXCEPT ![r] = answer'[r]]
        /\ answer'[r] \in DueTo(r)
    BY <1>1, <1>6, IsSent DEF UsedBar
  <2>2. DueTo(r) = Gate!Due(r)
    <3>1. StageOf(r) \in {"outside", "inside", "turned_away"}
      BY DEF StageOf
    <3> QED
      BY <1>2, <3>1 DEF DueTo, Gate!Due, Gate!Path
  <2>3. Gate!Reply(r)
    BY <2>1, <2>2 DEF Gate!Reply, StageBar, ReplyBar, UsedBar
  <2> QED
    BY <2>3 DEF Gate!Next
<1> QED
  BY <1>3, <1>4, <1>5, <1>6, GoesOn, Refuses, Answers, PassesOn DEF StepOf, Auth

(* Windows end in both. *)
LEMMA WindowMaps ==
  ASSUME IInv, GateInv, NextWindow PROVE Gate!NextWindow
<1>1. StageBar' = StageBar /\ ReplyBar' = ReplyBar /\ incoming' = incoming
  BY GateKept DEF NextWindow
<1>2. UsedBar' = [path \in DOMAIN Limits |-> 0]
  BY ChainAssumption DEF NextWindow, UsedBar
<1> QED
  BY <1>1, <1>2 DEF Gate!NextWindow, StageBar, ReplyBar, UsedBar

(* At first everyone is outside and unanswered. *)
LEMMA InitMaps == Init => Gate!Init
<1> SUFFICES ASSUME Init PROVE Gate!Init
  OBVIOUS
<1>1. StageBar = [r \in Requests |-> "outside"]
  BY DEF Init, StageBar, StageOf
<1>2. ReplyBar = [r \in Requests |-> Unanswered]
  BY DEF Init, ReplyBar
<1>3. UsedBar = [path \in DOMAIN Limits |-> 0]
  BY ChainAssumption DEF Init, UsedBar
<1> QED
  BY <1>1, <1>2, <1>3 DEF Init, Gate!Init, StageBar, ReplyBar, UsedBar

(* The chain implements the gate, for any number of requests and windows. *)
THEOREM GateIsKept == Spec => KeepsTheGate
<1>1. IInv /\ GateInv /\ [Next]_vars => [Gate!Next]_Gate!gateVars
  <2> SUFFICES ASSUME IInv, GateInv, [Next]_vars PROVE [Gate!Next]_Gate!gateVars
    OBVIOUS
  <2>1. CASE \E r \in Requests : StepOf(r)
    BY <2>1, RequestMaps
  <2>2. CASE NextWindow
    BY <2>2, WindowMaps DEF Gate!Next
  <2>3. CASE UNCHANGED vars
    <3>1. StageBar' = StageBar /\ ReplyBar' = ReplyBar /\ UsedBar' = UsedBar /\ incoming' = incoming
      BY <2>3, GateKept DEF vars, UsedBar
    <3> QED
      BY <3>1 DEF Gate!gateVars, StageBar, ReplyBar, UsedBar
  <2> QED
    BY <2>1, <2>2, <2>3 DEF Next, StepOf
<1> QED
  BY InitMaps, GateInvariance, <1>1, PTL DEF Spec, KeepsTheGate, Gate!Spec

=============================================================================
