---------------------------- MODULE HttpFetchProofs ----------------------------
(***************************************************************************)
(* Proofs about HttpFetch, for any limits, URLs, statuses and timeout.     *)
(***************************************************************************)
EXTENDS HttpFetch, TLAPS

(* The invariants are inductive together: that a document is whole relies on
   SizeLimit, each of the others on TypeOK only. *)
IInv == TypeOK /\ SizeLimit /\ OkIsComplete

-----------------------------------------------------------------------------
LEMMA TypeStep ==
  ASSUME TypeOK, [Next]_vars PROVE TypeOK'
<1> USE LimitsAssumption DEF TypeOK
<1>1. CASE ParseRaises
  BY <1>1 DEF ParseRaises, Finish, request, response, wire, body, time, Raised
<1>2. CASE RejectUrl
  BY <1>2 DEF RejectUrl, Finish, request, response, wire, body, time, Raised
<1>3. CASE ResolveRaises
  BY <1>3 DEF ResolveRaises, Finish, request, response, wire, body, time, Raised
<1>4. CASE AssertPublicHost
  BY <1>4 DEF AssertPublicHost, Resolvable, Finish, request, response, wire, body, time, Raised
<1>5. CASE RequestRaises
  BY <1>5 DEF RequestRaises, Finish, request, response, wire, body, time, Raised
<1>6. CASE Connect
  BY <1>6 DEF Connect, Finish, request, response, wire, body, time
<1>7. CASE ReceiveInterim
  BY <1>7 DEF ReceiveInterim, Finish, request, response, wire, body, time
<1>8. CASE ReceiveHeaders
  BY <1>8 DEF ReceiveHeaders, Finish, request, response, wire, body, time, Raised
<1>9. CASE ReceiveChunk
  BY <1>9 DEF ReceiveChunk, Finish, request, response, wire, body, time, Raised
<1>10. CASE ReceiveNothing
  BY <1>10 DEF ReceiveNothing, Finish, request, response, wire, body, time
<1>11. CASE EndOfBody
  BY <1>11 DEF EndOfBody, Finish, request, response, wire, body, time
<1>12. CASE BodyCutShort
  BY <1>12 DEF BodyCutShort, Finish, request, response, wire, body, time, Raised
<1>13. CASE NetworkError
  BY <1>13 DEF NetworkError, Finish, request, response, wire, body, time, Raised, Busy
<1>14. CASE TimeOut
  BY <1>14 DEF TimeOut, Finish, request, response, wire, body, time, Raised, Busy
<1>15. CASE ServerSends
  BY <1>15 DEF ServerSends, Finish, request, response, wire, body, time
<1>16. CASE ServerCloses
  BY <1>16 DEF ServerCloses, Finish, request, response, wire, body, time
<1>17. CASE Tick
  BY <1>17 DEF Tick, Finish, request, response, wire, body, time, Busy
<1>18. CASE UNCHANGED vars
  BY <1>18 DEF vars
<1> QED
  BY <1>1, <1>2, <1>3, <1>4, <1>5, <1>6, <1>7, <1>8, <1>9, <1>10, <1>11, <1>12, <1>13, <1>14, <1>15, <1>16, <1>17, <1>18 DEF Next, Validate, Client

LEMMA SizeStep ==
  ASSUME TypeOK, SizeLimit, [Next]_vars PROVE SizeLimit'
<1> USE LimitsAssumption DEF TypeOK, SizeLimit
<1>1. CASE ParseRaises
  BY <1>1 DEF ParseRaises, Finish, request, response, wire, body, time
<1>2. CASE RejectUrl
  BY <1>2 DEF RejectUrl, Finish, request, response, wire, body, time
<1>3. CASE ResolveRaises
  BY <1>3 DEF ResolveRaises, Finish, request, response, wire, body, time
<1>4. CASE AssertPublicHost
  BY <1>4 DEF AssertPublicHost, Finish, request, response, wire, body, time
<1>5. CASE RequestRaises
  BY <1>5 DEF RequestRaises, Finish, request, response, wire, body, time
<1>6. CASE Connect
  BY <1>6 DEF Connect, Finish, request, response, wire, body, time
<1>7. CASE ReceiveInterim
  BY <1>7 DEF ReceiveInterim, Finish, request, response, wire, body, time
<1>8. CASE ReceiveHeaders
  BY <1>8 DEF ReceiveHeaders, Finish, request, response, wire, body, time
<1>9. CASE ReceiveChunk
  BY <1>9 DEF ReceiveChunk, Finish, request, response, wire, body, time
<1>10. CASE ReceiveNothing
  BY <1>10 DEF ReceiveNothing, Finish, request, response, wire, body, time
<1>11. CASE EndOfBody
  BY <1>11 DEF EndOfBody, Finish, request, response, wire, body, time
<1>12. CASE BodyCutShort
  BY <1>12 DEF BodyCutShort, Finish, request, response, wire, body, time
<1>13. CASE NetworkError
  BY <1>13 DEF NetworkError, Finish, request, response, wire, body, time
<1>14. CASE TimeOut
  BY <1>14 DEF TimeOut, Finish, request, response, wire, body, time
<1>15. CASE ServerSends
  BY <1>15 DEF ServerSends, Finish, request, response, wire, body, time
<1>16. CASE ServerCloses
  BY <1>16 DEF ServerCloses, Finish, request, response, wire, body, time
<1>17. CASE Tick
  BY <1>17 DEF Tick, Finish, request, response, wire, body, time
<1>18. CASE UNCHANGED vars
  BY <1>18 DEF vars
<1> QED
  BY <1>1, <1>2, <1>3, <1>4, <1>5, <1>6, <1>7, <1>8, <1>9, <1>10, <1>11, <1>12, <1>13, <1>14, <1>15, <1>16, <1>17, <1>18 DEF Next, Validate, Client

LEMMA CompleteStep ==
  ASSUME TypeOK, SizeLimit, OkIsComplete, [Next]_vars PROVE OkIsComplete'
<1> USE LimitsAssumption DEF TypeOK, OkIsComplete
<1>1. CASE ParseRaises
  BY <1>1 DEF ParseRaises, Finish, request, response, wire, body, time
<1>2. CASE RejectUrl
  BY <1>2 DEF RejectUrl, Finish, request, response, wire, body, time
<1>3. CASE ResolveRaises
  BY <1>3 DEF ResolveRaises, Finish, request, response, wire, body, time
<1>4. CASE AssertPublicHost
  BY <1>4 DEF AssertPublicHost, Finish, request, response, wire, body, time
<1>5. CASE RequestRaises
  BY <1>5 DEF RequestRaises, Finish, request, response, wire, body, time
<1>6. CASE Connect
  BY <1>6 DEF Connect, Finish, request, response, wire, body, time
<1>7. CASE ReceiveInterim
  BY <1>7 DEF ReceiveInterim, Finish, request, response, wire, body, time
<1>8. CASE ReceiveHeaders
  BY <1>8 DEF ReceiveHeaders, Finish, request, response, wire, body, time
<1>9. CASE ReceiveChunk
  BY <1>9 DEF ReceiveChunk, Finish, request, response, wire, body, time
<1>10. CASE ReceiveNothing
  BY <1>10 DEF ReceiveNothing, Finish, request, response, wire, body, time
<1>11. CASE EndOfBody
  BY <1>11 DEF EndOfBody, Finish, request, response, wire, body, time, SizeLimit
<1>12. CASE BodyCutShort
  BY <1>12 DEF BodyCutShort, Finish, request, response, wire, body, time
<1>13. CASE NetworkError
  BY <1>13 DEF NetworkError, Finish, request, response, wire, body, time
<1>14. CASE TimeOut
  BY <1>14 DEF TimeOut, Finish, request, response, wire, body, time
<1>15. CASE ServerSends
  BY <1>15 DEF ServerSends, Finish, request, response, wire, body, time
<1>16. CASE ServerCloses
  BY <1>16 DEF ServerCloses, Finish, request, response, wire, body, time
<1>17. CASE Tick
  BY <1>17 DEF Tick, Finish, request, response, wire, body, time, Busy
<1>18. CASE UNCHANGED vars
  BY <1>18 DEF vars
<1> QED
  BY <1>1, <1>2, <1>3, <1>4, <1>5, <1>6, <1>7, <1>8, <1>9, <1>10, <1>11, <1>12, <1>13, <1>14, <1>15, <1>16, <1>17, <1>18 DEF Next, Validate, Client

-----------------------------------------------------------------------------
(* The inductive invariant holds against any server. *)
THEOREM Invariance == Spec => []IInv
<1>1. ASSUME Init PROVE IInv
  <2> USE <1>1, LimitsAssumption DEF Init
  <2>0. addresses \in AddressLists \cup {<<>>}
    BY Zenon
  <2>1. TypeOK
    <3>1. sent \in 0..MaxBody /\ total \in 0..sent /\ buffered \in 0..total
      OBVIOUS
    <3>2. quiet \in 0..Timeout /\ elapsed \in 0..(Timeout + 1)
      OBVIOUS
    <3> QED
      BY <2>0, <3>1, <3>2, Zenon DEF TypeOK
  <2>2. SizeLimit
    BY DEF SizeLimit
  <2>3. OkIsComplete
    BY DEF OkIsComplete
  <2> QED
    BY <2>1, <2>2, <2>3 DEF IInv
<1>2. IInv /\ [Next]_vars => IInv'
  BY TypeStep, SizeStep, CompleteStep DEF IInv
<1> QED
  BY <1>1, <1>2, PTL DEF Spec

(* Types, and that a fetch is over exactly when it has an outcome. *)
THEOREM TypeCorrect == Spec => []TypeOK
<1>1. IInv => TypeOK
  BY DEF IInv
<1> QED
  BY Invariance, <1>1, PTL

(* max_bytes is exact, at the end and while the body is read. *)
THEOREM LimitHolds == Spec => []SizeLimit
<1>1. IInv => SizeLimit
  BY DEF IInv
<1> QED
  BY Invariance, <1>1, PTL

(* What fetch_url returns is the whole body. *)
THEOREM DocumentsAreWhole == Spec => []OkIsComplete
<1>1. IInv => OkIsComplete
  BY DEF IInv
<1> QED
  BY Invariance, <1>1, PTL

=============================================================================
