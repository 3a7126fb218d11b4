-------------------------- MODULE MaskPipelineProofs --------------------------
(***************************************************************************)
(* For any number of requests, policies, documents and ids: what run()     *)
(* answers undoes the masking of what it stored, what it refuses leaves no *)
(* trace, and it implements MaskJob.                                       *)
(***************************************************************************)
EXTENDS MaskPipeline, TLAPS

(* A masked document is one; masking is undone by its own token map. *)
LEMMA MaskedType ==
  ASSUME NEW doc \in Documents, NEW fs \in SUBSET Fields
  PROVE  Masked(doc, fs) \in MaskedDocuments
  <1>1. \A f \in Fields : <<f, doc[f]>> \in Fields \X Values /\ doc[f] \in Values
    BY DEF Documents
  <1>2. \A f \in Fields : TokenOf[<<f, doc[f]>>] \in Tokens
    BY <1>1 DEF Tokens
  <1>3. QED
    BY <1>1, <1>2 DEF Masked, MaskedDocuments

(* A masked document and its own token map give the document back: Unmask
   undoes Masked (MaskDocumentResponse.tokens, as the caller uses them). *)
LEMMA UnmaskMasked ==
  ASSUME NEW doc \in Documents, NEW fs \in SUBSET Fields
  PROVE  Unmask(Masked(doc, fs), TokenMap(doc, fs)) = doc
  <1> DEFINE masked == Masked(doc, fs)
             tokens == TokenMap(doc, fs)
             tok(f) == TokenOf[<<f, doc[f]>>]
  <1>1. \A f \in Fields : <<f, doc[f]>> \in Fields \X Values /\ doc[f] \in Values
    BY DEF Documents
  <1>2. \A f, g \in Fields : tok(f) = tok(g) => f = g
    <2> SUFFICES ASSUME NEW f \in Fields, NEW g \in Fields, tok(f) = tok(g)
                 PROVE  f = g
      OBVIOUS
    <2>1. <<f, doc[f]>> = <<g, doc[g]>>
      BY <1>1, TokenAssumption
    <2>2. QED
      BY <2>1
  <1>3. DOMAIN tokens = { tok(f) : f \in fs }
    BY DEF TokenMap
  <1>4. ASSUME NEW f \in fs
        PROVE  tokens[tok(f)] = <<doc[f], f>>
    <2>1. (CHOOSE g \in fs : tok(g) = tok(f)) = f
      BY <1>2
    <2>2. QED
      BY <2>1 DEF TokenMap
  <1>5. ASSUME NEW f \in Fields
        PROVE  (IF masked[f] \in DOMAIN tokens THEN tokens[masked[f]][1] ELSE masked[f]) = doc[f]
    <2>1. CASE f \in fs
      <3>1. masked[f] = tok(f)
        BY <2>1 DEF Masked
      <3>2. masked[f] \in DOMAIN tokens
        BY <1>3, <2>1, <3>1
      <3>3. QED
        BY <1>4, <2>1, <3>1, <3>2
    <2>2. CASE f \notin fs
      <3>1. masked[f] = doc[f]
        BY <2>2 DEF Masked
      <3>2. masked[f] \notin DOMAIN tokens
        <4>1. \A g \in fs : tok(g) \notin Values
          BY <1>1, TokenAssumption
        <4>2. doc[f] \in Values
          BY <1>1
        <4>3. QED
          BY <1>3, <3>1, <4>1, <4>2
      <3>3. QED
        BY <3>1, <3>2
    <2>3. QED
      BY <2>1, <2>2
  <1>6. Unmask(masked, tokens) = [f \in Fields |-> doc[f]]
    BY <1>5 DEF Unmask
  <1>7. QED
    BY <1>6 DEF Documents

-----------------------------------------------------------------------------
(* The document r stores, if it comes to that. *)
Own(r) == Masked(fetched[r], policy[r].fields)

(* Where a request can be when something of it is, or is going, in the bucket. *)
Sent(r) == pc[r] \in {"putting", "presign", "respond", "ok", "server_error", "lost"}

ResultInv(r) ==
  pc[r] \in {"upload", "putting", "presign", "respond", "ok"} =>
    /\ fetched[r] \in Documents
    /\ policy[r] \in Rows
    /\ result[r] = [masked |-> Own(r), tokens |-> TokenMap(fetched[r], policy[r].fields)]

KeyInv(r) ==
  docId[r] # NoDocId =>
    /\ puts[docId[r]] # NoObject =>
         /\ puts[docId[r]] = Own(r)
         /\ bucket[docId[r]] = NoObject
         /\ Sent(r) /\ fetched[r] \in Documents /\ policy[r] \in Rows
    /\ bucket[docId[r]] # NoObject =>
         /\ bucket[docId[r]] = Own(r)
         /\ Sent(r) /\ fetched[r] \in Documents /\ policy[r] \in Rows

RequestInv(r) ==
  /\ pc[r] \in {"new", "lookup"} => policy[r] = NoPolicy
  /\ ResultInv(r)
  /\ KeyInv(r)
  /\ pc[r] \in {"presign", "respond", "ok"} => bucket[docId[r]] # NoObject

(* Ids are fresh, and nothing is stored under an id that no run has. *)
FreshInv ==
  /\ \A r, q \in Requests : docId[r] = docId[q] /\ docId[r] # NoDocId => r = q
  /\ \A k \in DocIds : (\A r \in Requests : docId[r] # k) => puts[k] = NoObject /\ bucket[k] = NoObject

(* result is a function on Requests; what its values are is ResultInv's. *)
ResultType == result = [r \in Requests |-> result[r]]

IInv == TypeOK /\ ResultType /\ FreshInv /\ \A r \in Requests : RequestInv(r)

-----------------------------------------------------------------------------
(* The invariant holds before any request has run. *)
LEMMA IInvInit == Init => IInv
  <1> SUFFICES ASSUME Init PROVE IInv
    OBVIOUS
  <1>1. TypeOK
    BY RowsAssumption, NullAssumption DEF Init, TypeOK, Running, Ended
  <1>2. FreshInv
    BY DEF Init, FreshInv
  <1>3. \A r \in Requests : RequestInv(r)
    BY DEF Init, RequestInv, ResultInv, KeyInv
  <1>4. ResultType
    BY DEF Init, ResultType
  <1>5. QED
    BY <1>1, <1>2, <1>3, <1>4 DEF IInv

(* Freshness depends on the ids and on S3 only. *)
LEMMA FreshKept ==
  ASSUME FreshInv, UNCHANGED <<docId, puts, bucket>>
  PROVE  FreshInv'
  BY DEF FreshInv

(* A request keeps its invariant while neither its handler nor S3 moves. *)
LEMMA OthersKept ==
  ASSUME NEW q \in Requests, RequestInv(q), UNCHANGED <<docId, puts, bucket>>,
         pc'[q] = pc[q], policy'[q] = policy[q], fetched'[q] = fetched[q], result'[q] = result[q]
  PROVE  RequestInv(q)'
  BY DEF RequestInv, ResultInv, KeyInv, Own, Sent

(* What a handler step that only moves on may do. *)
LEMMA MoveKept ==
  ASSUME IInv, NEW r \in Requests, NEW to \in Running \cup Ended,
         pc' = [pc EXCEPT ![r] = to],
         UNCHANGED <<policies, changes, policyId, docId, policy, fetched, result, puts, bucket>>,
         \/ pc[r] = "lookup" /\ to \in {"client_error", "server_error"}
         \/ pc[r] = "fetch" /\ to \in {"client_error", "server_error"}
         \/ /\ pc[r] = "putting"
            /\ \/ to = "server_error"
               \/ to = "presign" /\ bucket[docId[r]] # NoObject
         \/ pc[r] = "presign" /\ to \in {"respond", "server_error"}
         \/ pc[r] = "respond" /\ to \in {"ok", "lost"}
  PROVE  IInv'
  <1>1. TypeOK'
    BY DEF IInv, TypeOK, Running, Ended
  <1>2. FreshInv'
    BY FreshKept DEF IInv
  <1>3. ASSUME NEW q \in Requests PROVE RequestInv(q)'
    <2>1. CASE q # r
      BY <2>1, OthersKept DEF IInv, TypeOK
    <2>2. CASE q = r
      <3>1. pc[r] # to /\ pc'[r] = to
        BY DEF IInv, TypeOK
      <3>2. ResultInv(r)'
        BY <3>1 DEF IInv, RequestInv, ResultInv, Own
      <3>3. KeyInv(r)'
        BY <3>1 DEF IInv, RequestInv, KeyInv, Own, Sent
      <3>4. QED
        BY <2>2, <3>1, <3>2, <3>3 DEF IInv, RequestInv
    <2>3. QED
      BY <2>1, <2>2
  <1>4. QED
    BY <1>1, <1>2, <1>3 DEF IInv, ResultType

(* run() takes up an id that nothing is stored under. *)
LEMMA StartKept ==
  ASSUME IInv, NEW r \in Requests, Start(r)
  PROVE  IInv'
  <1>1. PICK id \in DocIds : /\ \A q \in Requests : docId[q] # id
                             /\ docId' = [docId EXCEPT ![r] = id]
    BY DEF Start
  <1>2. pc[r] = "new" /\ pc' = [pc EXCEPT ![r] = "lookup"] /\ docId[r] = NoDocId
    BY DEF Start, Goto, IInv, TypeOK
  <1>3. UNCHANGED <<policies, changes, policyId, policy, fetched, result, puts, bucket>>
    BY DEF Start
  <1>4. puts[id] = NoObject /\ bucket[id] = NoObject
    BY <1>1 DEF IInv, FreshInv
  <1>5. TypeOK'
    BY <1>1, <1>2, <1>3, NullAssumption DEF IInv, TypeOK, Running
  <1>6. FreshInv'
    BY <1>1, <1>2, <1>3, NullAssumption DEF IInv, FreshInv, TypeOK
  <1>7. ASSUME NEW q \in Requests PROVE RequestInv(q)'
    <2>1. CASE q # r
      BY <1>1, <1>2, <1>3, <2>1 DEF IInv, TypeOK, RequestInv, ResultInv, KeyInv, Own, Sent
    <2>2. CASE q = r
      BY <1>1, <1>2, <1>3, <1>4, <2>2 DEF IInv, TypeOK, RequestInv, ResultInv, KeyInv
    <2>3. QED
      BY <2>1, <2>2
  <1>8. QED
    BY <1>3, <1>5, <1>6, <1>7 DEF IInv, ResultType

(* The policy is loaded, and from now on the snapshot counts. *)
LEMMA LookupOkKept ==
  ASSUME IInv, NEW r \in Requests, LookupOk(r)
  PROVE  IInv'
  <1>1. policies[policyId[r]] \in Rows
    BY DEF LookupOk, IInv, TypeOK
  <1>2. TypeOK'
    BY <1>1 DEF LookupOk, Goto, IInv, TypeOK, Running
  <1>3. FreshInv'
    BY FreshKept DEF LookupOk, IInv
  <1>4. ASSUME NEW q \in Requests PROVE RequestInv(q)'
    <2>1. CASE q # r
      BY <2>1, OthersKept DEF LookupOk, Goto, IInv, TypeOK
    <2>2. CASE q = r
      BY <2>2 DEF LookupOk, Goto, IInv, TypeOK, RequestInv, ResultInv, KeyInv, Sent
    <2>3. QED
      BY <2>1, <2>2
  <1>5. QED
    BY <1>2, <1>3, <1>4 DEF IInv, ResultType, LookupOk

(* The result is the masking of the fetched document under the snapshot. *)
LEMMA FetchAndMaskKept ==
  ASSUME IInv, NEW r \in Requests, FetchAndMask(r)
  PROVE  IInv'
  <1>1. PICK doc \in Documents :
          /\ fetched' = [fetched EXCEPT ![r] = doc]
          /\ result' = [result EXCEPT ![r] = [masked |-> Masked(doc, policy[r].fields),
                                              tokens |-> TokenMap(doc, policy[r].fields)]]
    BY DEF FetchAndMask
  <1>2. pc[r] = "fetch" /\ pc' = [pc EXCEPT ![r] = "upload"] /\ policy[r] \in Rows
    BY DEF FetchAndMask, Goto, IInv, TypeOK, Running
  <1>3. UNCHANGED <<policies, changes, policyId, docId, policy, puts, bucket>>
    BY DEF FetchAndMask
  <1>4. TypeOK'
    BY <1>1, <1>2, <1>3 DEF IInv, TypeOK, Running
  <1>5. FreshInv'
    BY <1>3, FreshKept DEF IInv
  <1>6. ASSUME NEW q \in Requests PROVE RequestInv(q)'
    <2>1. CASE q # r
      <3>1. result'[q] = result[q]
        BY <1>1, <2>1
      <3>2. QED
        BY <1>1, <1>2, <1>3, <2>1, <3>1, OthersKept DEF IInv, TypeOK
    <2>2. CASE q = r
      <3>1. result'[r] = [masked |-> Masked(doc, policy[r].fields),
                          tokens |-> TokenMap(doc, policy[r].fields)]
        BY <1>1 DEF IInv, ResultType
      <3>2. fetched'[r] = doc /\ pc'[r] = "upload"
        BY <1>1, <1>2 DEF IInv, TypeOK
      <3>3. QED
        BY <1>2, <1>3, <2>2, <3>1, <3>2 DEF IInv, RequestInv, ResultInv, KeyInv, Own, Sent
    <2>3. QED
      BY <2>1, <2>2
  <1>7. ResultType'
    BY <1>1 DEF IInv, ResultType
  <1>8. QED
    BY <1>4, <1>5, <1>6, <1>7 DEF IInv

(* What a request has once its document is masked. *)
LEMMA ResultOf ==
  ASSUME IInv, NEW r \in Requests, pc[r] \in {"upload", "putting", "presign", "respond", "ok"}
  PROVE  /\ fetched[r] \in Documents
         /\ policy[r] \in Rows
         /\ result[r].masked = Own(r)
         /\ result[r].tokens = TokenMap(fetched[r], policy[r].fields)
  <1>1. ResultInv(r)
    BY DEF IInv, RequestInv
  <1>2. /\ fetched[r] \in Documents
        /\ policy[r] \in Rows
        /\ result[r] = [masked |-> Own(r), tokens |-> TokenMap(fetched[r], policy[r].fields)]
    BY <1>1 DEF ResultInv
  <1>3. QED
    BY <1>2

(* put_object sends the own result under the own key, and no other. *)
LEMMA UploadKept ==
  ASSUME IInv, NEW r \in Requests, Upload(r)
  PROVE  IInv'
  <1> DEFINE key == docId[r]
  <1>1. /\ pc[r] = "upload" /\ pc' = [pc EXCEPT ![r] = "putting"]
        /\ key \in DocIds
        /\ fetched[r] \in Documents /\ policy[r] \in Rows /\ result[r].masked = Own(r)
    <2>1. pc[r] = "upload" /\ pc' = [pc EXCEPT ![r] = "putting"]
      BY DEF Upload, Goto
    <2>2. key \in DocIds
      BY <2>1 DEF IInv, TypeOK
    <2>3. fetched[r] \in Documents /\ policy[r] \in Rows /\ result[r].masked = Own(r)
      BY <2>1, ResultOf
    <2>4. QED
      BY <2>1, <2>2, <2>3
  <1>2. /\ puts' = [puts EXCEPT ![key] = Own(r)]
        /\ UNCHANGED <<policies, changes, policyId, docId, policy, fetched, result, bucket>>
    BY <1>1 DEF Upload, MaskedObjectKey
  <1>3. Own(r) \in MaskedDocuments
    BY <1>1, MaskedType, RowsAssumption DEF Own
  <1>4. puts[key] = NoObject /\ bucket[key] = NoObject
    BY <1>1, NullAssumption DEF IInv, RequestInv, KeyInv, Sent
  <1>5. TypeOK'
    BY <1>1, <1>2, <1>3 DEF IInv, TypeOK, Running
  <1>6. FreshInv'
    BY <1>1, <1>2 DEF IInv, FreshInv, TypeOK
  <1>7. ASSUME NEW q \in Requests PROVE RequestInv(q)'
    <2>1. CASE q # r
      <3>1. docId[q] # NoDocId => docId[q] # key /\ docId[q] \in DocIds
        BY <1>1, <2>1, NullAssumption DEF IInv, FreshInv, TypeOK
      <3>2. QED
        BY <1>1, <1>2, <2>1, <3>1 DEF IInv, TypeOK, RequestInv, ResultInv, KeyInv, Own, Sent
    <2>2. CASE q = r
      BY <1>1, <1>2, <1>4, <2>2 DEF IInv, TypeOK, RequestInv, ResultInv, KeyInv, Own, Sent
    <2>3. QED
      BY <2>1, <2>2
  <1>8. QED
    BY <1>2, <1>5, <1>6, <1>7 DEF IInv, ResultType

(* S3 acts on one key; whoever owns it keeps its invariant. *)
LEMMA S3Kept ==
  ASSUME IInv, NEW k \in DocIds, S3Stores(k) \/ S3Drops(k)
  PROVE  IInv'
  <1>1. UNCHANGED <<policies, changes, policyId, pc, docId, policy, fetched, result>>
    BY DEF S3Stores, S3Drops
  <1>2. /\ puts[k] # NoObject /\ puts' = [puts EXCEPT ![k] = NoObject]
        /\ bucket' = bucket \/ bucket' = [bucket EXCEPT ![k] = puts[k]]
    BY DEF S3Stores, S3Drops
  <1>3. TypeOK'
    BY <1>1, <1>2 DEF IInv, TypeOK, Running
  <1>4. FreshInv'
    BY <1>1, <1>2 DEF IInv, FreshInv, TypeOK
  <1>5. ASSUME NEW q \in Requests PROVE RequestInv(q)'
    <2>1. CASE docId[q] = k
      <3>1. puts[k] = Own(q) /\ bucket[k] = NoObject /\ Sent(q)
            /\ fetched[q] \in Documents /\ policy[q] \in Rows
        BY <1>2, <2>1, NullAssumption DEF IInv, RequestInv, KeyInv
      <3>2. puts'[k] = NoObject /\ bucket'[k] \in {NoObject, Own(q)}
        BY <1>2, <3>1 DEF IInv, TypeOK
      <3>3. pc[q] \notin {"presign", "respond", "ok"}
        BY <2>1, <3>1 DEF IInv, RequestInv
      <3>4. QED
        BY <1>1, <2>1, <3>1, <3>2, <3>3 DEF IInv, RequestInv, ResultInv, KeyInv, Own, Sent
    <2>2. CASE docId[q] # k
      <3>1. docId[q] \in DocIds \cup {NoDocId}
        BY DEF IInv, TypeOK
      <3>2. docId[q] # NoDocId => puts'[docId[q]] = puts[docId[q]] /\ bucket'[docId[q]] = bucket[docId[q]]
        BY <1>2, <2>2, <3>1 DEF IInv, TypeOK
      <3>3. pc[q] \in {"presign", "respond", "ok"} => docId[q] # NoDocId
        BY DEF IInv, TypeOK
      <3>4. QED
        BY <1>1, <3>2, <3>3 DEF IInv, RequestInv, ResultInv, KeyInv, Own, Sent
    <2>3. QED
      BY <2>1, <2>2
  <1>6. QED
    BY <1>1, <1>3, <1>4, <1>5 DEF IInv, ResultType

(* A crash ends handlers; what S3 has, and will have, stays. *)
LEMMA CrashKept ==
  ASSUME IInv, Crash
  PROVE  IInv'
  <1>1. /\ UNCHANGED <<policies, changes, policyId, docId, policy, fetched, result, puts, bucket>>
        /\ pc' = [r \in Requests |-> IF pc[r] \in Running THEN "lost" ELSE pc[r]]
    BY DEF Crash
  <1>2. TypeOK'
    BY <1>1 DEF IInv, TypeOK, Running, Ended
  <1>3. ASSUME NEW q \in Requests PROVE RequestInv(q)'
    BY <1>1 DEF IInv, TypeOK, RequestInv, ResultInv, KeyInv, Own, Sent, Running
  <1>4. QED
    BY <1>1, <1>2, <1>3, FreshKept DEF IInv, ResultType

(* Writing the policy table disturbs no handler past its lookup. *)
LEMMA ChangePolicyKept ==
  ASSUME IInv, NEW p \in PolicyIds, ChangePolicy(p)
  PROVE  IInv'
  <1>1. TypeOK'
    BY RowsAssumption DEF ChangePolicy, IInv, TypeOK
  <1>2. ASSUME NEW q \in Requests PROVE RequestInv(q)'
    BY OthersKept DEF ChangePolicy, IInv
  <1>3. QED
    BY <1>1, <1>2, FreshKept DEF ChangePolicy, IInv, ResultType

(* Every step of a handler keeps the invariant: a case for each. *)
LEMMA HandlerKept ==
  ASSUME IInv, NEW r \in Requests, Handler(r)
  PROVE  IInv'
  <1>1. CASE LookupOk(r)
    BY <1>1, LookupOkKept
  <1>2. CASE FetchAndMask(r)
    BY <1>2, FetchAndMaskKept
  <1>3. CASE Upload(r)
    BY <1>3, UploadKept
  <1>4. CASE UploadAcked(r)
    BY <1>4, MoveKept DEF UploadAcked, Goto, MaskedObjectKey, Running
  <1>5. CASE LookupRefused(r) \/ LookupRaises(r)
    BY <1>5, MoveKept DEF LookupRefused, LookupRaises, Goto, Ended
  <1>6. CASE FetchRefused(r) \/ FetchOrMaskRaises(r)
    BY <1>6, MoveKept DEF FetchRefused, FetchOrMaskRaises, Goto, Ended
  <1>7. CASE UploadRaises(r) \/ PresignRaises(r)
    BY <1>7, MoveKept DEF UploadRaises, PresignRaises, Goto, Ended
  <1>8. CASE Presign(r)
    BY <1>8, MoveKept DEF Presign, Goto, Running
  <1>9. CASE Respond(r) \/ ResponseLost(r)
    BY <1>9, MoveKept DEF Respond, ResponseLost, Goto, Ended
  <1>10. QED
    BY <1>1, <1>2, <1>3, <1>4, <1>5, <1>6, <1>7, <1>8, <1>9 DEF Handler

(* Every step of the system keeps the invariant. *)
LEMMA IInvNext == IInv /\ [Next]_vars => IInv'
  <1> SUFFICES ASSUME IInv, [Next]_vars
               PROVE  IInv'
    OBVIOUS
  <1>1. CASE \E r \in Requests : Start(r) \/ Handler(r)
    BY <1>1, StartKept, HandlerKept
  <1>2. CASE \E k \in DocIds : S3Stores(k) \/ S3Drops(k)
    BY <1>2, S3Kept
  <1>3. CASE \E p \in PolicyIds : ChangePolicy(p)
    BY <1>3, ChangePolicyKept
  <1>4. CASE Crash
    BY <1>4, CrashKept
  <1>5. CASE UNCHANGED vars
    <2>1. TypeOK' /\ ResultType'
      BY <1>5 DEF IInv, TypeOK, ResultType, vars
    <2>2. FreshInv' /\ \A q \in Requests : RequestInv(q)'
      BY <1>5, FreshKept, OthersKept DEF IInv, vars
    <2>3. QED
      BY <2>1, <2>2 DEF IInv
  <1>6. QED
    BY <1>1, <1>2, <1>3, <1>4, <1>5 DEF Next

(* The inductive invariant. *)
THEOREM Invariance == Spec => []IInv
  BY IInvInit, IInvNext, PTL DEF Spec

(* Type correctness of the pipeline. *)
THEOREM TypeCorrect == Spec => []TypeOK
  BY Invariance, PTL DEF IInv

(* The tokens of every delivered response undo the masking of the object the
   response links to. *)
THEOREM AnswersReverse == Spec => []AnswerReverses
  <1>1. IInv => AnswerReverses
    <2> SUFFICES ASSUME IInv, NEW r \in Requests, pc[r] = "ok"
                 PROVE  /\ ObjectOf(r) # NoObject
                        /\ Unmask(ObjectOf(r), result[r].tokens) = fetched[r]
      BY DEF AnswerReverses
    <2>1. docId[r] # NoDocId
      BY DEF IInv, TypeOK
    <2>2. /\ bucket[docId[r]] # NoObject /\ bucket[docId[r]] = Own(r)
          /\ fetched[r] \in Documents /\ policy[r] \in Rows
          /\ result[r].tokens = TokenMap(fetched[r], policy[r].fields)
      BY <2>1, ResultOf DEF IInv, RequestInv, KeyInv
    <2>3. policy[r].fields \in SUBSET Fields
      BY <2>2, RowsAssumption
    <2>4. QED
      BY <2>1, <2>2, <2>3, UnmaskMasked DEF ObjectOf, MaskedObjectKey, Own
  <1>2. QED
    BY <1>1, Invariance, PTL

(* A refused request has left, and will leave, nothing in the bucket. *)
THEOREM RefusalsLeaveNothing == Spec => []RefusedLeavesNothing
  <1>1. IInv => RefusedLeavesNothing
    <2> SUFFICES ASSUME IInv, NEW r \in Requests, pc[r] = "client_error"
                 PROVE  ObjectOf(r) = NoObject /\ puts[docId[r]] = NoObject
      BY DEF RefusedLeavesNothing, MaskedObjectKey
    <2>1. docId[r] # NoDocId
      BY DEF IInv, TypeOK
    <2>2. QED
      BY <2>1 DEF IInv, RequestInv, KeyInv, Sent, ObjectOf, MaskedObjectKey
  <1>2. QED
    BY <1>1, Invariance, PTL

(* No step changes an object that is in the bucket. *)
THEOREM ObjectsNeverChange == Spec => ObjectsAreFinal
  <1>1. IInv /\ [Next]_vars => [\A k \in DocIds : bucket[k] # NoObject => bucket'[k] = bucket[k]]_vars
    <2> SUFFICES ASSUME IInv, Next, NEW k \in DocIds, bucket[k] # NoObject
                 PROVE  bucket'[k] = bucket[k]
      OBVIOUS
    <2>1. CASE \E r \in Requests : Start(r) \/ Handler(r)
      BY <2>1 DEF Start, Handler, LookupOk, LookupRefused, LookupRaises, FetchAndMask, FetchRefused,
                  FetchOrMaskRaises, Upload, UploadAcked, UploadRaises, Presign, PresignRaises,
                  Respond, ResponseLost
    <2>2. ASSUME NEW j \in DocIds, S3Stores(j) \/ S3Drops(j)
          PROVE  bucket'[k] = bucket[k]
      <3>1. CASE j = k
        <4>1. \E r \in Requests : docId[r] = k
          BY DEF IInv, FreshInv
        <4>2. puts[k] = NoObject
          BY <4>1, NullAssumption DEF IInv, RequestInv, KeyInv
        <4>3. QED
          BY <2>2, <3>1, <4>2 DEF S3Stores, S3Drops
      <3>2. CASE j # k
        BY <2>2, <3>2 DEF S3Stores, S3Drops, IInv, TypeOK
      <3>3. QED
        BY <3>1, <3>2
    <2>3. CASE \E p \in PolicyIds : ChangePolicy(p)
      BY <2>3 DEF ChangePolicy
    <2>4. CASE Crash
      BY <2>4 DEF Crash
    <2>5. QED
      BY <2>1, <2>2, <2>3, <2>4 DEF Next
  <1>2. QED
    BY <1>1, Invariance, PTL DEF Spec, ObjectsAreFinal

-----------------------------------------------------------------------------
(***************************************************************************)
(* Refinement: what the mapping of Promise makes of a step.                *)
(***************************************************************************)
JobBar      == [r \in Requests |-> JobAt(pc[r])]
TermsBar    == [r \in Requests |-> IF policy[r] = NoPolicy THEN NoTerms ELSE policy[r].fields]
OriginalBar == [r \in Requests |-> IF ObjectOf(r) = NoObject THEN NoDocument ELSE fetched[r]]
StoreBar    == [r \in Requests |-> ObjectOf(r)]
AnswerBar   == [r \in Requests |-> IF pc[r] = "ok" THEN result[r].tokens ELSE NoAnswer]

(* MaskJob masks as the pipeline does. *)
LEMMA SameMasking ==
  /\ Promise!Documents = Documents
  /\ \A doc, fs : Promise!Masked(doc, fs) = Masked(doc, fs)
  /\ \A doc, fs : Promise!TokenMap(doc, fs) = TokenMap(doc, fs)
  BY DEF Documents, Masked, TokenMap, Promise!Documents, Promise!Masked, Promise!TokenMap

(* Before its put is sent a request has no object. *)
LEMMA Unsent ==
  ASSUME IInv, NEW r \in Requests, ~Sent(r)
  PROVE  ObjectOf(r) = NoObject
  BY DEF IInv, RequestInv, KeyInv, ObjectOf, MaskedObjectKey

(* An object is known by its request, and by nothing a handler step changes. *)
LEMMA StoreKept ==
  ASSUME UNCHANGED <<docId, bucket>>
  PROVE  \A r \in Requests : ObjectOf(r)' = ObjectOf(r)
  BY DEF ObjectOf, MaskedObjectKey

(* Initially no job of MaskJob has been taken up and nothing is stored. *)
THEOREM KeepsPromiseInit == Init => Promise!Init
  <1> SUFFICES ASSUME Init PROVE Promise!Init
    OBVIOUS
  <1>1. \A r \in Requests : JobAt(pc[r]) = "waiting" /\ ObjectOf(r) = NoObject /\ policy[r] = NoPolicy
    BY DEF Init, JobAt, ObjectOf, Running
  <1>2. QED
    BY <1>1 DEF Init, Promise!Init, NoTerms, NoAnswer

(* A handler that moves on without a result changes its job and nothing else. *)
LEMMA MoveMaps ==
  ASSUME TypeOK, NEW r \in Requests, NEW to,
         pc' = [pc EXCEPT ![r] = to], pc[r] # "ok",
         UNCHANGED <<policies, policyId, docId, policy, fetched, result, bucket>>
  PROVE  /\ UNCHANGED <<policies, policyId>>
         /\ JobBar' = [JobBar EXCEPT ![r] = JobAt(to)]
         /\ UNCHANGED <<TermsBar, OriginalBar, StoreBar>>
         /\ to # "ok" => AnswerBar' = AnswerBar
         /\ to = "ok" => AnswerBar' = [AnswerBar EXCEPT ![r] = result[r].tokens]
  <1>1. \A q \in Requests : ObjectOf(q)' = ObjectOf(q)
    BY StoreKept
  <1>2. \A q \in Requests : pc'[q] = IF q = r THEN to ELSE pc[q]
    BY DEF TypeOK
  <1>3. JobBar' = [JobBar EXCEPT ![r] = JobAt(to)]
    <2>1. ASSUME NEW q \in Requests
          PROVE  JobAt(pc[q])' = IF q = r THEN JobAt(to) ELSE JobAt(pc[q])
      <3>1. CASE q = r
        BY <1>2, <3>1 DEF JobAt
      <3>2. CASE q # r
        BY <1>2, <3>2 DEF JobAt
      <3>3. QED
        BY <3>1, <3>2
    <2>2. QED
      BY <2>1 DEF JobBar
  <1>4. UNCHANGED <<TermsBar, OriginalBar, StoreBar>>
    BY <1>1 DEF TermsBar, OriginalBar, StoreBar
  <1>5. /\ to # "ok" => AnswerBar' = AnswerBar
        /\ to = "ok" => AnswerBar' = [AnswerBar EXCEPT ![r] = result[r].tokens]
    BY <1>2 DEF AnswerBar
  <1>6. QED
    BY <1>3, <1>4, <1>5

(* A handler that ends in a 500 or is lost breaks its job. *)
LEMMA BreaksMap ==
  ASSUME TypeOK, NEW r \in Requests,
         JobAt(pc[r]) \in {"waiting", "accepted"},
         UNCHANGED <<policies, policyId, TermsBar, OriginalBar, StoreBar, AnswerBar>>,
         JobBar' = [JobBar EXCEPT ![r] = "broken"]
  PROVE  Promise!Break({r})
  BY DEF Promise!Break, JobBar, TermsBar, OriginalBar, StoreBar, AnswerBar

(* A handler that ends in a 400 or 404 refuses its job. *)
LEMMA RefusesMap ==
  ASSUME TypeOK, NEW r \in Requests,
         JobAt(pc[r]) \in {"waiting", "accepted"}, ObjectOf(r) = NoObject,
         UNCHANGED <<policies, policyId, TermsBar, OriginalBar, StoreBar, AnswerBar>>,
         JobBar' = [JobBar EXCEPT ![r] = "refused"]
  PROVE  Promise!Refuse(r)
  BY DEF Promise!Refuse, JobBar, TermsBar, OriginalBar, StoreBar, AnswerBar

(* Every step of a handler is a step of MaskJob, or none. *)
LEMMA HandlerMaps ==
  ASSUME IInv, NEW r \in Requests, Handler(r)
  PROVE  [Promise!Next]_Promise!jobVars
  <1> USE DEF Goto
  <1>0. TypeOK
    BY DEF IInv
  <1>1. CASE LookupOk(r)
    <2>1. Promise!Accept(r)
      <3>1. UNCHANGED <<policies, policyId>> /\ pc[r] = "lookup" /\ pc' = [pc EXCEPT ![r] = "fetch"]
            /\ UNCHANGED <<docId, fetched, result, bucket>>
            /\ policy' = [policy EXCEPT ![r] = policies[policyId[r]]]
            /\ policies[policyId[r]] \in Rows /\ policies[policyId[r]].active
        BY <1>0, <1>1 DEF LookupOk, TypeOK
      <3>2. policies[policyId[r]] # NoPolicy
        BY <3>1, RowsAssumption
      <3>3. JobBar[r] = "waiting" /\ JobBar' = [JobBar EXCEPT ![r] = "accepted"]
        BY <1>0, <3>1 DEF JobBar, JobAt, Running, TypeOK
      <3>4. TermsBar' = [TermsBar EXCEPT ![r] = policies[policyId[r]].fields]
        BY <1>0, <3>1, <3>2 DEF TermsBar, TypeOK
      <3>5. UNCHANGED <<OriginalBar, StoreBar>>
        BY <3>1, StoreKept DEF OriginalBar, StoreBar
      <3>6. UNCHANGED AnswerBar
        BY <1>0, <3>1 DEF AnswerBar, TypeOK
      <3>7. QED
        BY <3>1, <3>2, <3>3, <3>4, <3>5, <3>6
           DEF Promise!Accept, JobBar, TermsBar, OriginalBar, StoreBar, AnswerBar
    <2>2. QED
      BY <2>1 DEF Promise!Next
  <1>2. CASE FetchAndMask(r)
    <2>1. PICK doc \in Documents :
            /\ fetched' = [fetched EXCEPT ![r] = doc]
            /\ result' = [result EXCEPT ![r] = [masked |-> Masked(doc, policy[r].fields),
                                                tokens |-> TokenMap(doc, policy[r].fields)]]
      BY <1>2 DEF FetchAndMask
    <2>2. pc[r] = "fetch" /\ pc' = [pc EXCEPT ![r] = "upload"]
          /\ UNCHANGED <<policies, policyId, docId, policy, bucket>>
      BY <1>2 DEF FetchAndMask
    <2>3. ObjectOf(r) = NoObject
      BY <2>2, Unsent DEF Sent
    <2>4. UNCHANGED <<StoreBar, TermsBar>>
      BY <2>2, StoreKept DEF StoreBar, TermsBar
    <2>5. UNCHANGED OriginalBar
      <3>1. \A q \in Requests : ObjectOf(q)' = ObjectOf(q) /\ (q # r => fetched'[q] = fetched[q])
        BY <1>0, <2>1, <2>2, StoreKept DEF TypeOK
      <3>2. QED
        BY <2>3, <3>1 DEF OriginalBar
    <2>6. UNCHANGED JobBar
      BY <1>0, <2>2 DEF JobBar, JobAt, Running, TypeOK
    <2>7. UNCHANGED AnswerBar
      <3>1. \A q \in Requests : /\ pc'[q] = "ok" <=> pc[q] = "ok"
                                /\ pc[q] = "ok" => q # r /\ result'[q] = result[q]
        BY <1>0, <2>1, <2>2 DEF TypeOK
      <3>2. QED
        BY <3>1 DEF AnswerBar
    <2>8. QED
      BY <2>2, <2>4, <2>5, <2>6, <2>7
         DEF Promise!jobVars, JobBar, TermsBar, OriginalBar, StoreBar, AnswerBar
  <1>3. CASE LookupRaises(r) \/ FetchOrMaskRaises(r) \/ UploadRaises(r) \/ PresignRaises(r) \/ ResponseLost(r)
    <2>1. PICK to \in {"server_error", "lost"} :
            /\ pc[r] \in Running /\ pc' = [pc EXCEPT ![r] = to]
            /\ UNCHANGED <<policies, policyId, docId, policy, fetched, result, bucket>>
      BY <1>3 DEF LookupRaises, FetchOrMaskRaises, UploadRaises, PresignRaises, ResponseLost, Running
    <2>2. JobAt(pc[r]) \in {"waiting", "accepted"} /\ JobAt(to) = "broken" /\ pc[r] # "ok" /\ to # "ok"
      BY <2>1 DEF JobAt, Running
    <2>3. Promise!Break({r})
      BY <1>0, <2>1, <2>2, MoveMaps, BreaksMap
    <2>4. QED
      BY <2>3 DEF Promise!Next
  <1>4. CASE LookupRefused(r) \/ FetchRefused(r)
    <2>1. /\ pc[r] \in {"lookup", "fetch"} /\ pc' = [pc EXCEPT ![r] = "client_error"]
          /\ UNCHANGED <<policies, policyId, docId, policy, fetched, result, bucket>>
      BY <1>4 DEF LookupRefused, FetchRefused
    <2>2. JobAt(pc[r]) \in {"waiting", "accepted"} /\ JobAt("client_error") = "refused"
      BY <2>1 DEF JobAt, Running
    <2>3. ObjectOf(r) = NoObject
      BY <2>1, Unsent DEF Sent
    <2>4. Promise!Refuse(r)
      BY <1>0, <2>1, <2>2, <2>3, MoveMaps, RefusesMap
    <2>5. QED
      BY <2>4 DEF Promise!Next
  <1>5. CASE Upload(r) \/ UploadAcked(r) \/ Presign(r)
    <2>1. PICK to \in {"putting", "presign", "respond"} :
            /\ pc[r] \in {"upload", "putting", "presign"} /\ pc' = [pc EXCEPT ![r] = to]
            /\ UNCHANGED <<policies, policyId, docId, policy, fetched, result, bucket>>
      BY <1>5 DEF Upload, UploadAcked, Presign
    <2>2. JobAt(to) = JobAt(pc[r]) /\ pc[r] # "ok" /\ to # "ok"
      BY <2>1 DEF JobAt, Running
    <2>3. UNCHANGED JobBar
      BY <1>0, <2>1, <2>2, MoveMaps DEF JobBar
    <2>4. QED
      BY <1>0, <2>1, <2>2, <2>3, MoveMaps
         DEF Promise!jobVars, JobBar, TermsBar, OriginalBar, StoreBar, AnswerBar
  <1>6. CASE Respond(r)
    <2>1. /\ pc[r] = "respond" /\ pc' = [pc EXCEPT ![r] = "ok"]
          /\ UNCHANGED <<policies, policyId, docId, policy, fetched, result, bucket>>
      BY <1>6 DEF Respond
    <2>2. JobAt(pc[r]) = "accepted" /\ JobAt("ok") = "answered"
      BY <2>1 DEF JobAt, Running
    <2>3. ObjectOf(r) # NoObject
      BY <2>1 DEF IInv, TypeOK, RequestInv, ObjectOf, MaskedObjectKey
    <2>4. result[r].tokens = TokenMap(OriginalBar[r], TermsBar[r])
      <3>1. policy[r] # NoPolicy
        BY <2>1, ResultOf, RowsAssumption
      <3>2. QED
        BY <2>1, <2>3, <3>1, ResultOf DEF OriginalBar, TermsBar
    <2>5. /\ UNCHANGED <<policies, policyId, TermsBar, OriginalBar, StoreBar>>
          /\ JobBar' = [JobBar EXCEPT ![r] = "answered"]
          /\ AnswerBar' = [AnswerBar EXCEPT ![r] = TokenMap(OriginalBar[r], TermsBar[r])]
          /\ JobBar[r] = "accepted" /\ StoreBar[r] # NoObject
      <3>1. pc[r] # "ok" /\ JobBar[r] = "accepted" /\ StoreBar[r] # NoObject
        BY <2>1, <2>2, <2>3 DEF JobBar, StoreBar
      <3>2. /\ UNCHANGED <<policies, policyId, TermsBar, OriginalBar, StoreBar>>
            /\ JobBar' = [JobBar EXCEPT ![r] = JobAt("ok")]
            /\ AnswerBar' = [AnswerBar EXCEPT ![r] = result[r].tokens]
        BY <1>0, <2>1, <3>1, MoveMaps
      <3>3. QED
        BY <2>2, <2>4, <3>1, <3>2
    <2>6. Promise!Answer(r)
      BY <2>5, SameMasking DEF Promise!Answer, JobBar, TermsBar, OriginalBar, StoreBar, AnswerBar
    <2>7. QED
      BY <2>6 DEF Promise!Next
  <1>7. QED
    BY <1>1, <1>2, <1>3, <1>4, <1>5, <1>6 DEF Handler

(* S3 stores the object of whoever owns the key: its job publishes. *)
LEMMA S3Maps ==
  ASSUME IInv, NEW k \in DocIds, S3Stores(k) \/ S3Drops(k)
  PROVE  [Promise!Next]_Promise!jobVars
  <1>1. PICK r \in Requests : docId[r] = k
    BY DEF IInv, FreshInv, S3Stores, S3Drops
  <1>2. /\ puts[k] = Own(r) /\ bucket[k] = NoObject /\ Sent(r)
        /\ fetched[r] \in Documents /\ policy[r] \in Rows
    BY <1>1, NullAssumption DEF IInv, RequestInv, KeyInv, S3Stores, S3Drops
  <1>3. UNCHANGED <<policies, policyId, pc, docId, policy, fetched, result>>
    BY DEF S3Stores, S3Drops
  <1>4. UNCHANGED <<JobBar, TermsBar, AnswerBar>>
    BY <1>3 DEF JobBar, JobAt, TermsBar, AnswerBar
  <1>5. CASE S3Drops(k)
    <2>1. UNCHANGED bucket
      BY <1>5 DEF S3Drops
    <2>2. UNCHANGED <<StoreBar, OriginalBar>>
      BY <1>3, <2>1, StoreKept DEF StoreBar, OriginalBar
    <2>3. QED
      BY <1>3, <1>4, <2>2 DEF Promise!jobVars, JobBar, TermsBar, OriginalBar, StoreBar, AnswerBar
  <1>6. CASE S3Stores(k)
    <2>1. bucket' = [bucket EXCEPT ![k] = Own(r)]
      BY <1>2, <1>6 DEF S3Stores
    <2>2. Own(r) # NoObject
      BY <1>2, MaskedType, RowsAssumption, NullAssumption DEF Own
    <2>3. ObjectOf(r) = NoObject /\ ObjectOf(r)' = Own(r)
      BY <1>1, <1>2, <1>3, <2>1, NullAssumption DEF ObjectOf, MaskedObjectKey, IInv, TypeOK
    <2>4. \A q \in Requests : q # r => ObjectOf(q)' = ObjectOf(q)
      BY <1>1, <1>3, <2>1, NullAssumption DEF ObjectOf, MaskedObjectKey, IInv, TypeOK, FreshInv
    <2>5. StoreBar' = [StoreBar EXCEPT ![r] = Masked(fetched[r], TermsBar[r])]
      <3>1. TermsBar[r] = policy[r].fields
        BY <1>2, RowsAssumption DEF TermsBar
      <3>2. QED
        BY <2>3, <2>4, <3>1 DEF StoreBar, Own
    <2>6. OriginalBar' = [OriginalBar EXCEPT ![r] = fetched[r]]
      BY <1>3, <2>2, <2>3, <2>4 DEF OriginalBar
    <2>7. JobBar[r] \in {"accepted", "broken"}
      <3>1. pc[r] \in {"putting", "server_error", "lost"}
        BY <1>1, <1>2 DEF IInv, RequestInv, Sent
      <3>2. QED
        BY <3>1 DEF JobBar, JobAt, Running
    <2>8. TermsBar[r] # NoTerms /\ StoreBar[r] = NoObject
      BY <1>2, <2>3, RowsAssumption DEF TermsBar, NoTerms, StoreBar
    <2>9. Promise!Publish(r)
      BY <1>2, <1>3, <1>4, <2>5, <2>6, <2>7, <2>8, SameMasking
         DEF Promise!Publish, JobBar, TermsBar, OriginalBar, StoreBar, AnswerBar
    <2>10. QED
      BY <2>9 DEF Promise!Next
  <1>7. QED
    BY <1>5, <1>6

(* Taking up a request changes nothing that MaskJob sees. *)
LEMMA StartMaps ==
  ASSUME IInv, NEW r \in Requests, Start(r)
  PROVE  UNCHANGED Promise!jobVars
  <1>1. PICK id \in DocIds : /\ \A q \in Requests : docId[q] # id
                             /\ docId' = [docId EXCEPT ![r] = id]
    BY DEF Start
  <1>2. /\ pc[r] = "new" /\ pc' = [pc EXCEPT ![r] = "lookup"]
        /\ UNCHANGED <<policies, policyId, policy, fetched, result, bucket>>
    BY DEF Start, Goto
  <1>3. bucket[id] = NoObject
    BY <1>1 DEF IInv, FreshInv
  <1>4. \A q \in Requests : ObjectOf(q)' = ObjectOf(q)
    <2>1. docId[r] = NoDocId
      BY <1>2 DEF IInv, TypeOK
    <2>2. QED
      BY <1>1, <1>2, <1>3, <2>1, NullAssumption DEF ObjectOf, MaskedObjectKey, IInv, TypeOK
  <1>5. UNCHANGED <<StoreBar, OriginalBar, TermsBar>>
    BY <1>2, <1>4 DEF StoreBar, OriginalBar, TermsBar
  <1>6. \A q \in Requests : pc'[q] = pc[q] \/ (pc[q] = "new" /\ pc'[q] = "lookup")
    BY <1>2 DEF IInv, TypeOK
  <1>7. UNCHANGED JobBar
    <2>1. \A q \in Requests : JobAt(pc[q])' = JobAt(pc[q])
      BY <1>6 DEF JobAt, Running
    <2>2. QED
      BY <2>1 DEF JobBar
  <1>8. UNCHANGED AnswerBar
    BY <1>2, <1>6 DEF AnswerBar
  <1>9. QED
    BY <1>2, <1>5, <1>7, <1>8
       DEF Promise!jobVars, JobBar, TermsBar, OriginalBar, StoreBar, AnswerBar

(* A crash breaks the jobs of all running handlers at once. *)
LEMMA CrashMaps ==
  ASSUME IInv, Crash
  PROVE  [Promise!Next]_Promise!jobVars
  <1> DEFINE R == { r \in Requests : pc[r] \in Running }
  <1>1. /\ UNCHANGED <<policies, policyId, docId, policy, fetched, result, bucket>>
        /\ pc' = [r \in Requests |-> IF pc[r] \in Running THEN "lost" ELSE pc[r]]
    BY DEF Crash
  <1>2. UNCHANGED <<StoreBar, OriginalBar, TermsBar>>
    BY <1>1, StoreKept DEF StoreBar, OriginalBar, TermsBar
  <1>3. UNCHANGED AnswerBar
    BY <1>1 DEF AnswerBar, Running
  <1>4. \A r \in R : JobBar[r] \in {"waiting", "accepted"}
    BY DEF JobBar, JobAt, Running
  <1>5. JobBar' = [r \in Requests |-> IF r \in R THEN "broken" ELSE JobBar[r]]
    <2>1. \A r \in Requests : JobAt(pc[r])' = IF r \in R THEN "broken" ELSE JobAt(pc[r])
      BY <1>1 DEF JobAt, Running
    <2>2. QED
      BY <2>1 DEF JobBar
  <1>6. Promise!Break(R)
    BY <1>1, <1>2, <1>3, <1>4, <1>5
       DEF Promise!Break, JobBar, TermsBar, OriginalBar, StoreBar, AnswerBar
  <1>7. R \in SUBSET Requests
    OBVIOUS
  <1>8. QED
    BY <1>6, <1>7 DEF Promise!Next

(* The policy table is the same one in both. *)
LEMMA ChangePolicyMaps ==
  ASSUME IInv, NEW p \in PolicyIds, ChangePolicy(p)
  PROVE  Promise!Next
  <1>1. UNCHANGED <<policyId, pc, docId, policy, fetched, result, bucket>>
    BY DEF ChangePolicy
  <1>2. UNCHANGED <<JobBar, TermsBar, OriginalBar, StoreBar, AnswerBar>>
    BY <1>1, StoreKept DEF JobBar, JobAt, TermsBar, OriginalBar, StoreBar, AnswerBar
  <1>3. Promise!ChangePolicy(p)
    BY <1>1, <1>2
       DEF ChangePolicy, Promise!ChangePolicy, JobBar, TermsBar, OriginalBar, StoreBar, AnswerBar
  <1>4. QED
    BY <1>3 DEF Promise!Next

(* The pipeline implements MaskJob. *)
THEOREM PromiseKept == Spec => KeepsPromise
  <1>1. Init => Promise!Init
    BY KeepsPromiseInit
  <1>2. IInv /\ [Next]_vars => [Promise!Next]_Promise!jobVars
    <2> SUFFICES ASSUME IInv, [Next]_vars
                 PROVE  [Promise!Next]_Promise!jobVars
      OBVIOUS
    <2>1. CASE \E r \in Requests : Start(r) \/ Handler(r)
      BY <2>1, StartMaps, HandlerMaps
    <2>2. CASE \E k \in DocIds : S3Stores(k) \/ S3Drops(k)
      BY <2>2, S3Maps
    <2>3. CASE \E p \in PolicyIds : ChangePolicy(p)
      BY <2>3, ChangePolicyMaps
    <2>4. CASE Crash
      BY <2>4, CrashMaps
    <2>5. CASE UNCHANGED vars
      <3>1. UNCHANGED <<policies, policyId, pc, docId, policy, fetched, result, bucket>>
        BY <2>5 DEF vars
      <3>2. UNCHANGED <<JobBar, TermsBar, OriginalBar, StoreBar, AnswerBar>>
        BY <3>1, StoreKept DEF JobBar, JobAt, TermsBar, OriginalBar, StoreBar, AnswerBar
      <3>3. QED
        BY <3>1, <3>2 DEF Promise!jobVars, JobBar, TermsBar, OriginalBar, StoreBar, AnswerBar
    <2>6. QED
      BY <2>1, <2>2, <2>3, <2>4, <2>5 DEF Next
  <1>3. QED
    BY <1>1, <1>2, Invariance, PTL DEF Spec, KeepsPromise, Promise!Spec

=============================================================================
