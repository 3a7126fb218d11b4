----------------------------- MODULE MaskPipeline -----------------------------
(***************************************************************************)
(* Concurrent POST /mask requests in MaskPipelineService.run: database     *)
(* lookup, fetch, masking, S3 upload, presigned URL, response.             *)
(*                                                                         *)
(* A handler gives up the event loop at each await, so it is a sequence of *)
(* steps between which other handlers, the database, S3 and a crash of the *)
(* process interleave.  There is no await between the end of fetch_url and *)
(* the start of the upload: fetching and masking end in one step.          *)
(***************************************************************************)
EXTENDS Naturals, PolicyMasking

CONSTANTS
  Requests,         \* concurrent and successive POST /mask requests
  PolicyIds,        \* masking_policy_id values
  Rows,             \* contents of a masking_policies row: [fields, active]
  DocIds,           \* values of uuid7()
  NoPolicy,         \* session.get returns None
  NoDocument,       \* nothing fetched yet
  NoDocId,          \* run() has not started
  NoObject,         \* S3 key without an object, or without a put under way
  NoResult,         \* not masked yet
  MaxPolicyChanges  \* bound: writes to masking_policies while requests run

ASSUME RowsAssumption ==
  /\ Rows \subseteq [fields : SUBSET Fields, active : BOOLEAN]
  /\ NoPolicy \notin Rows
  /\ \A fs \in SUBSET Fields : NoPolicy # fs
  /\ MaxPolicyChanges \in Nat

ASSUME NullAssumption ==
  /\ NoDocument \notin Documents
  /\ NoDocId \notin DocIds
  /\ NoObject \notin MaskedDocuments

VARIABLES
  policies, \* table masking_policies: id -> row
  changes,  \* writes to it so far
  policyId, \* request body: masking_policy_id
  pc,       \* where each handler is
  docId,    \* document_id
  policy,   \* the MaskingPolicy instance that the session loaded
  fetched,  \* fetched.content, parsed
  result,   \* MaskingResult: the masked document and its token_map
  puts,     \* S3 keys -> the object of a put_object on its way
  bucket    \* S3 keys -> the object

vars == <<policies, changes, policyId, pc, docId, policy, fetched, result, puts, bucket>>

(* Requests the process is working on, and what has become of the others. *)
Running == {"lookup", "fetch", "upload", "putting", "presign", "respond"}
Ended == {"ok", "client_error", "server_error", "lost"}

-----------------------------------------------------------------------------
Init ==
  /\ policies \in [PolicyIds -> Rows \cup {NoPolicy}]
  /\ changes = 0
  /\ policyId \in [Requests -> PolicyIds]
  /\ pc = [r \in Requests |-> "new"]
  /\ docId = [r \in Requests |-> NoDocId]
  /\ policy = [r \in Requests |-> NoPolicy]
  /\ fetched = [r \in Requests |-> NoDocument]
  /\ result = [r \in Requests |-> NoResult]
  /\ puts = [k \in DocIds |-> NoObject]
  /\ bucket = [k \in DocIds |-> NoObject]

Goto(r, l) == pc' = [pc EXCEPT ![r] = l]

(* _masked_object_key: the key is the document id in a fixed wrapping. *)
MaskedObjectKey(id) == id

(* Slip: an id derived from the request instead of a fresh one. *)
StartStableId(r) ==
  /\ pc[r] = "new"
  /\ Goto(r, "lookup")
  /\ \E id \in DocIds : docId' = [docId EXCEPT ![r] = id]
  /\ UNCHANGED <<policies, changes, policyId, policy, fetched, result, puts, bucket>>

(* run() starts: uuid7() has never returned this id before. *)
Start(r) ==
  /\ pc[r] = "new"
  /\ Goto(r, "lookup")
  /\ \E id \in DocIds \ { docId[q] : q \in Requests } :
       docId' = [docId EXCEPT ![r] = id]
  /\ UNCHANGED <<policies, changes, policyId, policy, fetched, result, puts, bucket>>

(* Slip: the row is used without looking whether it exists. *)
LookupOkUnchecked(r) ==
  /\ pc[r] = "lookup"
  /\ policy' = [policy EXCEPT ![r] = policies[policyId[r]]]
  /\ Goto(r, "fetch")
  /\ UNCHANGED <<policies, changes, policyId, docId, fetched, result, puts, bucket>>

(* Slip: `if not policy.is_active` is gone. *)
LookupOkAnyState(r) ==
  /\ pc[r] = "lookup"
  /\ policies[policyId[r]] # NoPolicy
  /\ policy' = [policy EXCEPT ![r] = policies[policyId[r]]]
  /\ Goto(r, "fetch")
  /\ UNCHANGED <<policies, changes, policyId, docId, fetched, result, puts, bucket>>

LookupOk(r) ==
  /\ pc[r] = "lookup"
  /\ policies[policyId[r]] # NoPolicy
  /\ policies[policyId[r]].active
  /\ policy' = [policy EXCEPT ![r] = policies[policyId[r]]]
  /\ Goto(r, "fetch")
  /\ UNCHANGED <<policies, changes, policyId, docId, fetched, result, puts, bucket>>

(* NotFoundError (404) and BadRequestError (400). *)
LookupRefused(r) ==
  /\ pc[r] = "lookup"
  /\ \/ policies[policyId[r]] = NoPolicy
     \/ policies[policyId[r]] # NoPolicy /\ ~policies[policyId[r]].active
  /\ Goto(r, "client_error")
  /\ UNCHANGED <<policies, changes, policyId, docId, policy, fetched, result, puts, bucket>>

(* No connection from the pool, or the query fails: 500. *)
LookupRaises(r) ==
  /\ pc[r] = "lookup"
  /\ Goto(r, "server_error")
  /\ UNCHANGED <<policies, changes, policyId, docId, policy, fetched, result, puts, bucket>>

(* Slip: the policy is read again after the await, for the tokens only. *)
FetchAndMaskRereading(r) ==
  /\ pc[r] = "fetch"
  /\ policies[policyId[r]] # NoPolicy
  /\ \E doc \in Documents :
       /\ fetched' = [fetched EXCEPT ![r] = doc]
       /\ result' = [result EXCEPT ![r] =
                       [masked |-> Masked(doc, policy[r].fields),
                        tokens |-> TokenMap(doc, policies[policyId[r]].fields)]]
  /\ Goto(r, "upload")
  /\ UNCHANGED <<policies, changes, policyId, docId, policy, puts, bucket>>

(* fetch_url returns; the document is masked under the loaded policy. *)
FetchAndMask(r) ==
  /\ pc[r] = "fetch"
  /\ \E doc \in Documents :
       /\ fetched' = [fetched EXCEPT ![r] = doc]
       /\ result' = [result EXCEPT ![r] =
                       [masked |-> Masked(doc, policy[r].fields),
                        tokens |-> TokenMap(doc, policy[r].fields)]]
  /\ Goto(r, "upload")
  /\ UNCHANGED <<policies, changes, policyId, docId, policy, puts, bucket>>

(* InvalidUrlError, ResponseTooLargeError, FetchFailedError: 400. *)
FetchRefused(r) ==
  /\ pc[r] = "fetch"
  /\ Goto(r, "client_error")
  /\ UNCHANGED <<policies, changes, policyId, docId, policy, fetched, result, puts, bucket>>

(* Any other exception of the fetch, or bytes that do not parse: 500. *)
FetchOrMaskRaises(r) ==
  /\ pc[r] = "fetch"
  /\ Goto(r, "server_error")
  /\ UNCHANGED <<policies, changes, policyId, docId, policy, fetched, result, puts, bucket>>

(* put_object sends the masked document. *)
Upload(r) ==
  /\ pc[r] = "upload"
  /\ puts' = [puts EXCEPT ![MaskedObjectKey(docId[r])] = result[r].masked]
  /\ Goto(r, "putting")
  /\ UNCHANGED <<policies, changes, policyId, docId, policy, fetched, result, bucket>>

(* S3 answers only after it has stored the object. *)
UploadAcked(r) ==
  /\ pc[r] = "putting"
  /\ bucket[MaskedObjectKey(docId[r])] # NoObject
  /\ Goto(r, "presign")
  /\ UNCHANGED <<policies, changes, policyId, docId, policy, fetched, result, puts, bucket>>

(* Slip: an S3 failure reported as the caller's mistake. *)
UploadRaisesBadRequest(r) ==
  /\ pc[r] = "putting"
  /\ Goto(r, "client_error")
  /\ UNCHANGED <<policies, changes, policyId, docId, policy, fetched, result, puts, bucket>>


(* put_object raises, whether or not S3 has stored or will store the object. *)
UploadRaises(r) ==
  /\ pc[r] = "putting"
  /\ Goto(r, "server_error")
  /\ UNCHANGED <<policies, changes, policyId, docId, policy, fetched, result, puts, bucket>>

Presign(r) ==
  /\ pc[r] = "presign"
  /\ Goto(r, "respond")
  /\ UNCHANGED <<policies, changes, policyId, docId, policy, fetched, result, puts, bucket>>

PresignRaises(r) ==
  /\ pc[r] = "presign"
  /\ Goto(r, "server_error")
  /\ UNCHANGED <<policies, changes, policyId, docId, policy, fetched, result, puts, bucket>>

(* The caller receives MaskDocumentResponse with the tokens. *)
Respond(r) ==
  /\ pc[r] = "respond"
  /\ Goto(r, "ok")
  /\ UNCHANGED <<policies, changes, policyId, docId, policy, fetched, result, puts, bucket>>

(* The caller has disconnected: the response goes nowhere. *)
ResponseLost(r) ==
  /\ pc[r] = "respond"
  /\ Goto(r, "lost")
  /\ UNCHANGED <<policies, changes, policyId, docId, policy, fetched, result, puts, bucket>>

-----------------------------------------------------------------------------
(* S3 stores the object of a put, also after the sender stopped waiting. *)
S3Stores(k) ==
  /\ puts[k] # NoObject
  /\ bucket' = [bucket EXCEPT ![k] = puts[k]]
  /\ puts' = [puts EXCEPT ![k] = NoObject]
  /\ UNCHANGED <<policies, changes, policyId, pc, docId, policy, fetched, result>>

(* The put and botocore's repetitions of it are lost. *)
S3Drops(k) ==
  /\ puts[k] # NoObject
  /\ puts' = [puts EXCEPT ![k] = NoObject]
  /\ UNCHANGED <<policies, changes, policyId, pc, docId, policy, fetched, result, bucket>>

(* Someone inserts, edits, deactivates or deletes a policy. *)
ChangePolicy(p) ==
  /\ changes < MaxPolicyChanges
  /\ changes' = changes + 1
  /\ \E row \in Rows \cup {NoPolicy} : policies' = [policies EXCEPT ![p] = row]
  /\ UNCHANGED <<policyId, pc, docId, policy, fetched, result, puts, bucket>>

(* The process dies: every request it was working on is lost. *)
Crash ==
  /\ \E r \in Requests : pc[r] \in Running
  /\ pc' = [r \in Requests |-> IF pc[r] \in Running THEN "lost" ELSE pc[r]]
  /\ UNCHANGED <<policies, changes, policyId, docId, policy, fetched, result, puts, bucket>>

Handler(r) ==
  \/ LookupOk(r) \/ LookupRefused(r) \/ LookupRaises(r)
  \/ FetchAndMask(r) \/ FetchRefused(r) \/ FetchOrMaskRaises(r)
  \/ Upload(r) \/ UploadAcked(r) \/ UploadRaises(r)
  \/ Presign(r) \/ PresignRaises(r)
  \/ Respond(r) \/ ResponseLost(r)

Next ==
  \/ \E r \in Requests : Start(r) \/ Handler(r)
  \/ \E k \in DocIds : S3Stores(k) \/ S3Drops(k)
  \/ \E p \in PolicyIds : ChangePolicy(p)
  \/ Crash

Spec == Init /\ [][Next]_vars

(* A handler that is ready is resumed, and botocore's timeouts end every wait
   for S3.  Of the database it is assumed that it answers or closes the
   connection (the engine sets no statement timeout).  Of fetch_url nothing is
   assumed: HttpFetch says when it ends. *)
FairSpec == Spec /\ \A r \in Requests : WF_vars(pc[r] # "fetch" /\ Handler(r))

-----------------------------------------------------------------------------
(* Type invariant: what a handler has at each place it can be. *)
TypeOK ==
  /\ policies \in [PolicyIds -> Rows \cup {NoPolicy}]
  /\ changes \in 0..MaxPolicyChanges
  /\ policyId \in [Requests -> PolicyIds]
  /\ pc \in [Requests -> {"new"} \cup Running \cup Ended]
  /\ docId \in [Requests -> DocIds \cup {NoDocId}]
  /\ policy \in [Requests -> Rows \cup {NoPolicy}]
  /\ fetched \in [Requests -> Documents \cup {NoDocument}]
  /\ puts \in [DocIds -> MaskedDocuments \cup {NoObject}]
  /\ bucket \in [DocIds -> MaskedDocuments \cup {NoObject}]
  /\ \A r \in Requests :
       /\ pc[r] = "new" <=> docId[r] = NoDocId
       /\ pc[r] \in Running \ {"lookup"} => policy[r] \in Rows
       /\ pc[r] \in Running \ {"lookup", "fetch"} => fetched[r] \in Documents

ObjectOf(r) == IF docId[r] = NoDocId THEN NoObject ELSE bucket[MaskedObjectKey(docId[r])]

(***************************************************************************)
(* The response of run() is worth something: the object it links to is     *)
(* there, whatever the policy table, other requests and S3 did meanwhile,  *)
(* and the tokens in the response turn it back into the fetched document.  *)
(***************************************************************************)
AnswerReverses ==
  \A r \in Requests : pc[r] = "ok" =>
    /\ ObjectOf(r) # NoObject
    /\ Unmask(ObjectOf(r), result[r].tokens) = fetched[r]

(***************************************************************************)
(* A request refused with 400 or 404 has put nothing into the bucket and   *)
(* has no put on its way that would: errors that run() turns into the      *)
(* caller's fault all come before the upload.                              *)
(***************************************************************************)
RefusedLeavesNothing ==
  \A r \in Requests : pc[r] = "client_error" =>
    ObjectOf(r) = NoObject /\ puts[MaskedObjectKey(docId[r])] = NoObject

(***************************************************************************)
(* An object never changes once it is there, so a presigned URL keeps      *)
(* naming the document its response was about: no other request and no     *)
(* late put of upload_bytes writes under the same key.                     *)
(***************************************************************************)
ObjectsAreFinal ==
  [][\A k \in DocIds : bucket[k] # NoObject => bucket'[k] = bucket[k]]_vars


(***************************************************************************)
(* The docstring of mask_document orders the steps "persist the reversible *)
(* token map -> upload the masked XML to S3": whenever an object is in the *)
(* bucket, its tokens are kept somewhere, in a response delivered or in    *)
(* the request that will deliver it.                                       *)
(***************************************************************************)
EveryObjectReversible ==
  \A r \in Requests : ObjectOf(r) # NoObject => pc[r] \in Running \cup {"ok"}

-----------------------------------------------------------------------------
(* The state of a job, seen from outside, while its handler is at a place. *)
JobAt(place) ==
  CASE place \in {"new", "lookup"}        -> "waiting"
    [] place \in Running \ {"lookup"}     -> "accepted"
    [] place = "ok"                       -> "answered"
    [] place = "client_error"             -> "refused"
    [] OTHER                              -> "broken"  \* 500, or lost

NoTerms == NoPolicy
NoAnswer == NoResult

Promise == INSTANCE MaskJob WITH
  job      <- [r \in Requests |-> JobAt(pc[r])],
  terms    <- [r \in Requests |-> IF policy[r] = NoPolicy THEN NoTerms ELSE policy[r].fields],
  original <- [r \in Requests |-> IF ObjectOf(r) = NoObject THEN NoDocument ELSE fetched[r]],
  store    <- [r \in Requests |-> ObjectOf(r)],
  answer   <- [r \in Requests |-> IF pc[r] = "ok" THEN result[r].tokens ELSE NoAnswer]

(***************************************************************************)
(* run(), with all its awaits, failures and crashes, keeps the promise of  *)
(* MaskJob: what is published was masked under a policy active when the    *)
(* request was taken up, once, and answers only follow publication.        *)
(***************************************************************************)
KeepsPromise == Promise!Spec

=============================================================================
