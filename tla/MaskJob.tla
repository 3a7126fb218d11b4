------------------------------- MODULE MaskJob -------------------------------
(***************************************************************************)
(* What POST /mask promises, without database, fetch, S3 or HTTP: a job is *)
(* accepted under a policy that is active at that moment, its masked       *)
(* document is published at most once and never changes, and an answer     *)
(* exists only for a published document and undoes its masking.  A refused *)
(* job publishes nothing, ever; a broken one may or may not have published.*)
(***************************************************************************)
EXTENDS PolicyMasking

CONSTANTS
  Requests,   \* the jobs
  PolicyIds,  \* masking_policy_id values
  Rows,       \* the policies a row can hold: [fields, active]
  NoPolicy,   \* no row with that id
  NoTerms,    \* no policy taken up yet
  NoDocument, \* nothing fetched
  NoObject,   \* nothing stored
  NoAnswer    \* nothing delivered

VARIABLES
  policies,  \* PolicyIds -> the row
  policyId,  \* the policy each job asks for
  job,       \* "waiting" | "accepted" | "answered" | "refused" | "broken"
  terms,     \* the fields the job has to mask
  original,  \* the document that was published masked
  store,     \* the published document
  answer     \* the tokens the caller received

jobVars == <<policies, policyId, job, terms, original, store, answer>>

Init ==
  /\ policies \in [PolicyIds -> Rows \cup {NoPolicy}]
  /\ policyId \in [Requests -> PolicyIds]
  /\ job = [r \in Requests |-> "waiting"]
  /\ terms = [r \in Requests |-> NoTerms]
  /\ original = [r \in Requests |-> NoDocument]
  /\ store = [r \in Requests |-> NoObject]
  /\ answer = [r \in Requests |-> NoAnswer]

Accept(r) ==
  /\ job[r] = "waiting"
  /\ policies[policyId[r]] # NoPolicy
  /\ policies[policyId[r]].active
  /\ job' = [job EXCEPT ![r] = "accepted"]
  /\ terms' = [terms EXCEPT ![r] = policies[policyId[r]].fields]
  /\ UNCHANGED <<policies, policyId, original, store, answer>>

(* The masked document appears; a job that broke meanwhile may still do it. *)
Publish(r) ==
  /\ job[r] \in {"accepted", "broken"}
  /\ terms[r] # NoTerms
  /\ store[r] = NoObject
  /\ \E doc \in Documents :
       /\ original' = [original EXCEPT ![r] = doc]
       /\ store' = [store EXCEPT ![r] = Masked(doc, terms[r])]
  /\ UNCHANGED <<policies, policyId, job, terms, answer>>

Answer(r) ==
  /\ job[r] = "accepted"
  /\ store[r] # NoObject
  /\ job' = [job EXCEPT ![r] = "answered"]
  /\ answer' = [answer EXCEPT ![r] = TokenMap(original[r], terms[r])]
  /\ UNCHANGED <<policies, policyId, terms, original, store>>

(* The caller's fault: the policy or the document. *)
Refuse(r) ==
  /\ job[r] \in {"waiting", "accepted"}
  /\ store[r] = NoObject
  /\ job' = [job EXCEPT ![r] = "refused"]
  /\ UNCHANGED <<policies, policyId, terms, original, store, answer>>

(* A dependency fails, the response is lost, or the process dies. *)
Break(R) ==
  /\ \A r \in R : job[r] \in {"waiting", "accepted"}
  /\ job' = [r \in Requests |-> IF r \in R THEN "broken" ELSE job[r]]
  /\ UNCHANGED <<policies, policyId, terms, original, store, answer>>

ChangePolicy(p) ==
  /\ \E row \in Rows \cup {NoPolicy} : policies' = [policies EXCEPT ![p] = row]
  /\ UNCHANGED <<policyId, job, terms, original, store, answer>>

Next ==
  \/ \E r \in Requests : Accept(r) \/ Publish(r) \/ Answer(r) \/ Refuse(r)
  \/ \E R \in SUBSET Requests : Break(R)
  \/ \E p \in PolicyIds : ChangePolicy(p)

Spec == Init /\ [][Next]_jobVars

=============================================================================
