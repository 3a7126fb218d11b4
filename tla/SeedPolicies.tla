----------------------------- MODULE SeedPolicies -----------------------------
(***************************************************************************)
(* scripts/seed_masking_policies.py, run by several people or jobs at a    *)
(* time, some with --clear, on the table masking_policies of one database. *)
(*                                                                         *)
(* seed() makes two transactions: DELETE and COMMIT, if it is to clear,    *)
(* then INSERT and COMMIT.  Postgres runs them at READ COMMITTED: a        *)
(* statement sees what is committed when it starts, locks the rows it      *)
(* deletes one by one, in the order in which they lie in the table, waits  *)
(* for uncommitted deletions of them, and the unique index on policy_name  *)
(* makes an INSERT wait for uncommitted rows and deletions of that name.   *)
(***************************************************************************)
EXTENDS Naturals, FiniteSets

CONSTANTS
  Seeders,  \* runs of the script; each stands also for the row it inserts
  Clears,   \* those with --clear
  Existing, \* rows that may be there before
  Sampled   \* those of them with the policy_name of SAMPLE_POLICIES

ASSUME SeedAssumption ==
  /\ Clears \subseteq Seeders
  /\ Sampled \subseteq Existing
  /\ Existing \cap Seeders = {}
  /\ IsFiniteSet(Existing) /\ IsFiniteSet(Seeders)
  /\ Existing \cup Seeders \subseteq Nat

VARIABLES
  table,    \* the committed rows
  at,       \* where each run of the script is
  snapshot, \* what the DELETE of a run has to delete
  deleting, \* rows deleted by a run's uncommitted transaction
  lost      \* runs that were killed, or lost the database, after their deletion

vars == <<table, at, snapshot, deleting, lost>>

(* A row is a number: where it lies in the table. *)
Rows == Existing \cup Seeders

(* MaskingPolicy(...): the policy_name is fixed, the id fresh (uuid7). *)
SameName == Sampled \cup Seeders

Unique(t) == \A p, q \in t \cap SameName : p = q

Goto(s, place) == at' = [at EXCEPT ![s] = place]

Ended == {"done", "failed"}
Gap == {"cleared", "inserting", "inserted"}

Init ==
  /\ table \in { t \in SUBSET Existing : Unique(t) }
  /\ at = [s \in Seeders |-> "new"]
  /\ snapshot = [s \in Seeders |-> {}]
  /\ deleting = [s \in Seeders |-> {}]
  /\ lost = {}

-----------------------------------------------------------------------------
(* session.execute(delete(MaskingPolicy)): the statement starts. *)
StartDelete(s) ==
  /\ s \in Clears
  /\ at[s] = "new"
  /\ snapshot' = [snapshot EXCEPT ![s] = table]
  /\ Goto(s, "deleting")
  /\ UNCHANGED <<table, deleting, lost>>

(* What its scan still has to delete: it has seen the row, does not have its
   lock yet, and nobody has committed the deletion of it meanwhile. *)
Ahead(s) == (snapshot[s] \cap table) \ deleting[s]

IsNext(s, r) == r \in Ahead(s) /\ \A q \in Ahead(s) : r <= q

(* Slip: the statement does not wait for other transactions. *)
DeleteRowWithoutWaiting(s) ==
  /\ at[s] = "deleting"
  /\ \E r \in Rows : IsNext(s, r) /\ deleting' = [deleting EXCEPT ![s] = @ \cup {r}]
  /\ UNCHANGED <<table, at, snapshot, lost>>

(* Slip: session.delete for each row, as a query without ORDER BY has them. *)
DeleteRowInAnyOrder(s) ==
  /\ at[s] = "deleting"
  /\ \E r \in Ahead(s) :
       /\ \A t \in Seeders : r \notin deleting[t]
       /\ deleting' = [deleting EXCEPT ![s] = @ \cup {r}]
  /\ UNCHANGED <<table, at, snapshot, lost>>

(* It deletes the next row, once nobody else has it locked. *)
DeleteRow(s) ==
  /\ at[s] = "deleting"
  /\ \E r \in Rows :
       /\ IsNext(s, r)
       /\ \A t \in Seeders : r \notin deleting[t]
       /\ deleting' = [deleting EXCEPT ![s] = @ \cup {r}]
  /\ UNCHANGED <<table, at, snapshot, lost>>

EndDelete(s) ==
  /\ at[s] = "deleting"
  /\ Ahead(s) = {}
  /\ Goto(s, "deleted")
  /\ UNCHANGED <<table, snapshot, deleting, lost>>

(* Slip: the insertion in an `else`. *)
CommitDeleteOnly(s) ==
  /\ at[s] = "deleted"
  /\ table' = table \ deleting[s]
  /\ deleting' = [deleting EXCEPT ![s] = {}]
  /\ Goto(s, "done")
  /\ UNCHANGED <<snapshot, lost>>

CommitDelete(s) ==
  /\ at[s] = "deleted"
  /\ table' = table \ deleting[s]
  /\ deleting' = [deleting EXCEPT ![s] = {}]
  /\ Goto(s, "cleared")
  /\ UNCHANGED <<snapshot, lost>>

(* session.add_all and the flush of session.commit: INSERT. *)
StartInsert(s) ==
  /\ at[s] = IF s \in Clears THEN "cleared" ELSE "new"
  /\ Goto(s, "inserting")
  /\ UNCHANGED <<table, snapshot, deleting, lost>>

(* Its transaction is under way, and has put or deleted a row of that name. *)
HoldsName(t) == at[t] = "inserted" \/ deleting[t] \cap SameName # {}

NameInDoubt(s) == \E t \in Seeders \ {s} : HoldsName(t)

(* Slip: policy_name without unique=True. *)
InsertDuplicate(s) ==
  /\ at[s] = "inserting"
  /\ Goto(s, "inserted")
  /\ UNCHANGED <<table, snapshot, deleting, lost>>

Insert(s) ==
  /\ at[s] = "inserting"
  /\ ~NameInDoubt(s)
  /\ table \cap SameName = {}
  /\ Goto(s, "inserted")
  /\ UNCHANGED <<table, snapshot, deleting, lost>>

(* Slip: the script tries again until the name is free. *)
RetryInsert(s) ==
  /\ at[s] = "inserting"
  /\ ~NameInDoubt(s)
  /\ table \cap SameName # {}
  /\ UNCHANGED vars

(* IntegrityError leaves seed(), and the session rolls back. *)
InsertRefused(s) ==
  /\ at[s] = "inserting"
  /\ ~NameInDoubt(s)
  /\ table \cap SameName # {}
  /\ Goto(s, "failed")
  /\ UNCHANGED <<table, snapshot, deleting, lost>>

(* Slip: flush() for commit(): the session's end rolls the row back. *)
FlushOnly(s) ==
  /\ at[s] = "inserted"
  /\ Goto(s, "done")
  /\ UNCHANGED <<table, snapshot, deleting, lost>>

(* The ids are printed from the objects: expire_on_commit=False. *)
CommitInsert(s) ==
  /\ at[s] = "inserted"
  /\ table' = table \cup {s}
  /\ Goto(s, "done")
  /\ UNCHANGED <<snapshot, deleting, lost>>

(* The run is killed, or loses the database: what is not committed is undone. *)
Fail(s) ==
  /\ at[s] \notin Ended
  /\ Goto(s, "failed")
  /\ deleting' = [deleting EXCEPT ![s] = {}]
  /\ lost' = IF s \in Clears /\ at[s] \in Gap THEN lost \cup {s} ELSE lost
  /\ UNCHANGED <<table, snapshot>>

(* The database commits, but its answer does not arrive. *)
CommitUnheard(s) ==
  /\ at[s] \in {"deleted", "inserted"}
  /\ table' = IF at[s] = "deleted" THEN table \ deleting[s] ELSE table \cup {s}
  /\ deleting' = [deleting EXCEPT ![s] = {}]
  /\ lost' = IF at[s] = "deleted" THEN lost \cup {s} ELSE lost
  /\ Goto(s, "failed")
  /\ UNCHANGED snapshot

Step(s) ==
  \/ StartDelete(s) \/ DeleteRow(s) \/ EndDelete(s) \/ CommitDelete(s)
  \/ StartInsert(s) \/ Insert(s) \/ InsertRefused(s) \/ CommitInsert(s)

Next == \E s \in Seeders : Step(s) \/ Fail(s) \/ CommitUnheard(s)

Spec == Init /\ [][Next]_vars

(* Each run and the database go on; nobody is made to fail. *)
FairSpec == Spec /\ \A s \in Seeders : WF_vars(Step(s))

-----------------------------------------------------------------------------
(* Type invariant, with Postgres' row locks: nobody's deletions overlap. *)
TypeOK ==
  /\ table \subseteq Rows
  /\ at \in [Seeders -> {"new", "deleting", "deleted"} \cup Gap \cup Ended]
  /\ snapshot \in [Seeders -> SUBSET Rows]
  /\ deleting \in [Seeders -> SUBSET table]
  /\ lost \subseteq Clears
  /\ \A s, t \in Seeders : s # t => deleting[s] \cap deleting[t] = {}

(***************************************************************************)
(* policy_name is unique, whoever seeds at the same time and with whatever *)
(* deletions under way.                                                    *)
(***************************************************************************)
OneRowPerName == Unique(table)

(***************************************************************************)
(* Once somebody has reported "Seeded", the service is without the policy  *)
(* only by a run with --clear that is between its two commits or was lost  *)
(* there: one that is refused there, because another run was faster,       *)
(* leaves the other's policy.                                              *)
(***************************************************************************)
GoneOnlyInAGap ==
  (\E s \in Seeders : at[s] = "done") /\ table \cap SameName = {} =>
    lost # {} \/ \E s \in Clears : at[s] \in Gap

(***************************************************************************)
(* A policy reported as "Seeded" is in the table under the id that was     *)
(* printed, as long as no run with --clear has seen it there: none that    *)
(* had read the rows to delete before can take it away.  (What a run that  *)
(* saw it does, whether it deletes it or fails, is not said here.)         *)
(***************************************************************************)
SeededIsStored ==
  \A s \in Seeders :
    at[s] = "done" => s \in table \/ \E t \in Clears \ {s} : s \in snapshot[t]

(***************************************************************************)
(* Among any runs of the script there is one that waits for none of them:  *)
(* nobody deadlocks, although a DELETE waits with rows in its hand and the *)
(* next run waits for those, or for the policy_name of one.                *)
(***************************************************************************)
WaitsFor(s, t) ==
  \/ at[s] = "deleting" /\ \E r \in deleting[t] : IsNext(s, r)
  \/ at[s] = "inserting" /\ t # s /\ HoldsName(t)

NoDeadlock ==
  \A S \in SUBSET Seeders : S # {} => \E s \in S : \A t \in S : ~WaitsFor(s, t)

(***************************************************************************)
(* A run of the script that has begun ends, however many others do the     *)
(* same: nobody waits for ever for another's locks.                        *)
(***************************************************************************)
EverySeedEnds ==
  \A s \in Seeders : at[s] # "new" ~> at[s] \in Ended

=============================================================================
