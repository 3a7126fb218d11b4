-------------------------- MODULE SeedPoliciesProofs --------------------------
(***************************************************************************)
(* Proofs about SeedPolicies, for any number of runs of the script and any *)
(* rows that are there before.                                             *)
(***************************************************************************)
EXTENDS SeedPolicies, Integers, FiniteSetTheorems, WellFoundedInduction, TLAPS

(* Only runs with --clear have anything to do with deletions, and what they
   delete they have seen. *)
DeletionInv ==
  /\ \A s \in Seeders : at[s] \in {"deleting", "deleted", "cleared"} => s \in Clears
  /\ \A s \in Seeders : deleting[s] # {} =>
       at[s] \in {"deleting", "deleted"} /\ deleting[s] \subseteq snapshot[s]
  /\ \A s \in Seeders : at[s] = "new" => snapshot[s] = {}

(* Who has inserted is the only one, and sees no other row of that name: the
   unique index keeps everybody else waiting until the commit. *)
InsertionInv ==
  \A s \in Seeders : at[s] = "inserted" =>
    /\ table \cap SameName = {}
    /\ \A t \in Seeders \ {s} : at[t] # "inserted"

(* The row of a run is new: it is in no table or snapshot before the commit. *)
RowsAreNew ==
  \A s \in Seeders : at[s] \notin Ended => s \notin table /\ \A t \in Seeders : s \notin snapshot[t]

(* What a DELETE has locked lies before what it has still to lock. *)
LockedInOrder == \A s \in Seeders : \A r \in deleting[s], q \in Ahead(s) : r < q

(* The inductive invariant. *)
IInv ==
  /\ TypeOK /\ DeletionInv /\ InsertionInv /\ RowsAreNew /\ LockedInOrder
  /\ OneRowPerName /\ GoneOnlyInAGap /\ SeededIsStored

-----------------------------------------------------------------------------
LEMMA InitEstablishes == Init => IInv
<1> SUFFICES ASSUME Init PROVE IInv
  OBVIOUS
<1> USE SeedAssumption DEF Init
<1>1. TypeOK
  BY DEF TypeOK, Rows, Gap, Ended
<1>2. DeletionInv
  BY DEF DeletionInv
<1>3. InsertionInv
  BY DEF InsertionInv
<1>4. OneRowPerName
  BY DEF OneRowPerName
<1>5. GoneOnlyInAGap
  BY DEF GoneOnlyInAGap
<1>6. SeededIsStored
  BY DEF SeededIsStored
<1>7. RowsAreNew
  BY DEF RowsAreNew
<1>8. LockedInOrder
  BY DEF LockedInOrder
<1> QED
  BY <1>1, <1>2, <1>3, <1>4, <1>5, <1>6, <1>7, <1>8 DEF IInv

(* A stuttering step. *)
LEMMA StutterKeeps == IInv /\ UNCHANGED vars => IInv'
  BY DEF IInv, TypeOK, DeletionInv, InsertionInv, RowsAreNew, LockedInOrder, Ahead,
         OneRowPerName, Unique, GoneOnlyInAGap, SeededIsStored, vars

(* A step that locks nothing and commits no row that somebody has seen. *)
LEMMA OrderKept ==
  ASSUME LockedInOrder,
         \A t \in Seeders :
           \/ deleting'[t] = deleting[t] /\ Ahead(t)' \subseteq Ahead(t)
           \/ deleting'[t] = {}
  PROVE  LockedInOrder'
  BY DEF LockedInOrder

LEMMA StartDeleteKeeps ==
  ASSUME IInv, NEW s \in Seeders, StartDelete(s) PROVE IInv'
<1> USE DEF IInv, StartDelete, Goto
<1>1. TypeOK'
  BY DEF TypeOK, Rows, Gap, Ended
<1>2. DeletionInv'
  BY DEF DeletionInv, TypeOK
<1>3. InsertionInv'
  BY DEF InsertionInv, TypeOK
<1>4. OneRowPerName'
  BY DEF OneRowPerName, Unique
<1>5. GoneOnlyInAGap'
  BY DEF GoneOnlyInAGap, TypeOK, Gap
<1>6. SeededIsStored'
  BY DEF SeededIsStored, TypeOK, DeletionInv
<1>7. RowsAreNew'
  BY DEF RowsAreNew, TypeOK, Ended, Gap
<1>8. LockedInOrder'
  BY OrderKept DEF TypeOK, DeletionInv, Ahead
<1> QED
  BY <1>1, <1>2, <1>3, <1>4, <1>5, <1>6, <1>7, <1>8

LEMMA DeleteRowKeeps ==
  ASSUME IInv, NEW s \in Seeders, DeleteRow(s) PROVE IInv'
<1> USE DEF IInv
<1>0. PICK r \in Rows : /\ at[s] = "deleting"
                        /\ IsNext(s, r) /\ \A t \in Seeders : r \notin deleting[t]
                        /\ deleting' = [deleting EXCEPT ![s] = @ \cup {r}]
                        /\ UNCHANGED <<table, at, snapshot, lost>>
  BY DEF DeleteRow
<1>a. r \in snapshot[s] /\ r \in table
  BY <1>0 DEF IsNext, Ahead
<1>b. deleting'[s] = deleting[s] \cup {r} /\ \A t \in Seeders \ {s} : deleting'[t] = deleting[t]
  BY <1>0 DEF TypeOK
<1>1. TypeOK'
  <2>1. deleting' \in [Seeders -> SUBSET table]
    BY <1>0, <1>a DEF TypeOK
  <2>2. \A t, u \in Seeders : t # u => deleting'[t] \cap deleting'[u] = {}
    BY <1>0, <1>b DEF TypeOK
  <2> QED
    BY <1>0, <2>1, <2>2 DEF TypeOK
<1>2. DeletionInv'
  BY <1>0, <1>a, <1>b DEF DeletionInv
<1>3. InsertionInv'
  BY <1>0 DEF InsertionInv
<1>4. OneRowPerName'
  BY <1>0 DEF OneRowPerName, Unique
<1>5. GoneOnlyInAGap'
  BY <1>0 DEF GoneOnlyInAGap
<1>6. SeededIsStored'
  BY <1>0 DEF SeededIsStored
<1>7. RowsAreNew'
  BY <1>0 DEF RowsAreNew
<1>8. LockedInOrder'
  <2> SUFFICES ASSUME NEW t \in Seeders, NEW p \in deleting'[t], NEW q \in Ahead(t)' PROVE p < q
    BY DEF LockedInOrder
  <2>1. q \in Ahead(t)
    BY <1>0, <1>b DEF Ahead
  <2>2. CASE p = r /\ t = s
    <3>1. r <= q /\ q # r
      BY <1>0, <1>b, <2>1, <2>2 DEF IsNext, Ahead
    <3>2. r \in Nat /\ q \in Nat
      BY <2>1, SeedAssumption DEF Ahead, TypeOK, Rows
    <3> QED
      BY <2>2, <3>1, <3>2
  <2>3. CASE p # r \/ t # s
    BY <1>b, <2>1, <2>3 DEF LockedInOrder
  <2> QED
    BY <2>2, <2>3
<1> QED
  BY <1>1, <1>2, <1>3, <1>4, <1>5, <1>6, <1>7, <1>8

LEMMA EndDeleteKeeps ==
  ASSUME IInv, NEW s \in Seeders, EndDelete(s) PROVE IInv'
<1> USE DEF IInv, EndDelete, Goto
<1>1. TypeOK'
  BY DEF TypeOK, Rows, Gap, Ended
<1>2. DeletionInv'
  BY DEF DeletionInv, TypeOK
<1>3. InsertionInv'
  BY DEF InsertionInv, TypeOK
<1>4. OneRowPerName'
  BY DEF OneRowPerName, Unique
<1>5. GoneOnlyInAGap'
  BY DEF GoneOnlyInAGap, TypeOK, Gap
<1>6. SeededIsStored'
  BY DEF SeededIsStored, TypeOK
<1>7. RowsAreNew'
  BY DEF RowsAreNew, TypeOK, Ended, Gap
<1>8. LockedInOrder'
  BY OrderKept DEF TypeOK, RowsAreNew, Ended, Ahead
<1> QED
  BY <1>1, <1>2, <1>3, <1>4, <1>5, <1>6, <1>7, <1>8

LEMMA CommitDeleteKeeps ==
  ASSUME IInv, NEW s \in Seeders, CommitDelete(s) PROVE IInv'
<1> USE DEF IInv, CommitDelete, Goto
<1>1. TypeOK'
  BY DEF TypeOK, Rows, Gap, Ended
<1>2. DeletionInv'
  BY DEF DeletionInv, TypeOK
<1>3. InsertionInv'
  BY DEF InsertionInv, TypeOK
<1>4. OneRowPerName'
  BY DEF OneRowPerName, Unique
<1>5. GoneOnlyInAGap'
  BY DEF GoneOnlyInAGap, TypeOK, Gap, DeletionInv
<1>6. SeededIsStored'
  BY DEF SeededIsStored, TypeOK, DeletionInv
<1>7. RowsAreNew'
  BY DEF RowsAreNew, TypeOK, Ended, Gap
<1>8. LockedInOrder'
  BY OrderKept DEF TypeOK, RowsAreNew, Ended, Ahead
<1> QED
  BY <1>1, <1>2, <1>3, <1>4, <1>5, <1>6, <1>7, <1>8

LEMMA StartInsertKeeps ==
  ASSUME IInv, NEW s \in Seeders, StartInsert(s) PROVE IInv'
<1> USE DEF IInv, StartInsert, Goto
<1>1. TypeOK'
  BY DEF TypeOK, Rows, Gap, Ended
<1>2. DeletionInv'
  BY DEF DeletionInv, TypeOK
<1>3. InsertionInv'
  BY DEF InsertionInv, TypeOK
<1>4. OneRowPerName'
  BY DEF OneRowPerName, Unique
<1>5. GoneOnlyInAGap'
  BY DEF GoneOnlyInAGap, TypeOK, Gap
<1>6. SeededIsStored'
  BY DEF SeededIsStored, TypeOK
<1>7. RowsAreNew'
  BY DEF RowsAreNew, TypeOK, Ended, Gap
<1>8. LockedInOrder'
  BY OrderKept DEF TypeOK, RowsAreNew, Ended, Ahead
<1> QED
  BY <1>1, <1>2, <1>3, <1>4, <1>5, <1>6, <1>7, <1>8

LEMMA InsertKeeps ==
  ASSUME IInv, NEW s \in Seeders, Insert(s) PROVE IInv'
<1> USE DEF IInv, Insert, Goto
<1>1. TypeOK'
  BY DEF TypeOK, Rows, Gap, Ended
<1>2. DeletionInv'
  BY DEF DeletionInv, TypeOK
<1>3. InsertionInv'
  BY DEF InsertionInv, TypeOK, NameInDoubt, HoldsName
<1>4. OneRowPerName'
  BY DEF OneRowPerName, Unique
<1>5. GoneOnlyInAGap'
  BY DEF GoneOnlyInAGap, TypeOK, Gap
<1>6. SeededIsStored'
  BY DEF SeededIsStored, TypeOK
<1>7. RowsAreNew'
  BY DEF RowsAreNew, TypeOK, Ended, Gap
<1>8. LockedInOrder'
  BY OrderKept DEF TypeOK, RowsAreNew, Ended, Ahead
<1> QED
  BY <1>1, <1>2, <1>3, <1>4, <1>5, <1>6, <1>7, <1>8

LEMMA InsertRefusedKeeps ==
  ASSUME IInv, NEW s \in Seeders, InsertRefused(s) PROVE IInv'
<1> USE DEF IInv, InsertRefused, Goto
<1>1. TypeOK'
  BY DEF TypeOK, Rows, Gap, Ended
<1>2. DeletionInv'
  BY DEF DeletionInv, TypeOK
<1>3. InsertionInv'
  BY DEF InsertionInv, TypeOK
<1>4. OneRowPerName'
  BY DEF OneRowPerName, Unique
<1>5. GoneOnlyInAGap'
  BY DEF GoneOnlyInAGap
<1>6. SeededIsStored'
  BY DEF SeededIsStored, TypeOK
<1>7. RowsAreNew'
  BY DEF RowsAreNew, TypeOK, Ended, Gap
<1>8. LockedInOrder'
  BY OrderKept DEF TypeOK, RowsAreNew, Ended, Ahead
<1> QED
  BY <1>1, <1>2, <1>3, <1>4, <1>5, <1>6, <1>7, <1>8

(* The row that is committed is the only one of its name. *)
LEMMA InsertedRowIsAlone ==
  ASSUME IInv, NEW s \in Seeders, at[s] = "inserted"
  PROVE  (table \cup {s}) \cap SameName = {s}
  BY DEF IInv, InsertionInv, SameName

LEMMA CommitInsertKeeps ==
  ASSUME IInv, NEW s \in Seeders, CommitInsert(s) PROVE IInv'
<1> USE DEF IInv, CommitInsert, Goto
<1>0. table' \cap SameName = {s}
  BY InsertedRowIsAlone
<1>1. TypeOK'
  BY DEF TypeOK, Rows, Gap, Ended
<1>2. DeletionInv'
  BY DEF DeletionInv, TypeOK
<1>3. InsertionInv'
  BY DEF InsertionInv, TypeOK
<1>4. OneRowPerName'
  BY <1>0 DEF OneRowPerName, Unique
<1>5. GoneOnlyInAGap'
  BY <1>0 DEF GoneOnlyInAGap
<1>6. SeededIsStored'
  BY DEF SeededIsStored, TypeOK
<1>7. RowsAreNew'
  BY DEF RowsAreNew, TypeOK, Ended, Gap
<1>8. LockedInOrder'
  BY OrderKept DEF TypeOK, RowsAreNew, Ended, Ahead
<1> QED
  BY <1>1, <1>2, <1>3, <1>4, <1>5, <1>6, <1>7, <1>8

LEMMA FailKeeps ==
  ASSUME IInv, NEW s \in Seeders, Fail(s) PROVE IInv'
<1> USE DEF IInv, Fail, Goto
<1>1. TypeOK'
  BY DEF TypeOK, Rows, Gap, Ended
<1>2. DeletionInv'
  BY DEF DeletionInv, TypeOK
<1>3. InsertionInv'
  BY DEF InsertionInv, TypeOK
<1>4. OneRowPerName'
  BY DEF OneRowPerName, Unique
<1>5. GoneOnlyInAGap'
  BY DEF GoneOnlyInAGap, TypeOK, Ended
<1>6. SeededIsStored'
  BY DEF SeededIsStored, TypeOK, Ended
<1>7. RowsAreNew'
  BY DEF RowsAreNew, TypeOK, Ended, Gap
<1>8. LockedInOrder'
  BY OrderKept DEF TypeOK, RowsAreNew, Ended, Ahead
<1> QED
  BY <1>1, <1>2, <1>3, <1>4, <1>5, <1>6, <1>7, <1>8

LEMMA CommitUnheardKeeps ==
  ASSUME IInv, NEW s \in Seeders, CommitUnheard(s) PROVE IInv'
<1> USE DEF IInv, CommitUnheard, Goto
<1>0. CASE at[s] = "deleted"
  <2> USE <1>0
  <2>1. TypeOK'
    BY DEF TypeOK, DeletionInv, Rows, Gap, Ended
  <2>2. DeletionInv'
    BY DEF DeletionInv, TypeOK
  <2>3. InsertionInv'
    BY DEF InsertionInv, TypeOK
  <2>4. OneRowPerName'
    BY DEF OneRowPerName, Unique
  <2>5. GoneOnlyInAGap'
    BY DEF GoneOnlyInAGap
  <2>6. SeededIsStored'
    BY DEF SeededIsStored, TypeOK, DeletionInv
  <2>7. RowsAreNew'
    BY DEF RowsAreNew, TypeOK, Ended
  <2>8. LockedInOrder'
    BY OrderKept DEF TypeOK, RowsAreNew, Ended, Ahead
  <2> QED
    BY <2>1, <2>2, <2>3, <2>4, <2>5, <2>6, <2>7, <2>8
<1>1. CASE at[s] = "inserted"
  <2> USE <1>1
  <2>0. table' \cap SameName = {s}
    BY InsertedRowIsAlone
  <2>1. TypeOK'
    BY DEF TypeOK, DeletionInv, Rows, Gap, Ended
  <2>2. DeletionInv'
    BY DEF DeletionInv, TypeOK
  <2>3. InsertionInv'
    BY DEF InsertionInv, TypeOK
  <2>4. OneRowPerName'
    BY <2>0 DEF OneRowPerName, Unique
  <2>5. GoneOnlyInAGap'
    BY <2>0 DEF GoneOnlyInAGap
  <2>6. SeededIsStored'
    BY DEF SeededIsStored, TypeOK
  <2>7. RowsAreNew'
    BY DEF RowsAreNew, TypeOK, Ended
  <2>8. LockedInOrder'
    BY OrderKept DEF TypeOK, RowsAreNew, Ended, Ahead
  <2> QED
    BY <2>1, <2>2, <2>3, <2>4, <2>5, <2>6, <2>7, <2>8
<1> QED
  BY <1>0, <1>1

-----------------------------------------------------------------------------
(* The inductive invariant holds, however many runs of the script interleave
   and wherever they fail. *)
THEOREM Invariance == Spec => []IInv
<1>1. ASSUME IInv, [Next]_vars PROVE IInv'
  <2>1. CASE UNCHANGED vars
    BY <1>1, <2>1, StutterKeeps
  <2>2. CASE Next
    <3> PICK s \in Seeders : Step(s) \/ Fail(s) \/ CommitUnheard(s)
      BY <2>2 DEF Next
    <3> QED
      BY <1>1, StartDeleteKeeps, DeleteRowKeeps, EndDeleteKeeps, CommitDeleteKeeps, StartInsertKeeps, InsertKeeps,
         InsertRefusedKeeps, CommitInsertKeeps, FailKeeps, CommitUnheardKeeps DEF Step
  <2> QED
    BY <1>1, <2>1, <2>2
<1> QED
  BY InitEstablishes, <1>1, PTL DEF Spec

(* What each run has done at each place, with the row locks of Postgres. *)
THEOREM TypeCorrect == Spec => []TypeOK
<1>1. IInv => TypeOK
  BY DEF IInv
<1> QED
  BY Invariance, <1>1, PTL

(* policy_name stays unique, whatever deletions and insertions are under way. *)
THEOREM NamesAreUnique == Spec => []OneRowPerName
<1>1. IInv => OneRowPerName
  BY DEF IInv
<1> QED
  BY Invariance, <1>1, PTL

(* After the first success only a --clear in or lost in its gap leaves the
   service without the policy. *)
THEOREM OnlyAGapEmpties == Spec => []GoneOnlyInAGap
<1>1. IInv => GoneOnlyInAGap
  BY DEF IInv
<1> QED
  BY Invariance, <1>1, PTL

-----------------------------------------------------------------------------
(* What a run has before it as long as it waits: a DELETE the rows from the one
   it waits for on, an INSERT the whole table and the name, which stands as -1. *)
Facing(s) ==
  IF at[s] = "inserting" THEN Rows \cup {-1}
  ELSE { q \in Rows : \E r \in Rows : /\ at[s] = "deleting" /\ r <= q /\ IsNext(s, r) }

(* Who is waited for has less before it than who waits. *)
LEMMA WaitingIsOrdered ==
  ASSUME IInv, NEW s \in Seeders, NEW t \in Seeders, WaitsFor(s, t)
  PROVE  Facing(t) \subseteq Facing(s) /\ Facing(t) # Facing(s)
<1> USE DEF IInv
<1>0. \A q \in Rows : q \in Nat
  BY SeedAssumption DEF Rows
<1>1. CASE at[s] = "deleting" /\ \E r \in deleting[t] : IsNext(s, r)
  <2>1. PICK r \in deleting[t] : IsNext(s, r)
    BY <1>1
  <2>2. r \in Rows /\ r \in Facing(s)
    BY <1>0, <1>1, <2>1 DEF TypeOK, Facing
  <2>3. at[t] \in {"deleting", "deleted"}
    BY DEF DeletionInv
  <2>4. ASSUME NEW q \in Facing(t) PROVE r < q /\ q \in Facing(s)
    <3>1. PICK p \in Rows : p <= q /\ IsNext(t, p) /\ q \in Rows
      BY <2>3, <2>4 DEF Facing
    <3>2. r < p
      BY <2>1, <3>1 DEF LockedInOrder, IsNext
    <3>3. r < q
      BY <1>0, <2>2, <3>1, <3>2
    <3>4. r <= q
      BY <1>0, <2>2, <3>1, <3>3
    <3> QED
      BY <1>1, <2>1, <2>2, <3>1, <3>3, <3>4 DEF Facing
  <2>5. r \notin Facing(t)
    BY <1>0, <2>2, <2>4
  <2> QED
    BY <2>2, <2>4, <2>5
<1>2. CASE at[s] = "inserting" /\ t # s /\ HoldsName(t)
  <2>1. at[t] # "inserting"
    BY <1>2 DEF HoldsName, DeletionInv
  <2>2. Facing(t) \subseteq Rows /\ Facing(s) = Rows \cup {-1}
    BY <1>2, <2>1 DEF Facing
  <2>3. -1 \notin Rows
    BY <1>0
  <2> QED
    BY <2>2, <2>3
<1> QED
  BY <1>1, <1>2 DEF WaitsFor

(* Nobody deadlocks, however many runs wait for each other's rows and names:
   who has least before it waits for nobody. *)
THEOREM NobodyDeadlocks == Spec => []NoDeadlock
<1>1. ASSUME IInv PROVE NoDeadlock
  <2> SUFFICES ASSUME NEW S \in SUBSET Seeders, S # {}
               PROVE  \E s \in S : \A t \in S : ~WaitsFor(s, t)
    BY DEF NoDeadlock
  <2> DEFINE All == Rows \cup {-1}
             Order == StrictSubsetOrdering(All)
             Faced == { Facing(s) : s \in S }
  <2>1. IsFiniteSet(All)
    BY SeedAssumption, FS_Union, FS_AddElement DEF Rows
  <2>2. \A s \in S : Facing(s) \in FiniteSubsetsOf(All)
    <3>1. \A s \in S : Facing(s) \subseteq All
      BY DEF Facing
    <3> HIDE DEF All
    <3> QED
      BY <2>1, <3>1, FS_Subset DEF FiniteSubsetsOf
  <2>3. IsWellFoundedOn(Order, FiniteSubsetsOf(All))
    BY FS_StrictSubsetOrderingWellFounded
  <2>4. Faced \subseteq FiniteSubsetsOf(All) /\ Faced # {}
    BY <2>2
  <2>5. PICK x \in Faced : \A y \in Faced : <<y, x>> \notin Order
    <3> HIDE DEF Order, Faced, All
    <3> QED
      BY <2>3, <2>4, WFMin
  <2>6. PICK s \in S : x = Facing(s)
    OBVIOUS
  <2>7. ASSUME NEW t \in S, WaitsFor(s, t) PROVE FALSE
    <3>1. Facing(t) \subseteq Facing(s) /\ Facing(t) # Facing(s)
      BY <1>1, <2>7, WaitingIsOrdered
    <3>2. Facing(t) \in SUBSET All /\ Facing(s) \in SUBSET All
      BY <2>2 DEF FiniteSubsetsOf
    <3>3. <<Facing(t), Facing(s)>> \in Order
      BY <3>1, <3>2 DEF StrictSubsetOrdering
    <3> QED
      BY <2>5, <2>6, <3>3
  <2> QED
    BY <2>7
<1> QED
  BY Invariance, <1>1, PTL

(* What is reported as seeded is stored until a --clear that saw it. *)
THEOREM ReportsAreTrue == Spec => []SeededIsStored
<1>1. IInv => SeededIsStored
  BY DEF IInv
<1> QED
  BY Invariance, <1>1, PTL

=============================================================================
