------------------------- MODULE WatchStore_proofs -------------------------
(***************************************************************************)
(* Proofs about the store under any client, for every number of watches,   *)
(* runs, records and owners and for arbitrary times.                       *)
(***************************************************************************)
EXTENDS WatchStore, TLAPS

\* Every operation keeps the rows of every table well typed.
LEMMA TypeStep == TypeOK /\ [Next]_storeVars => TypeOK'
<1> SUFFICES ASSUME TypeOK, [Next]_storeVars
             PROVE  TypeOK'
  OBVIOUS
<1> USE StoreAssumption
<1>1. ASSUME NEW w \in WatchIds, NEW i \in Intervals, NEW t \in Times,
             CreateWatch(w, i, t)
      PROVE  TypeOK'
  BY <1>1 DEF CreateWatch, NewWatch, TypeOK, WatchRow
<1>2. ASSUME NEW w \in WatchIds, DeleteWatch(w)
      PROVE  TypeOK'
  BY <1>2 DEF DeleteWatch, TypeOK
<1>3. ASSUME NEW x \in watches, NEW t \in Times, NEW o \in Owners,
             NEW l \in Leases, ClaimDueWatch(x, t, o, l)
      PROVE  TypeOK'
  <2>0. t + l \in Nat /\ x \in WatchRow
    BY DEF TypeOK
  <2>1. [x EXCEPT !.owner = o, !.expires = t + l] \in WatchRow
    BY <2>0 DEF WatchRow
  <2> QED
    BY <1>3, <2>1 DEF ClaimDueWatch, Replace, TypeOK
<1>4. ASSUME NEW w \in WatchIds, NEW r \in RunIds, NEW o \in Owners,
             NEW t \in Times, StartWatchRun(w, r, o, t)
      PROVE  TypeOK'
  <2>1. [watch |-> w, run |-> r, owner |-> o, status |-> "running"] \in RunRow
    BY DEF RunRow, RunStatus
  <2> QED
    BY <1>4, <2>1 DEF StartWatchRun, TypeOK
<1>5. ASSUME NEW w \in WatchIds, NEW r \in RunIds, NEW o \in Owners,
             NEW t \in Times, NEW seen \in SUBSET RecordIds,
             NEW s \in Outcomes, NEW c \in Configs,
             CompleteWatchRun(w, r, o, t, seen, s, c)
      PROVE  TypeOK'
  <2>1. PICK x \in WatchUnderLease(w, o, t) :
          /\ UpsertRecords(seen, t)
          /\ UpsertWatchRecords(w, seen, t)
          /\ InsertRunDelivery(w, r, c, seen, t)
          /\ FinishRun(w, r, s)
          /\ FinishWatch(x, t)
    BY <1>5 DEF CompleteWatchRun
  <2>2. x \in WatchRow /\ x \in watches
    BY DEF TypeOK, WatchUnderLease
  <2>3. (watches \subseteq WatchRow)'
    <3>2. x.interval \in Intervals
      BY <2>2 DEF WatchRow
    <3>3. \A i \in Intervals : t + i \in Nat
      OBVIOUS
    <3>4. t + x.interval \in Nat
      BY <3>2, <3>3, Zenon
    <3>1. [x EXCEPT !.nextDue = t + x.interval, !.owner = NULL,
                    !.expires = NULL] \in WatchRow
      BY <2>2, <3>4 DEF WatchRow
    <3> QED
      BY <2>1, <3>1 DEF FinishWatch, Replace, TypeOK
  <2>4. (runs \subseteq RunRow)'
    <3>1. \A y \in runs : [y EXCEPT !.status = s] \in RunRow
      BY DEF TypeOK, RunRow, RunStatus
    <3> QED
      BY <2>1, <3>1 DEF FinishRun, TypeOK
  <2>5. (records \subseteq RecordRow)'
    <3>1. \A y \in records : [y EXCEPT !.last = t] \in RecordRow
      BY DEF TypeOK, RecordRow
    <3>2. \A y \in seen : [record |-> y, first |-> t, last |-> t] \in RecordRow
      BY DEF RecordRow
    <3> QED
      BY <2>1, <3>1, <3>2 DEF UpsertRecords, TypeOK
  <2>6. (watchRecords \subseteq WatchRecordRow)'
    <3>1. \A y \in watchRecords : [y EXCEPT !.last = t] \in WatchRecordRow
      BY DEF TypeOK, WatchRecordRow
    <3>2. \A y \in seen :
            [watch |-> w, record |-> y, first |-> t, last |-> t]
              \in WatchRecordRow
      BY DEF WatchRecordRow
    <3> QED
      BY <2>1, <3>1, <3>2 DEF UpsertWatchRecords, NewRecords, TypeOK
  <2>7. (deliveries \subseteq DeliveryRow)'
    <3>1. ASSUME c # NULL
          PROVE  NewDelivery(w, r, c, NewRecords(w, seen), t) \in DeliveryRow
      BY <3>1 DEF NewDelivery, NewRecords, DeliveryRow, DeliveryStatus
    <3> QED
      BY <2>1, <3>1 DEF InsertRunDelivery, TypeOK
  <2> QED
    BY <2>3, <2>4, <2>5, <2>6, <2>7 DEF TypeOK
<1>6. ASSUME NEW d \in deliveries, NEW t \in Times, NEW o \in Owners,
             NEW l \in Leases, ClaimPendingDelivery(d, t, o, l)
      PROVE  TypeOK'
  <2>0. /\ t + l \in Nat
        /\ d \in DeliveryRow
        /\ d.attempts + 1 \in Nat
    BY DEF TypeOK, DeliveryRow
  <2>1. ClaimedRow(d, t, o, l) \in DeliveryRow
    BY <2>0 DEF ClaimedRow, DeliveryRow, DeliveryStatus
  <2> QED
    BY <1>6, <2>1 DEF ClaimPendingDelivery, Replace, TypeOK
<1>7. ASSUME NEW w \in WatchIds, NEW r \in RunIds, NEW o \in Owners,
             NEW t \in Times, NEW ok \in BOOLEAN,
             CompleteDelivery(w, r, o, t, ok)
      PROVE  TypeOK'
  <2>1. PICK d \in DeliveryUnderLease(w, r, o, t) :
          /\ deliveries' = Replace(deliveries, d, CompletedRow(d, t, ok))
          /\ UNCHANGED <<watches, runs, records, watchRecords>>
    BY <1>7 DEF CompleteDelivery
  <2>2. d \in DeliveryRow
    BY DEF DeliveryUnderLease, DeliveryOf, TypeOK
  <2>3. CompletedStatus(d, ok) \in DeliveryStatus
    BY DEF CompletedStatus, DeliveryStatus
  <2>4. (IF ok THEN t ELSE t + RetrySeconds) \in Nat
    OBVIOUS
  <2>5. CompletedRow(d, t, ok) \in DeliveryRow
    BY <2>2, <2>3, <2>4 DEF CompletedRow, DeliveryRow
  <2> QED
    BY <2>1, <2>5 DEF Replace, TypeOK
<1>8. CASE UNCHANGED storeVars
  BY <1>8 DEF storeVars, TypeOK
<1> QED
  BY <1>1, <1>2, <1>3, <1>4, <1>5, <1>6, <1>7, <1>8
     DEF Next, WatchStep, RunStep, DeliveryStep

\* Every table always holds rows of its schema.
THEOREM TypeCorrect == Spec => []TypeOK
<1>1. Init => TypeOK
  BY DEF Init, TypeOK
<1> QED
  BY <1>1, TypeStep, PTL DEF Spec

-----------------------------------------------------------------------------
(* Retry accounting and lease columns *)

\* What a claim writes into a delivery row.
LEMMA ClaimedFacts ==
  ASSUME TypeOK, NEW d \in deliveries, NEW t, NEW o, NEW l,
         NEW e, e = ClaimedRow(d, t, o, l)
  PROVE  /\ e.watch = d.watch /\ e.run = d.run /\ e.target = d.target
         /\ e.payload = d.payload /\ e.attempts = d.attempts + 1
         /\ e.status = "delivering" /\ e.owner = o /\ e.expires = t + l
<1>1. d \in DeliveryRow
  BY DEF TypeOK
<1> QED
  BY <1>1 DEF DeliveryRow, ClaimedRow

\* What the result of an attempt writes into a delivery row.
LEMMA CompletedFacts ==
  ASSUME TypeOK, NEW d \in deliveries, NEW t, NEW ok \in BOOLEAN,
         NEW e, e = CompletedRow(d, t, ok)
  PROVE  /\ e.watch = d.watch /\ e.run = d.run /\ e.target = d.target
         /\ e.payload = d.payload /\ e.attempts = d.attempts
         /\ e.status = CompletedStatus(d, ok)
         /\ e.owner = NULL /\ e.expires = NULL
<1>1. d \in DeliveryRow
  BY DEF TypeOK
<1> QED
  BY <1>1 DEF DeliveryRow, CompletedRow

\* An instant is never NULL, nor is the end of a lease.
LEMMA LeaseEnds ==
  ASSUME NEW t \in Times, NEW l \in Leases
  PROVE  t + l \in Nat /\ t + l # NULL
BY StoreAssumption

\* What the store writes into a delivery row keeps the retry accounting.
LEMMA RetryStep == TypeOK /\ RetryBudget /\ [Next]_storeVars => RetryBudget'
<1> SUFFICES ASSUME TypeOK, RetryBudget, [Next]_storeVars
             PROVE  RetryBudget'
  OBVIOUS
<1> USE StoreAssumption
<1>1. ASSUME deliveries' \subseteq deliveries
      PROVE  RetryBudget'
  BY <1>1 DEF RetryBudget
<1>2. ASSUME NEW w \in WatchIds, NEW i \in Intervals, NEW t \in Times,
             CreateWatch(w, i, t)
      PROVE  RetryBudget'
  BY <1>1, <1>2 DEF CreateWatch
<1>3. ASSUME NEW w \in WatchIds, DeleteWatch(w)
      PROVE  RetryBudget'
  BY <1>1, <1>3 DEF DeleteWatch
<1>4. ASSUME NEW x \in watches, NEW t \in Times, NEW o \in Owners,
             NEW l \in Leases, ClaimDueWatch(x, t, o, l)
      PROVE  RetryBudget'
  BY <1>1, <1>4 DEF ClaimDueWatch
<1>5. ASSUME NEW w \in WatchIds, NEW r \in RunIds, NEW o \in Owners,
             NEW t \in Times, StartWatchRun(w, r, o, t)
      PROVE  RetryBudget'
  BY <1>1, <1>5 DEF StartWatchRun
<1>6. ASSUME NEW w \in WatchIds, NEW r \in RunIds, NEW o \in Owners,
             NEW t \in Times, NEW seen \in SUBSET RecordIds,
             NEW s \in Outcomes, NEW c \in Configs,
             CompleteWatchRun(w, r, o, t, seen, s, c)
      PROVE  RetryBudget'
  <2> DEFINE e == NewDelivery(w, r, c, NewRecords(w, seen), t)
  <2>1. deliveries' \subseteq deliveries \cup {e}
    BY <1>6 DEF CompleteWatchRun, InsertRunDelivery
  <2>2. e.status = "pending" /\ e.attempts = 0
    BY DEF NewDelivery
  <2> QED
    BY <2>1, <2>2 DEF RetryBudget
<1>7. ASSUME NEW d \in deliveries, NEW t \in Times, NEW o \in Owners,
             NEW l \in Leases, ClaimPendingDelivery(d, t, o, l)
      PROVE  RetryBudget'
  <2> DEFINE e == ClaimedRow(d, t, o, l)
  <2>1. deliveries' \subseteq deliveries \cup {e}
    BY <1>7 DEF ClaimPendingDelivery, Replace
  <2>2. e.status = "delivering" /\ e.attempts = d.attempts + 1
    BY ClaimedFacts
  <2>3. d.attempts \in Nat
    BY DEF TypeOK, DeliveryRow
  <2> HIDE DEF e
  <2> QED
    BY <2>1, <2>2, <2>3 DEF RetryBudget
<1>8. ASSUME NEW w \in WatchIds, NEW r \in RunIds, NEW o \in Owners,
             NEW t \in Times, NEW ok \in BOOLEAN,
             CompleteDelivery(w, r, o, t, ok)
      PROVE  RetryBudget'
  <2>1. PICK d \in DeliveryUnderLease(w, r, o, t) :
          deliveries' = Replace(deliveries, d, CompletedRow(d, t, ok))
    BY <1>8 DEF CompleteDelivery
  <2>2. d \in deliveries /\ d.status = "delivering"
    BY DEF DeliveryUnderLease, DeliveryOf
  <2> DEFINE e == CompletedRow(d, t, ok)
  <2>3. e.status = CompletedStatus(d, ok) /\ e.attempts = d.attempts
    BY <2>2, CompletedFacts
  <2>4. d.attempts \in Nat
    BY <2>2 DEF TypeOK, DeliveryRow
  <2>5. deliveries' \subseteq deliveries \cup {e}
    BY <2>1 DEF Replace
  <2> HIDE DEF e
  <2>6. /\ e.status = "pending" => e.attempts < MaxAttempts
        /\ e.status = "failed" => e.attempts >= MaxAttempts
        /\ e.status \in {"delivering", "succeeded"} => e.attempts > 0
    BY <2>2, <2>3, <2>4 DEF RetryBudget, CompletedStatus
  <2> QED
    BY <2>5, <2>6 DEF RetryBudget
<1>9. CASE UNCHANGED storeVars
  BY <1>1, <1>9 DEF storeVars
<1>10. CASE WatchStep
  BY <1>2, <1>3, <1>4, <1>10 DEF WatchStep
<1>11. CASE RunStep
  BY <1>5, <1>6, <1>11 DEF RunStep
<1>12. CASE DeliveryStep
  BY <1>7, <1>8, <1>12 DEF DeliveryStep
<1> QED
  BY <1>9, <1>10, <1>11, <1>12 DEF Next

\* No delivery waits for a retry that its attempt budget does not allow, and
\* none is given up on before the budget is used.
THEOREM RetryBudgetHolds == Spec => []RetryBudget
<1>1. Init => RetryBudget
  BY DEF Init, RetryBudget
<1> QED
  BY <1>1, RetryStep, TypeCorrect, PTL DEF Spec

\* What a claim and a completion write into a watch row.
LEMMA WatchRowFacts ==
  ASSUME TypeOK, NEW x \in watches, NEW t, NEW o
  PROVE  /\ LET y == [x EXCEPT !.owner = o, !.expires = t]
            IN  y.id = x.id /\ y.owner = o /\ y.expires = t
         /\ LET y == [x EXCEPT !.nextDue = t, !.owner = NULL, !.expires = NULL]
            IN  y.id = x.id /\ y.owner = NULL /\ y.expires = NULL
<1>1. x \in WatchRow
  BY DEF TypeOK
<1> QED
  BY <1>1 DEF WatchRow

\* Both columns of a lease are written together, and a delivery carries one
\* exactly while it is in flight.
LEMMA LeaseStep == TypeOK /\ LeaseColumns /\ [Next]_storeVars => LeaseColumns'
<1> SUFFICES ASSUME TypeOK, LeaseColumns, [Next]_storeVars
             PROVE  LeaseColumns'
  OBVIOUS
<1> USE StoreAssumption
<1> DEFINE WatchOK(x) == x.owner = NULL <=> x.expires = NULL
           DeliveryOK(d) == /\ d.owner = NULL <=> d.expires = NULL
                            /\ d.status = "delivering" <=> d.owner # NULL
<1>0. ASSUME \A x \in watches' : x \in watches \/ WatchOK(x),
             \A d \in deliveries' : d \in deliveries \/ DeliveryOK(d)
      PROVE  LeaseColumns'
  BY <1>0 DEF LeaseColumns
<1> HIDE DEF WatchOK, DeliveryOK
<1>1. ASSUME NEW w \in WatchIds, NEW i \in Intervals, NEW t \in Times,
             CreateWatch(w, i, t)
      PROVE  LeaseColumns'
  <2>1. WatchOK(NewWatch(w, i, t))
    BY DEF NewWatch, WatchOK
  <2> QED
    BY <1>0, <1>1, <2>1 DEF CreateWatch
<1>2. ASSUME NEW w \in WatchIds, DeleteWatch(w)
      PROVE  LeaseColumns'
  BY <1>0, <1>2 DEF DeleteWatch
<1>3. ASSUME NEW x \in watches, NEW t \in Times, NEW o \in Owners,
             NEW l \in Leases, ClaimDueWatch(x, t, o, l)
      PROVE  LeaseColumns'
  <2>1. WatchOK([x EXCEPT !.owner = o, !.expires = t + l])
    BY WatchRowFacts, LeaseEnds DEF WatchOK
  <2> QED
    BY <1>0, <1>3, <2>1 DEF ClaimDueWatch, Replace
<1>4. ASSUME NEW w \in WatchIds, NEW r \in RunIds, NEW o \in Owners,
             NEW t \in Times, StartWatchRun(w, r, o, t)
      PROVE  LeaseColumns'
  BY <1>0, <1>4 DEF StartWatchRun
<1>5. ASSUME NEW w \in WatchIds, NEW r \in RunIds, NEW o \in Owners,
             NEW t \in Times, NEW seen \in SUBSET RecordIds,
             NEW s \in Outcomes, NEW c \in Configs,
             CompleteWatchRun(w, r, o, t, seen, s, c)
      PROVE  LeaseColumns'
  <2>1. PICK x \in WatchUnderLease(w, o, t) :
          /\ InsertRunDelivery(w, r, c, seen, t)
          /\ FinishWatch(x, t)
    BY <1>5 DEF CompleteWatchRun
  <2>2. WatchOK([x EXCEPT !.nextDue = t + x.interval, !.owner = NULL,
                          !.expires = NULL])
    BY WatchRowFacts DEF WatchUnderLease, WatchOK
  <2>3. DeliveryOK(NewDelivery(w, r, c, NewRecords(w, seen), t))
    BY DEF NewDelivery, DeliveryOK
  <2>4. \A y \in watches' : y \in watches \/ WatchOK(y)
    BY <2>1, <2>2 DEF FinishWatch, Replace
  <2>5. \A d \in deliveries' : d \in deliveries \/ DeliveryOK(d)
    BY <2>1, <2>3 DEF InsertRunDelivery
  <2> QED
    BY <1>0, <2>4, <2>5
<1>6. ASSUME NEW d \in deliveries, NEW t \in Times, NEW o \in Owners,
             NEW l \in Leases, ClaimPendingDelivery(d, t, o, l)
      PROVE  LeaseColumns'
  <2>1. DeliveryOK(ClaimedRow(d, t, o, l))
    BY ClaimedFacts, LeaseEnds DEF DeliveryOK
  <2> QED
    BY <1>0, <1>6, <2>1 DEF ClaimPendingDelivery, Replace
<1>7. ASSUME NEW w \in WatchIds, NEW r \in RunIds, NEW o \in Owners,
             NEW t \in Times, NEW ok \in BOOLEAN,
             CompleteDelivery(w, r, o, t, ok)
      PROVE  LeaseColumns'
  <2>1. PICK d \in DeliveryUnderLease(w, r, o, t) :
          /\ deliveries' = Replace(deliveries, d, CompletedRow(d, t, ok))
          /\ watches' = watches
    BY <1>7 DEF CompleteDelivery
  <2>2. CompletedStatus(d, ok) # "delivering"
    BY DEF CompletedStatus
  <2>3. DeliveryOK(CompletedRow(d, t, ok))
    BY <2>2, CompletedFacts DEF DeliveryUnderLease, DeliveryOf, DeliveryOK
  <2> QED
    BY <1>0, <2>1, <2>3 DEF Replace
<1>8. CASE UNCHANGED storeVars
  BY <1>0, <1>8 DEF storeVars
<1>9. CASE WatchStep
  BY <1>1, <1>2, <1>3, <1>9 DEF WatchStep
<1>10. CASE RunStep
  BY <1>4, <1>5, <1>10 DEF RunStep
<1>11. CASE DeliveryStep
  BY <1>6, <1>7, <1>11 DEF DeliveryStep
<1> QED
  BY <1>8, <1>9, <1>10, <1>11 DEF Next

\* No row is leased without a deadline, and no delivery is in flight without a
\* lease: every claim can be taken over once its time is up.
THEOREM LeaseColumnsHold == Spec => []LeaseColumns
<1>1. Init => LeaseColumns
  BY DEF Init, LeaseColumns
<1> QED
  BY <1>1, LeaseStep, TypeCorrect, PTL DEF Spec

-----------------------------------------------------------------------------
(***************************************************************************)
(* The outbox guarantee of the store, for any client and every value of    *)
(* the constants: a record that is new to a watch enters exactly one batch,*)
(* in the same step in which the watch first observes it.                  *)
(*                                                                         *)
(* None of the parts is inductive alone.  A completion queues its batch    *)
(* only if the run has none yet; that it has none follows from             *)
(* DeliveryOfFinishedRun, because the run is still running, and from       *)
(* KeysUnique, because no second row of that run can be the finished one.  *)
(***************************************************************************)

\* The inductive invariant.
OutboxInv ==
  /\ KeysUnique
  /\ NoOrphans
  /\ DeliveryOfFinishedRun
  /\ BatchesDisjoint
  /\ OutboxComplete

-----------------------------------------------------------------------------
(* What the upserts of a completion do to the tables *)

\* FinishRun rewrites the status of one run and keeps every key.
LEMMA FinishRunFacts ==
  ASSUME TypeOK, NEW w, NEW r, NEW s, FinishRun(w, r, s)
  PROVE  /\ \A y \in runs' : \E x \in runs :
              /\ x.watch = y.watch /\ x.run = y.run
              /\ y = IF x.watch = w /\ x.run = r THEN [x EXCEPT !.status = s]
                     ELSE x
         /\ \A x \in runs : \E y \in runs' :
              /\ x.watch = y.watch /\ x.run = y.run
              /\ y.status = IF x.watch = w /\ x.run = r THEN s ELSE x.status
<1>1. \A x \in runs : /\ [x EXCEPT !.status = s].watch = x.watch
                      /\ [x EXCEPT !.status = s].run = x.run
                      /\ [x EXCEPT !.status = s].status = s
  BY DEF TypeOK, RunRow
<1> QED
  BY <1>1 DEF FinishRun

\* UpsertRecords keeps every record, adds the seen ones and keeps keys apart.
LEMMA UpsertRecordsFacts ==
  ASSUME TypeOK, NEW seen, NEW t, UpsertRecords(seen, t),
         \A x, y \in records : x.record = y.record => x = y
  PROVE  /\ \A x \in records : \E y \in records' : y.record = x.record
         /\ \A r \in seen : \E y \in records' : y.record = r
         /\ \A x, y \in records' : x.record = y.record => x = y
<1> DEFINE Updated(x) == IF x.record \in seen THEN [x EXCEPT !.last = t] ELSE x
           Inserted(r) == [record |-> r, first |-> t, last |-> t]
           New == {r \in seen : \A x \in records : x.record # r}
<1>1. \A x \in records : Updated(x).record = x.record
  BY DEF TypeOK, RecordRow
<1>2. \A r : Inserted(r).record = r
  OBVIOUS
<1>3. records' = {Updated(x) : x \in records} \cup {Inserted(r) : r \in New}
  BY DEF UpsertRecords
<1>4. \A r \in seen : r \in New \/ \E x \in records : x.record = r
  OBVIOUS
<1>5. \A r \in New : \A x \in records : x.record # r
  OBVIOUS
<1> HIDE DEF Updated, Inserted, New
<1>6. \A x \in records : \E y \in records' : y.record = x.record
  BY <1>1, <1>3
<1>7. \A r \in seen : \E y \in records' : y.record = r
  BY <1>2, <1>3, <1>4, <1>6
<1>8. \A x, y \in records' : x.record = y.record => x = y
  BY <1>1, <1>2, <1>3, <1>5
<1> QED
  BY <1>6, <1>7, <1>8

\* UpsertWatchRecords adds exactly the new records to the history of the watch.
LEMMA UpsertWatchRecordsFacts ==
  ASSUME TypeOK, NEW w, NEW seen, NEW t, UpsertWatchRecords(w, seen, t),
         \A x, y \in watchRecords :
           x.watch = y.watch /\ x.record = y.record => x = y
  PROVE  /\ \A x \in watchRecords : \E y \in watchRecords' :
              y.watch = x.watch /\ y.record = x.record
         /\ \A r \in NewRecords(w, seen) : \E y \in watchRecords' :
              y.watch = w /\ y.record = r
         /\ \A y \in watchRecords' :
              \/ \E x \in watchRecords :
                   x.watch = y.watch /\ x.record = y.record
              \/ y.watch = w /\ y.record \in NewRecords(w, seen)
         /\ \A x, y \in watchRecords' :
              x.watch = y.watch /\ x.record = y.record => x = y
<1>1. \A x \in watchRecords : /\ [x EXCEPT !.last = t].record = x.record
                              /\ [x EXCEPT !.last = t].watch = x.watch
  BY DEF TypeOK, WatchRecordRow
<1> DEFINE Updated(x) == IF x.watch = w /\ x.record \in seen
                         THEN [x EXCEPT !.last = t] ELSE x
           Inserted(r) == [watch |-> w, record |-> r, first |-> t, last |-> t]
<1>2. \A x \in watchRecords :
        Updated(x).watch = x.watch /\ Updated(x).record = x.record
  BY <1>1
<1>3. \A r : Inserted(r).watch = w /\ Inserted(r).record = r
  OBVIOUS
<1>4. watchRecords' = {Updated(x) : x \in watchRecords}
                      \cup {Inserted(r) : r \in NewRecords(w, seen)}
  BY DEF UpsertWatchRecords
<1> HIDE DEF Updated, Inserted
<1>5. \A x \in watchRecords : \E y \in watchRecords' :
        y.watch = x.watch /\ y.record = x.record
  BY <1>2, <1>4
<1>6. \A r \in NewRecords(w, seen) : \E y \in watchRecords' :
        y.watch = w /\ y.record = r
  BY <1>3, <1>4
<1>7. \A y \in watchRecords' :
        \/ \E x \in watchRecords : x.watch = y.watch /\ x.record = y.record
        \/ y.watch = w /\ y.record \in NewRecords(w, seen)
  BY <1>2, <1>3, <1>4
<1>8. \A x, y \in watchRecords' :
        x.watch = y.watch /\ x.record = y.record => x = y
  BY <1>2, <1>3, <1>4 DEF NewRecords
<1> QED
  BY <1>5, <1>6, <1>7, <1>8

\* What an upsert does to the history of a watch: the rows it touches are stamped
\* now, and keep the time of their first observation.
LEMMA HistoryFacts ==
  ASSUME TypeOK, NEW w, NEW seen, NEW t, UpsertWatchRecords(w, seen, t)
  PROVE  \A y \in watchRecords' :
           \/ y \in watchRecords
           \/ /\ y.watch = w /\ y.last = t
              /\ \/ y.record \in NewRecords(w, seen)
                 \/ \E x \in watchRecords : x.watch = w /\ x.record = y.record /\ x.first = y.first
<1> DEFINE Updated(x) == [x EXCEPT !.last = t]
           Inserted(r) == [watch |-> w, record |-> r, first |-> t, last |-> t]
<1>1. \A x \in watchRecords : /\ Updated(x).record = x.record
                              /\ Updated(x).watch = x.watch
                              /\ Updated(x).first = x.first
                              /\ Updated(x).last = t
  BY DEF TypeOK, WatchRecordRow
<1>2. \A r : Inserted(r).watch = w /\ Inserted(r).record = r /\ Inserted(r).last = t
  OBVIOUS
<1>3. \A y \in watchRecords' :
        \/ y \in watchRecords
        \/ \E x \in watchRecords : x.watch = w /\ y = Updated(x)
        \/ \E r \in NewRecords(w, seen) : y = Inserted(r)
  BY DEF UpsertWatchRecords
<1> HIDE DEF Updated, Inserted
<1> QED
  BY <1>1, <1>2, <1>3

-----------------------------------------------------------------------------
(* The steps that leave the runs' outcomes and the histories alone *)

\* Claims and results rewrite one row in place: the invariant reads only the
\* columns they keep.
LEMMA ReplaceDelivery ==
  ASSUME OutboxInv, NEW d \in deliveries, NEW e,
         e.watch = d.watch, e.run = d.run, e.payload = d.payload,
         deliveries' = Replace(deliveries, d, e),
         UNCHANGED <<watches, runs, records, watchRecords>>
  PROVE  OutboxInv'
<1> USE DEF Replace
<1>1. KeysUnique'
  BY DEF OutboxInv, KeysUnique
<1>2. NoOrphans'
  BY DEF OutboxInv, NoOrphans
<1>3. DeliveryOfFinishedRun'
  <2>1. \A x \in deliveries' : \E y \in deliveries :
          x.watch = y.watch /\ x.run = y.run
    OBVIOUS
  <2> QED
    BY <2>1 DEF OutboxInv, DeliveryOfFinishedRun, RunOf
<1>4. BatchesDisjoint'
  <2>1. \A x \in deliveries' : \E y \in deliveries :
          x.watch = y.watch /\ x.run = y.run /\ x.payload = y.payload
    OBVIOUS
  <2> QED
    BY <2>1 DEF OutboxInv, BatchesDisjoint
<1>5. OutboxComplete'
  <2>1. \A y \in deliveries : \E x \in deliveries' :
          x.watch = y.watch /\ x.payload = y.payload
    OBVIOUS
  <2> QED
    BY <2>1 DEF OutboxInv, OutboxComplete
<1> QED
  BY <1>1, <1>2, <1>3, <1>4, <1>5 DEF OutboxInv

\* A claim rewrites one watch in place.
LEMMA ReplaceWatch ==
  ASSUME OutboxInv, NEW x \in watches, NEW y, y.id = x.id,
         watches' = Replace(watches, x, y),
         UNCHANGED <<runs, records, watchRecords, deliveries>>
  PROVE  OutboxInv'
<1> USE DEF Replace
<1>1. KeysUnique'
  BY DEF OutboxInv, KeysUnique
<1>2. NoOrphans'
  <2>1. \A z \in watches : \E u \in watches' : u.id = z.id
    OBVIOUS
  <2> QED
    BY <2>1 DEF OutboxInv, NoOrphans
<1> QED
  BY <1>1, <1>2 DEF OutboxInv, DeliveryOfFinishedRun, RunOf, BatchesDisjoint,
                    OutboxComplete

\* A new watch has no rows in the other tables.
LEMMA CreateKeepsOutbox ==
  ASSUME OutboxInv, NEW w, NEW i, NEW t, CreateWatch(w, i, t)
  PROVE  OutboxInv'
<1> USE DEF CreateWatch
<1>1. NewWatch(w, i, t).id = w
  BY DEF NewWatch
<1>2. KeysUnique'
  BY <1>1 DEF OutboxInv, KeysUnique
<1>3. NoOrphans'
  BY DEF OutboxInv, NoOrphans
<1> QED
  BY <1>2, <1>3 DEF OutboxInv, DeliveryOfFinishedRun, RunOf, BatchesDisjoint,
                    OutboxComplete

\* The cascade takes all rows of the watch and none of another.
LEMMA DeleteKeepsOutbox ==
  ASSUME OutboxInv, NEW w, DeleteWatch(w)
  PROVE  OutboxInv'
<1> USE DEF DeleteWatch
<1>1. KeysUnique'
  BY DEF OutboxInv, KeysUnique
<1>2. NoOrphans'
  BY DEF OutboxInv, NoOrphans
<1>3. DeliveryOfFinishedRun'
  BY DEF OutboxInv, DeliveryOfFinishedRun, RunOf
<1>4. BatchesDisjoint'
  BY DEF OutboxInv, BatchesDisjoint
<1>5. OutboxComplete'
  BY DEF OutboxInv, OutboxComplete
<1> QED
  BY <1>1, <1>2, <1>3, <1>4, <1>5 DEF OutboxInv

\* A started run has a watch, and no delivery of its own.
LEMMA StartKeepsOutbox ==
  ASSUME OutboxInv, NEW w, NEW r, NEW o, NEW t, StartWatchRun(w, r, o, t)
  PROVE  OutboxInv'
<1> DEFINE e == [watch |-> w, run |-> r, owner |-> o, status |-> "running"]
<1>1. e.watch = w /\ e.run = r
  OBVIOUS
<1>2. /\ UNCHANGED <<watches, records, watchRecords, deliveries>>
      /\ \/ runs' = runs
         \/ /\ runs' = runs \cup {e}
            /\ RunOf(w, r) = {}
            /\ \E x \in watches : x.id = w
  BY DEF StartWatchRun, WatchUnderLease
<1> HIDE DEF e
<1>3. KeysUnique'
  BY <1>1, <1>2 DEF OutboxInv, KeysUnique, RunOf
<1>4. NoOrphans'
  BY <1>1, <1>2 DEF OutboxInv, NoOrphans
<1>5. DeliveryOfFinishedRun'
  BY <1>2 DEF OutboxInv, DeliveryOfFinishedRun, RunOf
<1> QED
  BY <1>2, <1>3, <1>4, <1>5 DEF OutboxInv, BatchesDisjoint, OutboxComplete

-----------------------------------------------------------------------------
(* The completion transaction *)

\* The run being completed has nothing queued yet, so its batch is inserted
\* exactly when there are new records to report.
LEMMA CompletingRunHasNoBatch ==
  ASSUME OutboxInv, NEW w, NEW r, NEW o, RunningRun(w, r, o) # {}
  PROVE  DeliveryOf(w, r) = {}
<1>1. PICK x \in runs : x.watch = w /\ x.run = r /\ x.status = "running"
  BY DEF RunningRun, RunOf
<1>2. SUFFICES ASSUME NEW d \in deliveries, d.watch = w, d.run = r
               PROVE  FALSE
  BY DEF DeliveryOf
<1>3. PICK y \in runs : y.watch = w /\ y.run = r /\ y.status \in Outcomes
  BY <1>2 DEF OutboxInv, DeliveryOfFinishedRun, RunOf
<1>4. x = y
  BY <1>1, <1>3 DEF OutboxInv, KeysUnique
<1> QED
  BY <1>1, <1>3, <1>4 DEF Outcomes

\* A completion keeps the invariant.
LEMMA CompleteKeepsOutbox ==
  ASSUME TypeOK, OutboxInv, NEW w \in WatchIds, NEW r \in RunIds,
         NEW o \in Owners, NEW t \in Times, NEW seen \in SUBSET RecordIds,
         NEW s \in Outcomes, NEW c \in Configs,
         CompleteWatchRun(w, r, o, t, seen, s, c)
  PROVE  OutboxInv'
<1>1. PICK x \in WatchUnderLease(w, o, t) :
        /\ RunningRun(w, r, o) # {}
        /\ UpsertRecords(seen, t)
        /\ UpsertWatchRecords(w, seen, t)
        /\ InsertRunDelivery(w, r, c, seen, t)
        /\ FinishRun(w, r, s)
        /\ FinishWatch(x, t)
  BY DEF CompleteWatchRun
<1> DEFINE fresh == NewRecords(w, seen)
           e == NewDelivery(w, r, c, fresh, t)
<1>2. DeliveryOf(w, r) = {}
  BY <1>1, CompletingRunHasNoBatch
<1>3. deliveries' = IF c = NULL \/ fresh = {} THEN deliveries
                    ELSE deliveries \cup {e}
  BY <1>1, <1>2 DEF InsertRunDelivery
<1>4. e.watch = w /\ e.run = r /\ e.payload = fresh
  BY DEF NewDelivery
<1>5. x \in watches /\ x.id = w
  BY DEF WatchUnderLease
<1>6. PICK y : y.id = w /\ watches' = Replace(watches, x, y)
  BY <1>1, <1>5, WatchRowFacts DEF FinishWatch
<1>7. PICK run \in runs : run.watch = w /\ run.run = r
  BY <1>1 DEF RunningRun, RunOf
<1>8. fresh \subseteq seen
  BY DEF NewRecords
<1>9. \A u \in fresh : \A z \in watchRecords : ~(z.watch = w /\ z.record = u)
  BY DEF NewRecords
<1>R. /\ \A z \in runs' : \E u \in runs :
           /\ u.watch = z.watch /\ u.run = z.run
           /\ z = IF u.watch = w /\ u.run = r THEN [u EXCEPT !.status = s] ELSE u
      /\ \A u \in runs : \E z \in runs' :
           /\ u.watch = z.watch /\ u.run = z.run
           /\ z.status = IF u.watch = w /\ u.run = r THEN s ELSE u.status
  BY <1>1, FinishRunFacts
<1>S. /\ \A z \in records : \E u \in records' : u.record = z.record
      /\ \A z \in seen : \E u \in records' : u.record = z
      /\ \A z, u \in records' : z.record = u.record => z = u
  BY <1>1, UpsertRecordsFacts DEF OutboxInv, KeysUnique
<1>W. /\ \A z \in watchRecords : \E u \in watchRecords' :
           u.watch = z.watch /\ u.record = z.record
      /\ \A z \in fresh : \E u \in watchRecords' : u.watch = w /\ u.record = z
      /\ \A u \in watchRecords' :
           \/ \E z \in watchRecords : z.watch = u.watch /\ z.record = u.record
           \/ u.watch = w /\ u.record \in fresh
      /\ \A z, u \in watchRecords' :
           z.watch = u.watch /\ z.record = u.record => z = u
  BY <1>1, UpsertWatchRecordsFacts DEF OutboxInv, KeysUnique
<1> HIDE DEF fresh, e
<1>10. \A d \in deliveries : ~(d.watch = w /\ d.run = r)
  BY <1>2 DEF DeliveryOf
<1>11. KeysUnique'
  <2>1. \A u, z \in watches' : u.id = z.id => u = z
    BY <1>5, <1>6 DEF OutboxInv, KeysUnique, Replace
  <2>2. \A u, z \in runs' : u.watch = z.watch /\ u.run = z.run => u = z
    BY <1>R DEF OutboxInv, KeysUnique
  <2>3. \A d, f \in deliveries' : d.watch = f.watch /\ d.run = f.run => d = f
    BY <1>3, <1>4, <1>10 DEF OutboxInv, KeysUnique
  <2> QED
    BY <2>1, <2>2, <2>3, <1>S, <1>W DEF KeysUnique
<1>12. NoOrphans'
  <2>1. \A z \in watches : \E u \in watches' : u.id = z.id
    BY <1>5, <1>6 DEF Replace
  <2>2. \A z \in runs' : \E u \in watches' : u.id = z.watch
    BY <2>1, <1>R DEF OutboxInv, NoOrphans
  <2>3. \A z \in watchRecords' : \E u \in watches' : u.id = z.watch
    BY <2>1, <1>5, <1>W DEF OutboxInv, NoOrphans
  <2>4. \A z \in watchRecords' : \E u \in records' : u.record = z.record
    BY <1>8, <1>S, <1>W DEF OutboxInv, NoOrphans
  <2>5. \A d \in deliveries' : \E u \in watches' : u.id = d.watch
    BY <2>1, <1>3, <1>4, <1>5 DEF OutboxInv, NoOrphans
  <2> QED
    BY <2>2, <2>3, <2>4, <2>5 DEF NoOrphans
<1>13. DeliveryOfFinishedRun'
  <2>1. ASSUME NEW u \in runs, u.status \in Outcomes
        PROVE  \E z \in runs' : /\ u.watch = z.watch /\ u.run = z.run
                                /\ z.status \in Outcomes
    BY <2>1, <1>R
  <2>2. \E z \in runs' : z.watch = w /\ z.run = r /\ z.status \in Outcomes
    BY <1>7, <1>R
  <2>3. \A d \in deliveries : \E z \in runs' :
          z.watch = d.watch /\ z.run = d.run /\ z.status \in Outcomes
    BY <2>1 DEF OutboxInv, DeliveryOfFinishedRun, RunOf
  <2>4. \A d \in deliveries' : \E z \in runs' :
          z.watch = d.watch /\ z.run = d.run /\ z.status \in Outcomes
    BY <2>2, <2>3, <1>3, <1>4
  <2> QED
    BY <2>4 DEF DeliveryOfFinishedRun, RunOf
<1>14. BatchesDisjoint'
  <2>1. \A d \in deliveries' : d.payload # {}
    BY <1>3, <1>4 DEF OutboxInv, BatchesDisjoint
  <2>2. \A d \in deliveries : \A u \in d.payload :
          \E z \in watchRecords : z.watch = d.watch /\ z.record = u
    BY DEF OutboxInv, BatchesDisjoint
  <2>3. \A d \in deliveries' : \A u \in d.payload :
          \E z \in watchRecords' : z.watch = d.watch /\ z.record = u
    BY <2>2, <1>3, <1>4, <1>W
  <2>4. \A d \in deliveries : d.watch = w => d.payload \cap fresh = {}
    BY <2>2, <1>9
  <2>5. \A d, f \in deliveries :
          f.watch = d.watch /\ f.run # d.run => d.payload \cap f.payload = {}
    BY DEF OutboxInv, BatchesDisjoint
  <2>6. \A d, f \in deliveries' :
          f.watch = d.watch /\ f.run # d.run => d.payload \cap f.payload = {}
    BY <2>4, <2>5, <1>3, <1>4
  <2> QED
    BY <2>1, <2>3, <2>6 DEF BatchesDisjoint
<1>15. OutboxComplete'
  <2>1. SUFFICES ASSUME NULL \notin Configs, NEW u \in watchRecords'
                 PROVE  \E d \in deliveries' : /\ d.watch = u.watch
                                               /\ u.record \in d.payload
    BY DEF OutboxComplete
  <2>2. CASE \E z \in watchRecords : z.watch = u.watch /\ z.record = u.record
    BY <2>1, <2>2, <1>3 DEF OutboxInv, OutboxComplete
  <2>3. CASE u.watch = w /\ u.record \in fresh
    <3>1. c # NULL /\ fresh # {}
      BY <2>1, <2>3
    <3> QED
      BY <2>3, <3>1, <1>3, <1>4
  <2> QED
    BY <2>2, <2>3, <1>W
<1> QED
  BY <1>11, <1>12, <1>13, <1>14, <1>15 DEF OutboxInv

-----------------------------------------------------------------------------
(* The theorems *)

\* Every step of every client keeps the invariant.
LEMMA OutboxStep == TypeOK /\ OutboxInv /\ [Next]_storeVars => OutboxInv'
<1> SUFFICES ASSUME TypeOK, OutboxInv, [Next]_storeVars
             PROVE  OutboxInv'
  OBVIOUS
<1>1. CASE WatchStep
  <2>1. ASSUME NEW x \in watches, NEW t \in Times, NEW o \in Owners,
               NEW l \in Leases, ClaimDueWatch(x, t, o, l)
        PROVE  OutboxInv'
    <3> DEFINE y == [x EXCEPT !.owner = o, !.expires = t + l]
    <3>1. y.id = x.id /\ watches' = Replace(watches, x, y)
      BY <2>1, WatchRowFacts DEF ClaimDueWatch
    <3> HIDE DEF y
    <3> QED
      BY <2>1, <3>1, ReplaceWatch DEF ClaimDueWatch
  <2> QED
    BY <1>1, <2>1, CreateKeepsOutbox, DeleteKeepsOutbox DEF WatchStep
<1>2. CASE RunStep
  <2>1. ASSUME \E w \in WatchIds, r \in RunIds, o \in Owners, t \in Times :
                 StartWatchRun(w, r, o, t)
        PROVE  OutboxInv'
    BY <2>1, StartKeepsOutbox
  <2> QED
    BY <1>2, <2>1, CompleteKeepsOutbox DEF RunStep
<1>3. CASE DeliveryStep
  <2>1. ASSUME NEW d \in deliveries, NEW t \in Times, NEW o \in Owners,
               NEW l \in Leases, ClaimPendingDelivery(d, t, o, l)
        PROVE  OutboxInv'
    <3>1. PICK e : /\ e.watch = d.watch /\ e.run = d.run
                   /\ e.payload = d.payload
                   /\ deliveries' = Replace(deliveries, d, e)
      BY <2>1, ClaimedFacts DEF ClaimPendingDelivery
    <3> QED
      BY <2>1, <3>1, ReplaceDelivery DEF ClaimPendingDelivery
  <2>2. ASSUME NEW w \in WatchIds, NEW r \in RunIds, NEW o \in Owners,
               NEW t \in Times, NEW ok \in BOOLEAN,
               CompleteDelivery(w, r, o, t, ok)
        PROVE  OutboxInv'
    <3>1. PICK d \in deliveries :
            /\ deliveries' = Replace(deliveries, d, CompletedRow(d, t, ok))
            /\ UNCHANGED <<watches, runs, records, watchRecords>>
      BY <2>2 DEF CompleteDelivery, DeliveryUnderLease, DeliveryOf
    <3>2. PICK e : /\ e.watch = d.watch /\ e.run = d.run
                   /\ e.payload = d.payload
                   /\ deliveries' = Replace(deliveries, d, e)
      BY <3>1, CompletedFacts
    <3> QED
      BY <3>1, <3>2, ReplaceDelivery
  <2> QED
    BY <1>3, <2>1, <2>2 DEF DeliveryStep
<1>4. CASE UNCHANGED storeVars
  BY <1>4 DEF storeVars, OutboxInv, KeysUnique, NoOrphans,
              DeliveryOfFinishedRun, RunOf, BatchesDisjoint, OutboxComplete
<1> QED
  BY <1>1, <1>2, <1>3, <1>4 DEF Next

\* The invariant holds of every behaviour of the store.
LEMMA OutboxAlways == Spec => []OutboxInv
<1>1. Init => OutboxInv
  BY DEF Init, OutboxInv, KeysUnique, NoOrphans, DeliveryOfFinishedRun,
         BatchesDisjoint, OutboxComplete
<1> QED
  BY <1>1, OutboxStep, TypeCorrect, PTL DEF Spec

\* No record is queued twice for one watch: its batches are disjoint.
THEOREM BatchesStayDisjoint == Spec => []BatchesDisjoint
<1>1. OutboxInv => BatchesDisjoint
  BY DEF OutboxInv
<1> QED
  BY <1>1, OutboxAlways, PTL

\* No observation is lost on the way to the outbox.
THEOREM OutboxStaysComplete == Spec => []OutboxComplete
<1>1. OutboxInv => OutboxComplete
  BY DEF OutboxInv
<1> QED
  BY <1>1, OutboxAlways, PTL

\* Deleting a watch at any moment leaves no orphan row behind.
THEOREM NeverOrphans == Spec => []NoOrphans
<1>1. OutboxInv => NoOrphans
  BY DEF OutboxInv
<1> QED
  BY <1>1, OutboxAlways, PTL

\* A delivery is only ever visible together with its finished run.
THEOREM DeliveriesOfFinishedRuns == Spec => []DeliveryOfFinishedRun
<1>1. OutboxInv => DeliveryOfFinishedRun
  BY DEF OutboxInv
<1> QED
  BY <1>1, OutboxAlways, PTL

\* A finished run and a settled delivery are never rewritten.  KeysUnique is
\* what makes the guards of the completion protect every finished run: the
\* UPDATE is addressed by key, and the key's only row is the running one.
THEOREM FinishedIsFinal == Spec => Final
<1> DEFINE Kept ==
      /\ \A x \in runs :
           x.status # "running" =>
             x \in runs' \/ \A y \in watches' : y.id # x.watch
      /\ \A d \in deliveries :
           d.status \in Outcomes =>
             d \in deliveries' \/ \A y \in watches' : y.id # d.watch
<1>1. TypeOK /\ OutboxInv /\ [Next]_storeVars => [Kept]_storeVars
  <2> SUFFICES ASSUME TypeOK, OutboxInv, Next
               PROVE  Kept
    OBVIOUS
  <2>1. ASSUME NEW w \in WatchIds, NEW i \in Intervals, NEW t \in Times,
               CreateWatch(w, i, t)
        PROVE  Kept
    BY <2>1 DEF CreateWatch
  <2>2. ASSUME NEW w \in WatchIds, DeleteWatch(w)
        PROVE  Kept
    BY <2>2 DEF DeleteWatch
  <2>3. ASSUME NEW x \in watches, NEW t \in Times, NEW o \in Owners,
               NEW l \in Leases, ClaimDueWatch(x, t, o, l)
        PROVE  Kept
    BY <2>3 DEF ClaimDueWatch
  <2>4. ASSUME NEW w \in WatchIds, NEW r \in RunIds, NEW o \in Owners,
               NEW t \in Times, StartWatchRun(w, r, o, t)
        PROVE  Kept
    BY <2>4 DEF StartWatchRun
  <2>5. ASSUME NEW w \in WatchIds, NEW r \in RunIds, NEW o \in Owners,
               NEW t \in Times, NEW seen \in SUBSET RecordIds,
               NEW s \in Outcomes, NEW c \in Configs,
               CompleteWatchRun(w, r, o, t, seen, s, c)
        PROVE  Kept
    <3>1. FinishRun(w, r, s) /\ RunningRun(w, r, o) # {}
      BY <2>5 DEF CompleteWatchRun
    <3>2. \A x \in runs : x.watch = w /\ x.run = r => x.status = "running"
      BY <3>1 DEF RunningRun, RunOf, OutboxInv, KeysUnique
    <3>3. \A x \in runs : x.status # "running" => x \in runs'
      BY <3>1, <3>2 DEF FinishRun
    <3>4. deliveries \subseteq deliveries'
      BY <2>5 DEF CompleteWatchRun, InsertRunDelivery
    <3> QED
      BY <3>3, <3>4
  <2>6. ASSUME NEW d \in deliveries, NEW t \in Times, NEW o \in Owners,
               NEW l \in Leases, ClaimPendingDelivery(d, t, o, l)
        PROVE  Kept
    <3>1. d.status \notin Outcomes
      BY <2>6 DEF ClaimPendingDelivery, SelectDelivery, ClaimableDeliveries,
                  Claimable, Outcomes
    <3> QED
      BY <2>6, <3>1 DEF ClaimPendingDelivery, Replace
  <2>7. ASSUME NEW w \in WatchIds, NEW r \in RunIds, NEW o \in Owners,
               NEW t \in Times, NEW ok \in BOOLEAN,
               CompleteDelivery(w, r, o, t, ok)
        PROVE  Kept
    <3>1. PICK d \in DeliveryUnderLease(w, r, o, t) :
            /\ deliveries' = Replace(deliveries, d, CompletedRow(d, t, ok))
            /\ runs' = runs
      BY <2>7 DEF CompleteDelivery
    <3>2. d.status \notin Outcomes
      BY DEF DeliveryUnderLease, Outcomes
    <3> QED
      BY <3>1, <3>2 DEF Replace
  <2> HIDE DEF Kept
  <2>8. CASE WatchStep
    BY <2>1, <2>2, <2>3, <2>8 DEF WatchStep
  <2>9. CASE RunStep
    BY <2>4, <2>5, <2>9 DEF RunStep
  <2>10. CASE DeliveryStep
    BY <2>6, <2>7, <2>10 DEF DeliveryStep
  <2> QED
    BY <2>8, <2>9, <2>10 DEF Next
<1> QED
  BY <1>1, OutboxAlways, TypeCorrect, PTL DEF Spec, Final
=============================================================================
