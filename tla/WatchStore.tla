----------------------------- MODULE WatchStore -----------------------------
(***************************************************************************)
(* The persistent store behind watches and webhook notifications: the      *)
(* tables watches, watch_runs, records, watch_records and deliveries of    *)
(* one tenant, and every operation of the Store trait that changes them,   *)
(* as the SQLite backend implements it (comsat-store-sqlite).              *)
(*                                                                         *)
(* A table is a set of rows and an operation is one atomic step, because   *)
(* each is one statement or one transaction.  Every statement of the code  *)
(* is keyed by tenant_id, so one tenant stands for all of them.  The       *)
(* columns that no guard reads (query, cursor, record text, error text,    *)
(* started and finished times of a run) are left out.                      *)
(*                                                                         *)
(* Spec is the contract of the store towards ANY client: an operation may  *)
(* be called at any moment, by any lease owner, with any time the client   *)
(* cares to pass (the store never reads a clock of its own).               *)
(***************************************************************************)
EXTENDS Naturals, FiniteSets

CONSTANTS
  WatchIds,      \* watch ids; numbers, since the code orders rows by them
  RunIds,        \* run ids; also the idempotency keys, which determine them
  RecordIds,     \* (source, record) pairs a search can return
  Owners,        \* lease owners: one per worker, or one per claim
  Targets,       \* webhook destinations a delivery can be queued for
  Configs,       \* what a completion may pass: a target, or NULL for none
  Intervals,     \* watch intervals in seconds
  Leases,        \* lease durations in seconds
  Times,         \* epoch seconds a client may pass
  MaxAttempts,   \* MAX_DELIVERY_ATTEMPTS
  RetrySeconds,  \* DELIVERY_RETRY_SECONDS
  NULL           \* SQL NULL

ASSUME StoreAssumption ==
  /\ WatchIds \subseteq Nat
  /\ Configs \subseteq Targets \cup {NULL}
  /\ Intervals \subseteq Nat \ {0}
  /\ Leases \subseteq Nat \ {0}
  /\ Times \subseteq Nat
  /\ MaxAttempts \in Nat \ {0}
  /\ RetrySeconds \in Nat \ {0}
  /\ NULL \notin Nat
  /\ NULL \notin Owners
  /\ NULL \notin Targets

VARIABLES
  watches,       \* the watches table
  runs,          \* the watch_runs table
  records,       \* the records table, shared by all watches of the tenant
  watchRecords,  \* the watch_records table: what each watch has observed
  deliveries     \* the deliveries table: the webhook outbox

storeVars == <<watches, runs, records, watchRecords, deliveries>>

-----------------------------------------------------------------------------
(* Rows *)

Outcomes == {"succeeded", "failed"}
RunStatus == {"running"} \cup Outcomes
DeliveryStatus == {"pending", "delivering", "succeeded", "failed"}

WatchRow ==
  [id : WatchIds, interval : Intervals, created : Nat, nextDue : Nat,
   owner : Owners \cup {NULL}, expires : Nat \cup {NULL}]

RunRow ==
  [watch : WatchIds, run : RunIds, owner : Owners, status : RunStatus]

RecordRow == [record : RecordIds, first : Nat, last : Nat]

WatchRecordRow ==
  [watch : WatchIds, record : RecordIds, first : Nat, last : Nat]

\* A delivery is keyed by its watch and its run: delivery_id is a hash of the
\* two, taken to be free of collisions.
DeliveryRow ==
  [watch : WatchIds, run : RunIds, target : Targets,
   payload : SUBSET RecordIds, status : DeliveryStatus, created : Nat,
   nextAttempt : Nat, attempts : Nat,
   owner : Owners \cup {NULL}, expires : Nat \cup {NULL}]

Replace(table, old, new) == (table \ {old}) \cup {new}

-----------------------------------------------------------------------------
(* Conditions of the SQL statements *)

\* Mutant of LeaseLapsed: an expired lease is never taken over.
MutLeaseForever(row, now) == row.expires = NULL

LeaseLapsed(row, now) == row.expires = NULL \/ row.expires <= now

LeaseHeld(row, owner, now) ==
  /\ row.owner = owner
  /\ row.expires # NULL
  /\ row.expires > now

\* ORDER BY next_due, created_at, watch_id.
WatchBefore(x, y) ==
  \/ x.nextDue < y.nextDue
  \/ /\ x.nextDue = y.nextDue
     /\ \/ x.created < y.created
        \/ x.created = y.created /\ x.id <= y.id

DueWatches(now) == {x \in watches : x.nextDue <= now /\ LeaseLapsed(x, now)}

\* The row DUE_WATCH_SQL returns, as a set: empty when nothing is due.
SelectDueWatch(now) ==
  {x \in DueWatches(now) : \A y \in DueWatches(now) : WatchBefore(x, y)}

\* Mutant of WatchUnderLease: the completion is not fenced by the lease.
MutWatchUnfenced(w, owner, now) == {x \in watches : x.id = w}

WatchUnderLease(w, owner, now) ==
  {x \in watches : x.id = w /\ LeaseHeld(x, owner, now)}

RunOf(w, run) == {x \in runs : x.watch = w /\ x.run = run}

\* Mutant of RunningRun: a finished run may be completed again.
MutAnyRun(w, run, owner) == {x \in RunOf(w, run) : x.owner = owner}

RunningRun(w, run, owner) ==
  {x \in RunOf(w, run) : x.owner = owner /\ x.status = "running"}

DeliveryOf(w, run) == {d \in deliveries : d.watch = w /\ d.run = run}

\* Mutant of Claimable: an attempt that was begun is never taken over.
MutPendingOnly(d, now) == d.status = "pending" /\ d.nextAttempt <= now

Claimable(d, now) ==
  \/ d.status = "pending" /\ d.nextAttempt <= now
  \/ d.status = "delivering" /\ d.expires <= now

ClaimableDeliveries(now) == {d \in deliveries : Claimable(d, now)}

\* ORDER BY next_attempt, created_at, delivery_id: the order of the hashed
\* ids is arbitrary, so ties are all candidates.
DeliveryBefore(x, y) ==
  \/ x.nextAttempt < y.nextAttempt
  \/ x.nextAttempt = y.nextAttempt /\ x.created <= y.created

SelectDelivery(now) ==
  {d \in ClaimableDeliveries(now) :
     \A e \in ClaimableDeliveries(now) : DeliveryBefore(d, e)}

\* The row COMPLETE_DELIVERY_SQL updates.
DeliveryUnderLease(w, run, owner, now) ==
  {d \in DeliveryOf(w, run) :
     d.status = "delivering" /\ LeaseHeld(d, owner, now)}

\* The records of a completed search this watch had not observed before.
NewRecords(w, seen) ==
  {r \in seen : \A x \in watchRecords : ~(x.watch = w /\ x.record = r)}

-----------------------------------------------------------------------------
(* Operations.  The guard of each is the condition under which the code     *)
(* does not return a Conflict; a refused call changes nothing.              *)

Init ==
  /\ watches = {}
  /\ runs = {}
  /\ records = {}
  /\ watchRecords = {}
  /\ deliveries = {}

\* The row into_watch builds: due at once, no lease.
NewWatch(w, interval, now) ==
  [id |-> w, interval |-> interval, created |-> now, nextDue |-> now,
   owner |-> NULL, expires |-> NULL]

CreateWatch(w, interval, now) ==
  /\ \A x \in watches : x.id # w
  /\ watches' = watches \cup {NewWatch(w, interval, now)}
  /\ UNCHANGED <<runs, records, watchRecords, deliveries>>

\* Mutant of DeleteWatch: the delete does not cascade.
MutDeleteOnly(w) ==
  /\ watches' = {x \in watches : x.id # w}
  /\ UNCHANGED <<runs, records, watchRecords, deliveries>>

\* ON DELETE CASCADE takes the runs, observations and deliveries of the watch.
DeleteWatch(w) ==
  /\ watches' = {x \in watches : x.id # w}
  /\ runs' = {x \in runs : x.watch # w}
  /\ watchRecords' = {x \in watchRecords : x.watch # w}
  /\ deliveries' = {d \in deliveries : d.watch # w}
  /\ UNCHANGED records

\* One transaction: the earliest due watch x is leased until now + lease.
ClaimDueWatch(x, now, owner, lease) ==
  /\ x \in SelectDueWatch(now)
  /\ watches' =
       Replace(watches, x, [x EXCEPT !.owner = owner, !.expires = now + lease])
  /\ UNCHANGED <<runs, records, watchRecords, deliveries>>

\* INSERT ... WHERE the lease is held ... ON CONFLICT DO NOTHING, then the run
\* is fetched by its idempotency key: it exists already or has been inserted.
StartWatchRun(w, run, owner, now) ==
  /\ \/ RunOf(w, run) # {}
     \/ WatchUnderLease(w, owner, now) # {}
  /\ runs' = IF RunOf(w, run) # {} THEN runs
             ELSE runs \cup {[watch |-> w, run |-> run, owner |-> owner,
                              status |-> "running"]}
  /\ UNCHANGED <<watches, records, watchRecords, deliveries>>

UpsertRecords(seen, now) ==
  records' =
    {IF x.record \in seen THEN [x EXCEPT !.last = now] ELSE x : x \in records}
    \cup {[record |-> r, first |-> now, last |-> now] :
            r \in {s \in seen : \A x \in records : x.record # s}}

\* Mutant of UpsertWatchRecords: an upsert that replaces the row.
MutUpsertReplaces(w, seen, now) ==
  watchRecords' =
    {x \in watchRecords : ~(x.watch = w /\ x.record \in seen)}
    \cup {[watch |-> w, record |-> r, first |-> now, last |-> now] : r \in seen}

UpsertWatchRecords(w, seen, now) ==
  watchRecords' =
    {IF x.watch = w /\ x.record \in seen THEN [x EXCEPT !.last = now] ELSE x :
       x \in watchRecords}
    \cup {[watch |-> w, record |-> r, first |-> now, last |-> now] :
            r \in NewRecords(w, seen)}

\* The outbox row of one run, holding its new records.
NewDelivery(w, run, target, fresh, now) ==
  [watch |-> w, run |-> run, target |-> target, payload |-> fresh,
   status |-> "pending", created |-> now, nextAttempt |-> now,
   attempts |-> 0, owner |-> NULL, expires |-> NULL]

\* Mutant of InsertRunDelivery: the batch holds all records of the run.
MutQueueAll(w, run, target, seen, now) ==
  deliveries' =
    IF target = NULL \/ NewRecords(w, seen) = {} \/ DeliveryOf(w, run) # {}
    THEN deliveries
    ELSE deliveries \cup {NewDelivery(w, run, target, seen, now)}

\* Mutant of InsertRunDelivery: one delivery per watch instead of per run.
MutQueueOnce(w, run, target, seen, now) ==
  deliveries' =
    IF \/ target = NULL \/ NewRecords(w, seen) = {}
       \/ \E d \in deliveries : d.watch = w
    THEN deliveries
    ELSE deliveries \cup {NewDelivery(w, run, target, NewRecords(w, seen), now)}

\* Nothing is queued without a configured target or without new records.
InsertRunDelivery(w, run, target, seen, now) ==
  deliveries' =
    IF target = NULL \/ NewRecords(w, seen) = {} \/ DeliveryOf(w, run) # {}
    THEN deliveries
    ELSE deliveries \cup {NewDelivery(w, run, target, NewRecords(w, seen), now)}

FinishRun(w, run, status) ==
  runs' = {IF x.watch = w /\ x.run = run THEN [x EXCEPT !.status = status]
           ELSE x : x \in runs}

FinishWatch(x, now) ==
  watches' =
    Replace(watches, x, [x EXCEPT !.nextDue = now + x.interval,
                                  !.owner = NULL, !.expires = NULL])

\* The completion transaction: refused unless the caller still holds the lease
\* and the run is still running under it.
CompleteWatchRun(w, run, owner, now, seen, status, target) ==
  \E x \in WatchUnderLease(w, owner, now) :
    /\ RunningRun(w, run, owner) # {}
    /\ UpsertRecords(seen, now)
    /\ UpsertWatchRecords(w, seen, now)
    /\ InsertRunDelivery(w, run, target, seen, now)
    /\ FinishRun(w, run, status)
    /\ FinishWatch(x, now)

\* Mutant of ClaimedRow: taking over a lapsed attempt is not counted.
MutUncounted(d, now, owner, lease) ==
  [d EXCEPT !.status = "delivering",
            !.attempts = IF d.status = "pending" THEN @ + 1 ELSE @,
            !.owner = owner, !.expires = now + lease]

ClaimedRow(d, now, owner, lease) ==
  [d EXCEPT !.status = "delivering", !.attempts = d.attempts + 1,
            !.owner = owner, !.expires = now + lease]

ClaimPendingDelivery(d, now, owner, lease) ==
  /\ d \in SelectDelivery(now)
  /\ deliveries' = Replace(deliveries, d, ClaimedRow(d, now, owner, lease))
  /\ UNCHANGED <<watches, runs, records, watchRecords>>

\* Mutant of CompletedStatus: off by one in the retry limit.
MutOneMore(d, success) ==
  IF success THEN "succeeded"
  ELSE IF d.attempts > MaxAttempts THEN "failed" ELSE "pending"

CompletedStatus(d, success) ==
  IF success THEN "succeeded"
  ELSE IF d.attempts >= MaxAttempts THEN "failed" ELSE "pending"

CompletedRow(d, now, success) ==
  [d EXCEPT !.status = CompletedStatus(d, success),
            !.nextAttempt = IF success THEN now ELSE now + RetrySeconds,
            !.owner = NULL, !.expires = NULL]

CompleteDelivery(w, run, owner, now, success) ==
  \E d \in DeliveryUnderLease(w, run, owner, now) :
    /\ deliveries' = Replace(deliveries, d, CompletedRow(d, now, success))
    /\ UNCHANGED <<watches, runs, records, watchRecords>>

-----------------------------------------------------------------------------
(* Any client *)

WatchStep ==
  \/ \E w \in WatchIds, i \in Intervals, t \in Times : CreateWatch(w, i, t)
  \/ \E w \in WatchIds : DeleteWatch(w)
  \/ \E x \in watches, t \in Times, o \in Owners, l \in Leases :
       ClaimDueWatch(x, t, o, l)

RunStep ==
  \/ \E w \in WatchIds, r \in RunIds, o \in Owners, t \in Times :
       StartWatchRun(w, r, o, t)
  \/ \E w \in WatchIds, r \in RunIds, o \in Owners, t \in Times,
        seen \in SUBSET RecordIds, s \in Outcomes,
        c \in Configs : CompleteWatchRun(w, r, o, t, seen, s, c)

DeliveryStep ==
  \/ \E d \in deliveries, t \in Times, o \in Owners, l \in Leases :
       ClaimPendingDelivery(d, t, o, l)
  \/ \E w \in WatchIds, r \in RunIds, o \in Owners, t \in Times,
        success \in BOOLEAN : CompleteDelivery(w, r, o, t, success)

Next == WatchStep \/ RunStep \/ DeliveryStep

Spec == Init /\ [][Next]_storeVars

-----------------------------------------------------------------------------
(* Properties *)

\* Every table holds rows of its schema.
TypeOK ==
  /\ watches \subseteq WatchRow
  /\ runs \subseteq RunRow
  /\ records \subseteq RecordRow
  /\ watchRecords \subseteq WatchRecordRow
  /\ deliveries \subseteq DeliveryRow

\* No two rows share a primary key although upserts, claims and completions
\* rewrite rows: an UPDATE addressed by key changes exactly one row.
KeysUnique ==
  /\ \A x, y \in watches : x.id = y.id => x = y
  /\ \A x, y \in runs : x.watch = y.watch /\ x.run = y.run => x = y
  /\ \A x, y \in records : x.record = y.record => x = y
  /\ \A x, y \in watchRecords :
       x.watch = y.watch /\ x.record = y.record => x = y
  /\ \A d, e \in deliveries : d.watch = e.watch /\ d.run = e.run => d = e

\* Deleting a watch while a worker runs it, or while a webhook of it is in
\* flight, leaves no orphan behind: a late start, completion or delivery result
\* never brings back a row of the deleted watch.
NoOrphans ==
  /\ \A x \in runs : \E y \in watches : y.id = x.watch
  /\ \A x \in watchRecords : /\ \E y \in watches : y.id = x.watch
                             /\ \E y \in records : y.record = x.record
  /\ \A d \in deliveries : \E y \in watches : y.id = d.watch

\* A queued webhook belongs to a run that has committed: no delivery is visible
\* before, or without, the completion that observed its records.
DeliveryOfFinishedRun ==
  \A d \in deliveries :
    \E x \in RunOf(d.watch, d.run) : x.status \in Outcomes

\* A record is new to a watch once: the batches queued for one watch are
\* disjoint, and hold only records that the watch has in its history.
BatchesDisjoint ==
  \A d \in deliveries :
    /\ d.payload # {}
    /\ \A r \in d.payload :
         \E x \in watchRecords : x.watch = d.watch /\ x.record = r
    /\ \A e \in deliveries :
         e.watch = d.watch /\ e.run # d.run => d.payload \cap e.payload = {}

\* When every completion has a webhook configured, no observation is lost on
\* the way to the outbox: each record in a watch's history is in some batch.
OutboxComplete ==
  NULL \notin Configs =>
    \A x \in watchRecords :
      \E d \in deliveries : d.watch = x.watch /\ x.record \in d.payload

\* A delivery waiting for a retry still has an attempt left, one given up on
\* has used all of them, and one in flight or delivered was counted, whatever
\* crashes and lease expiries came between.
RetryBudget ==
  \A d \in deliveries :
    /\ d.status = "pending" => d.attempts < MaxAttempts
    /\ d.status = "failed" => d.attempts >= MaxAttempts
    /\ d.status \in {"delivering", "succeeded"} => d.attempts > 0

\* A lease column pair is set exactly while somebody may be working on the row,
\* so that no row is stuck in delivering without a deadline to reclaim it.
LeaseColumns ==
  /\ \A x \in watches : x.owner = NULL <=> x.expires = NULL
  /\ \A d \in deliveries :
       /\ d.owner = NULL <=> d.expires = NULL
       /\ d.status = "delivering" <=> d.owner # NULL

\* A finished run and a settled delivery are final: a late, repeated or
\* obsolete completion cannot rewrite them; only deleting the watch removes
\* them.
Final ==
  [][/\ \A x \in runs :
          x.status # "running" =>
            x \in runs' \/ \A y \in watches' : y.id # x.watch
     /\ \A d \in deliveries :
          d.status \in Outcomes =>
            d \in deliveries' \/ \A y \in watches' : y.id # d.watch
    ]_storeVars

=============================================================================
