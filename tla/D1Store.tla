------------------------------ MODULE D1Store ------------------------------
(***************************************************************************)
(* The store of the managed worker (comsat-cloud d1_store.rs, d1_sql.rs).  *)
(* Its tables are those of WatchStore.  Most operations are one statement  *)
(* and the same as there; a completion is not: D1 has no interactive       *)
(* transaction, so it is a fixed batch of seven or eight statements, sent  *)
(* together and committed together, each of which repeats the fence (the   *)
(* lease is held, the run is running) in its own WHERE clause.  No         *)
(* statement can make a later one stop; the gate, the first statement,     *)
(* only tells the client afterwards whether the batch did anything.        *)
(*                                                                         *)
(* The clients are those of the worker: every claim of a watch uses a lease*)
(* owner of its own (lease_owner in runtime_watch.rs draws a nonce).       *)
(***************************************************************************)
EXTENDS WatchStore

VARIABLES
  finished,    \* the finished_at column of watch_runs: <<watch, run, time>>
  usedOwners   \* lease owners drawn so far

d1Vars == <<watches, runs, records, watchRecords, deliveries,
            finished, usedOwners>>

-----------------------------------------------------------------------------
(* Statements.  t is the content of all tables, q the completion request.  *)

Tables ==
  [watches |-> watches, runs |-> runs, records |-> records,
   watchRecords |-> watchRecords, deliveries |-> deliveries,
   finished |-> finished]

Request ==
  [watch : WatchIds, run : RunIds, owner : Owners, now : Times,
   seen : SUBSET RecordIds, status : Outcomes, target : Configs]

HeldBy(x, q) == x.id = q.watch /\ LeaseHeld(x, q.owner, q.now)
RunFor(r, q) == r.watch = q.watch /\ r.run = q.run /\ r.owner = q.owner

\* The EXISTS clause shared by the record statements, and COMPLETE_GATE_SQL.
Fence(t, q) ==
  \E x \in t.watches, r \in t.runs :
    HeldBy(x, q) /\ RunFor(r, q) /\ r.status = "running"

InsertRecords(t, q) ==
  [t EXCEPT !.records = IF ~Fence(t, q) THEN @ ELSE @ \cup
     {[record |-> s, first |-> q.now, last |-> q.now] :
        s \in {i \in q.seen : \A x \in t.records : x.record # i}}]

UpdateRecords(t, q) ==
  [t EXCEPT !.records = IF ~Fence(t, q) THEN @ ELSE
     {IF x.record \in q.seen THEN [x EXCEPT !.last = q.now] ELSE x : x \in @}]

Unseen(t, q) ==
  {i \in q.seen :
     \A x \in t.watchRecords : ~(x.watch = q.watch /\ x.record = i)}

\* Part of the batch only if a webhook is configured.  HAVING COUNT(*) > 0,
\* and INSERT OR IGNORE.
InsertDelivery(t, q) ==
  [t EXCEPT !.deliveries =
     IF \/ q.target = NULL \/ ~Fence(t, q) \/ Unseen(t, q) = {}
        \/ \E d \in @ : d.watch = q.watch /\ d.run = q.run
     THEN @
     ELSE @ \cup {NewDelivery(q.watch, q.run, q.target, Unseen(t, q), q.now)}]

InsertWatchRecords(t, q) ==
  [t EXCEPT !.watchRecords = IF ~Fence(t, q) THEN @ ELSE @ \cup
     {[watch |-> q.watch, record |-> i, first |-> q.now, last |-> q.now] :
        i \in Unseen(t, q)}]

UpdateWatchRecords(t, q) ==
  [t EXCEPT !.watchRecords = IF ~Fence(t, q) THEN @ ELSE
     {IF x.watch = q.watch /\ x.record \in q.seen
      THEN [x EXCEPT !.last = q.now] ELSE x : x \in @}]

\* The WHERE clause of COMPLETE_RUN_SQL.
CompletesRun(t, r, q) ==
  /\ RunFor(r, q)
  /\ r.status = "running"
  /\ \E x \in t.watches : HeldBy(x, q)

FinishRunRow(t, q) ==
  [t EXCEPT
     !.runs = {IF CompletesRun(t, r, q) THEN [r EXCEPT !.status = q.status]
               ELSE r : r \in @},
     !.finished = @ \cup {<<r.watch, r.run, q.now>> :
                            r \in {s \in t.runs : CompletesRun(t, s, q)}}]

\* The WHERE clause of COMPLETE_WATCH_SQL: by now the run is finished, so the
\* fence is that it finished at this very time.
CompletesWatch(t, x, q) ==
  /\ HeldBy(x, q)
  /\ \E r \in t.runs :
       /\ RunFor(r, q)
       /\ r.status \in Outcomes
       /\ <<r.watch, r.run, q.now>> \in t.finished

FinishWatchRow(t, q) ==
  [t EXCEPT !.watches =
     {IF CompletesWatch(t, x, q)
      THEN [x EXCEPT !.nextDue = q.now + x.interval, !.owner = NULL,
                     !.expires = NULL]
      ELSE x : x \in @}]

\* Mutant of Observations: the outbox row comes after the observations.
MutOutboxLast(t, q) ==
  InsertDelivery(
    UpdateWatchRecords(InsertWatchRecords(UpdateRecords(InsertRecords(t, q), q), q), q), q)

\* record_statements, in the order of the batch.
Observations(t, q) ==
  LET a == UpdateRecords(InsertRecords(t, q), q)
      b == InsertDelivery(a, q)
  IN  UpdateWatchRecords(InsertWatchRecords(b, q), q)

\* The whole batch: record_statements, then finish_statements.
Batch(t, q) == FinishWatchRow(FinishRunRow(Observations(t, q), q), q)

-----------------------------------------------------------------------------
(* Operations *)

D1Init ==
  /\ Init
  /\ finished = {}
  /\ usedOwners = {}

D1Create ==
  /\ \E w \in WatchIds, i \in Intervals, t \in Times : CreateWatch(w, i, t)
  /\ UNCHANGED <<finished, usedOwners>>

D1Delete ==
  /\ \E w \in WatchIds :
       /\ DeleteWatch(w)
       /\ finished' = {f \in finished : f[1] # w}
  /\ UNCHANGED usedOwners

\* One UPDATE ... RETURNING.
D1Claim ==
  /\ \E o \in Owners \ usedOwners, x \in watches, t \in Times, l \in Leases :
       /\ ClaimDueWatch(x, t, o, l)
       /\ usedOwners' = usedOwners \cup {o}
  /\ UNCHANGED finished

D1Start ==
  /\ \E w \in WatchIds, r \in RunIds, o \in Owners, t \in Times :
       StartWatchRun(w, r, o, t)
  /\ UNCHANGED <<finished, usedOwners>>

\* A batch runs whatever the gate says.
D1Complete ==
  /\ \E q \in Request :
       LET t == Batch(Tables, q)
       IN  /\ watches' = t.watches
           /\ runs' = t.runs
           /\ records' = t.records
           /\ watchRecords' = t.watchRecords
           /\ deliveries' = t.deliveries
           /\ finished' = t.finished
  /\ UNCHANGED usedOwners

D1Delivery ==
  /\ DeliveryStep
  /\ UNCHANGED <<finished, usedOwners>>

D1Next ==
  \/ D1Create \/ D1Delete \/ D1Claim \/ D1Start \/ D1Complete \/ D1Delivery

D1Spec == D1Init /\ [][D1Next]_d1Vars

-----------------------------------------------------------------------------
(* Properties *)

\* A batch of separately fenced statements does what the transaction of the
\* SQLite store does, or nothing: D1 implements the store's contract.
D1Contract == Spec

=============================================================================
