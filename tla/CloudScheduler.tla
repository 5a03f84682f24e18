--------------------------- MODULE CloudScheduler ---------------------------
(***************************************************************************)
(* The managed worker (comsat-cloud worker_entry.rs, runtime_watch.rs,     *)
(* cloud_notifications.rs) for one tenant.  A cron invocation claims due   *)
(* watches, enqueues a message for each and attempts one webhook delivery; *)
(* a queue consumer runs the watch of a message and then attempts one      *)
(* delivery.  Both talk to D1 over the network.                            *)
(*                                                                         *)
(* The queue delivers at least once: a message stays until it is           *)
(* acknowledged, may be handed to two consumers, comes back after a crash, *)
(* and is given up by the platform after some retries.  A store call       *)
(* commits, is refused, or fails with a Backend error, in which case it    *)
(* may have committed all the same.  Invocations end at any point.         *)
(***************************************************************************)
EXTENDS WatchStore

CONSTANTS
  Crons,          \* concurrent cron invocations
  Consumers,      \* concurrent queue invocations
  MaxClock,       \* bound on time
  LeaseSeconds,   \* watch_lease_seconds
  DeliveryLease,  \* DELIVERY_LEASE_SECONDS
  ClaimLimit,     \* claims per cron invocation
  Oversize,       \* whether records may exceed MAX_RECORDS_JSON_BYTES
  FaultTimes      \* when calls fail, messages repeat and invocations die

ASSUME CloudAssumption ==
  /\ Crons \cap Consumers = {}
  /\ MaxClock \in Nat
  /\ Times = 0..MaxClock
  /\ LeaseSeconds \in Leases
  /\ DeliveryLease \in Leases
  /\ ClaimLimit \in Nat \ {0}
  /\ Owners \subseteq RunIds
  /\ Oversize \in BOOLEAN
  /\ FaultTimes \subseteq Times

VARIABLES
  clock,    \* epoch seconds
  queue,    \* WatchClaimMessages not acknowledged
  actor,    \* what each invocation is doing
  used,     \* lease owners drawn: each claim draws a nonce of its own
  sent,     \* history: the webhook requests that left, numbered
  detached  \* history: invocations whose delivery was deleted under them

cloudVars == <<watches, runs, records, watchRecords, deliveries,
               clock, queue, actor, used, sent, detached>>

history == <<sent, detached>>

-----------------------------------------------------------------------------
(* Invocations *)

Actors == Crons \cup Consumers

Message == [watch : WatchIds, owner : Owners]

\* A cron goes idle, claim, enqueue, a consumer start, load, search, complete; both
\* go on with deliver, claimDelivery, send, settle.
Idle ==
  [pc |-> "idle", now |-> 0, config |-> NULL, count |-> 0, watch |-> NULL,
   owner |-> NULL, seen |-> {}, ok |-> FALSE, dwatch |-> NULL, drun |-> NULL,
   token |-> NULL]

At(a, pc) == actor[a].pc = pc
Goto(a, pc) == actor' = [actor EXCEPT ![a].pc = pc]
End(a) == actor' = [actor EXCEPT ![a] = Idle]
MessageOf(a) == [watch |-> actor[a].watch, owner |-> actor[a].owner]
Faulty == clock \in FaultTimes

CloudInit ==
  /\ Init
  /\ clock = 0
  /\ queue = {}
  /\ actor = [a \in Actors |-> Idle]
  /\ used = {}
  /\ sent = {}
  /\ detached = {}

-----------------------------------------------------------------------------
(* The queue *)

\* A handler that returns acknowledges its message; a cron has none.  Delivery
\* is at least once: the message may come again all the same.
Ack(a) ==
  /\ End(a)
  /\ \/ queue' = queue \ {MessageOf(a)}
     \/ Faulty /\ UNCHANGED queue

\* message.retry(): it is delivered again, or dropped when the platform has
\* retried often enough.
Retry(a) ==
  /\ End(a)
  /\ queue' \in {queue, queue \ {MessageOf(a)}}

\* Mutant of OnConflict: every error asks for a retry.
MutRetryConflict(a) == End(a) /\ UNCHANGED queue

\* should_retry: only a Backend error is retried, a Conflict is acknowledged.
OnConflict(a) == Ack(a)

-----------------------------------------------------------------------------
(* scheduled: one cron invocation *)

CronStarts(k) ==
  /\ At(k, "idle")
  /\ \E c \in Configs :
       actor' = [actor EXCEPT ![k].pc = "claim", ![k].now = clock,
                              ![k].config = c]
  /\ UNCHANGED <<storeVars, clock, queue, used, history>>

\* enqueue_due_watches claims with the time the invocation started at.
CronClaims(k) ==
  /\ At(k, "claim")
  /\ actor[k].count < ClaimLimit
  /\ \E x \in watches, o \in Owners \ used :
       /\ ClaimDueWatch(x, actor[k].now, o, LeaseSeconds)
       /\ used' = used \cup {o}
       /\ \/ actor' = [actor EXCEPT ![k].pc = "enqueue", ![k].watch = x.id,
                                    ![k].owner = o]
          \/ Faulty /\ End(k)
  /\ UNCHANGED <<clock, queue, history>>

CronClaimsDone(k) ==
  /\ At(k, "claim")
  /\ actor[k].count = ClaimLimit \/ SelectDueWatch(actor[k].now) = {}
  /\ Goto(k, "deliver")
  /\ UNCHANGED <<storeVars, clock, queue, used, history>>

CronEnqueues(k) ==
  /\ At(k, "enqueue")
  /\ queue' = queue \cup {MessageOf(k)}
  /\ actor' = [actor EXCEPT ![k].pc = "claim", ![k].count = @ + 1,
                            ![k].watch = NULL, ![k].owner = NULL]
  /\ UNCHANGED <<storeVars, clock, used, history>>

\* An error ends the invocation, deliveries included.
EnqueueFails(k) ==
  /\ Faulty
  /\ At(k, "enqueue")
  /\ queue' \in {queue, queue \cup {MessageOf(k)}}
  /\ End(k)
  /\ UNCHANGED <<storeVars, clock, used, history>>

-----------------------------------------------------------------------------
(* queue: one message, process_watch_message *)

Receive(c) ==
  /\ At(c, "idle")
  /\ \E m \in queue, h \in Configs :
       actor' = [actor EXCEPT ![c].pc = "start", ![c].now = clock,
                              ![c].config = h, ![c].watch = m.watch,
                              ![c].owner = m.owner]
  /\ UNCHANGED <<storeVars, clock, queue, used, history>>

\* START_RUN_SQL inserts a run or nothing; run id and idempotency key come from
\* the lease owner.
Insert(c) ==
  /\ At(c, "start")
  /\ \/ StartWatchRun(actor[c].watch, actor[c].owner, actor[c].owner, actor[c].now)
     \/ /\ RunOf(actor[c].watch, actor[c].owner) = {}
        /\ WatchUnderLease(actor[c].watch, actor[c].owner, actor[c].now) = {}
        /\ UNCHANGED storeVars
  /\ \/ Goto(c, "load") /\ UNCHANGED queue
     \/ Faulty /\ Retry(c)
  /\ UNCHANGED <<clock, used, history>>

\* LOAD_RUN_SQL: no row is a Conflict, a finished run needs no search.
Load(c) ==
  /\ At(c, "load")
  /\ LET row == RunOf(actor[c].watch, actor[c].owner)
     IN  \/ row = {} /\ OnConflict(c)
         \/ \E r \in row :
              /\ Goto(c, IF r.status = "running" THEN "search" ELSE "deliver")
              /\ UNCHANGED queue
  /\ UNCHANGED <<storeVars, clock, used, history>>

Searches(c) ==
  /\ At(c, "search")
  /\ \E seen \in SUBSET RecordIds, ok \in BOOLEAN :
       actor' = [actor EXCEPT ![c].pc = "complete", ![c].seen = seen,
                              ![c].ok = ok, ![c].now = clock]
  /\ UNCHANGED <<storeVars, clock, queue, used, history>>

Completes(c) ==
  /\ At(c, "complete")
  /\ CompleteWatchRun(actor[c].watch, actor[c].owner, actor[c].owner,
                      actor[c].now, actor[c].seen,
                      IF actor[c].ok THEN "succeeded" ELSE "failed",
                      actor[c].config)
  /\ \/ Goto(c, "deliver") /\ UNCHANGED queue
     \/ Faulty /\ Retry(c)
  /\ UNCHANGED <<clock, used, history>>

\* The store refuses with a Conflict, or with a Validation error: neither is
\* retried.
CompletionRefused(c) ==
  /\ At(c, "complete")
  /\ \/ Oversize /\ actor[c].seen # {}
     \/ WatchUnderLease(actor[c].watch, actor[c].owner, actor[c].now) = {}
     \/ RunningRun(actor[c].watch, actor[c].owner, actor[c].owner) = {}
  /\ OnConflict(c)
  /\ UNCHANGED <<storeVars, clock, used, history>>

-----------------------------------------------------------------------------
(* deliver_one, after the claims of a cron or after a watch *)

\* A consumer reads the clock again, a cron passes the time it started at.
Delivers(a) ==
  /\ At(a, "deliver")
  /\ IF actor[a].config = NULL THEN Ack(a)
     ELSE /\ actor' = [actor EXCEPT
                         ![a].pc = "claimDelivery",
                         ![a].now = IF a \in Consumers THEN clock ELSE @]
          /\ UNCHANGED queue
  /\ UNCHANGED <<storeVars, clock, used, history>>

NothingPending(a) ==
  /\ At(a, "claimDelivery")
  /\ ClaimableDeliveries(actor[a].now) = {}
  /\ Ack(a)
  /\ UNCHANGED <<storeVars, clock, used, history>>

\* Mutant of MaySend: the attempt limit is not checked before sending.
MutNoLimit(attempts, target, config) == target = config

MaySend(attempts, target, config) == attempts <= MaxAttempts /\ target = config

\* UPDATE ... RETURNING hands over the very row that was claimed.
ClaimsDelivery(a) ==
  /\ At(a, "claimDelivery")
  /\ \E d \in deliveries, o \in Owners \ used :
       /\ ClaimPendingDelivery(d, actor[a].now, o, DeliveryLease)
       /\ used' = used \cup {o}
       /\ \/ /\ actor' = [actor EXCEPT
                   ![a].pc = IF MaySend(d.attempts + 1, d.target, actor[a].config)
                             THEN "send" ELSE "settle",
                   ![a].dwatch = d.watch, ![a].drun = d.run, ![a].token = o,
                   ![a].ok = FALSE, ![a].now = clock]
             /\ UNCHANGED queue
          \/ Faulty /\ Retry(a)
  /\ UNCHANGED <<clock, history>>

SendsOf(w, run) == {s \in sent : s.watch = w /\ s.run = run}

\* One HTTP request and its result.
Sends(a) ==
  /\ At(a, "send")
  /\ sent' = IF a \in detached THEN sent ELSE sent \cup
       {[watch |-> actor[a].dwatch, run |-> actor[a].drun,
         n |-> Cardinality(SendsOf(actor[a].dwatch, actor[a].drun)) + 1]}
  /\ \E ok \in BOOLEAN :
       actor' = [actor EXCEPT ![a].pc = "settle", ![a].ok = ok, ![a].now = clock]
  /\ detached' = detached \ {a}
  /\ UNCHANGED <<storeVars, clock, queue, used>>

\* A payload over the size limit fails before any request is made.
Oversized(a) ==
  /\ At(a, "send")
  /\ actor' = [actor EXCEPT ![a].pc = "settle", ![a].now = clock]
  /\ detached' = detached \ {a}
  /\ UNCHANGED <<storeVars, clock, queue, used, sent>>

Settles(a) ==
  /\ At(a, "settle")
  /\ CompleteDelivery(actor[a].dwatch, actor[a].drun, actor[a].token,
                      actor[a].now, actor[a].ok)
  /\ Ack(a) \/ (Faulty /\ Retry(a))
  /\ UNCHANGED <<clock, used, history>>

SettleRefused(a) ==
  /\ At(a, "settle")
  /\ DeliveryUnderLease(actor[a].dwatch, actor[a].drun, actor[a].token,
                        actor[a].now) = {}
  /\ OnConflict(a)
  /\ UNCHANGED <<storeVars, clock, used, history>>

-----------------------------------------------------------------------------
(* The environment *)

\* A call fails without having committed.
CallFails(a) ==
  /\ Faulty
  /\ actor[a].pc \in {"claim", "start", "load", "complete", "claimDelivery",
                      "settle"}
  /\ Retry(a)
  /\ UNCHANGED <<storeVars, clock, used, history>>

\* An invocation ends anywhere; its message was not acknowledged.
Dies(a) ==
  /\ Faulty
  /\ ~At(a, "idle")
  /\ End(a)
  /\ detached' = detached \ {a}
  /\ UNCHANGED <<storeVars, clock, queue, used, sent>>

AddWatch ==
  /\ \E w \in WatchIds, i \in Intervals : CreateWatch(w, i, clock)
  /\ UNCHANGED <<clock, queue, actor, used, history>>

\* The history of a deleted watch goes with it.
RemoveWatch ==
  /\ \E x \in watches :
       /\ DeleteWatch(x.id)
       /\ sent' = {s \in sent : s.watch # x.id}
       /\ detached' = detached \cup
            {a \in Actors : At(a, "send") /\ actor[a].dwatch = x.id}
  /\ UNCHANGED <<clock, queue, actor, used>>

Advance ==
  /\ clock < MaxClock
  /\ clock' = clock + 1
  /\ UNCHANGED <<storeVars, queue, actor, used, history>>

DeliverSteps(a) ==
  \/ Delivers(a) \/ NothingPending(a) \/ ClaimsDelivery(a) \/ Sends(a)
  \/ Oversized(a) \/ Settles(a) \/ SettleRefused(a)

CronSteps(k) ==
  \/ CronStarts(k) \/ CronClaims(k) \/ CronClaimsDone(k) \/ CronEnqueues(k)
  \/ DeliverSteps(k)

ConsumerSteps(c) ==
  \/ Receive(c) \/ Insert(c) \/ Load(c) \/ Searches(c) \/ Completes(c)
  \/ CompletionRefused(c) \/ DeliverSteps(c)

CloudNext ==
  \/ \E k \in Crons : CronSteps(k) \/ EnqueueFails(k)
  \/ \E c \in Consumers : ConsumerSteps(c)
  \/ \E a \in Actors : CallFails(a) \/ Dies(a)
  \/ AddWatch
  \/ RemoveWatch
  \/ Advance

CloudSpec == CloudInit /\ [][CloudNext]_cloudVars

\* Cloudflare fires the cron, delivers queued messages and runs what it has
\* started; time passes.
CloudFairness ==
  /\ \A k \in Crons : WF_cloudVars(CronSteps(k))
  /\ \A c \in Consumers : WF_cloudVars(ConsumerSteps(c))
  /\ WF_cloudVars(Advance)

-----------------------------------------------------------------------------
(* Properties *)

\* A run that finishes finishes an occurrence that was due, and takes the watch
\* past it: a repeated message, or one that outlived its lease, cannot complete
\* an occurrence that another consumer has completed.  What is observed of a
\* record at a later completion is stamped later.
CloudOccurrences ==
  [][/\ \A r \in runs, s \in runs' :
          /\ r.watch = s.watch /\ r.run = s.run
          /\ r.status = "running" /\ s.status # "running"
          => \E x \in watches, y \in watches' :
               /\ x.id = r.watch /\ y.id = r.watch
               /\ x.nextDue <= clock /\ x.nextDue < y.nextDue
     /\ \A x \in watchRecords, y \in watchRecords' :
          x.watch = y.watch /\ x.record = y.record =>
            y.first = x.first /\ y.last >= x.last
    ]_cloudVars

\* Every HTTP request was counted in the row before it left, and there are never
\* more than MaxAttempts, over all invocations, lost answers and repeated
\* messages.  Unlike the SQLite store, D1 returns the very row it claimed.
CloudSendsCounted ==
  \A d \in deliveries :
    Cardinality(SendsOf(d.watch, d.run)) <= d.attempts /\
    Cardinality(SendsOf(d.watch, d.run)) <= MaxAttempts

\* Every message leaves the queue, the obsolete ones too: a job whose lease ran
\* out, whose run was finished by someone else or whose watch is gone is not
\* retried for ever.
QueueDrains == \A m \in Message : m \in queue ~> m \notin queue

\* A due watch is run, although its claim may have been lost before a message
\* was queued, the message dropped, or the consumer killed: the lease runs out
\* and a later cron claims the watch again.
CloudDueWatchRuns ==
  \A w \in WatchIds, due \in Times :
    (\E x \in watches : x.id = w /\ x.nextDue = due /\ due <= clock)
      ~> (\A x \in watches : x.id = w => x.nextDue # due)
=============================================================================
