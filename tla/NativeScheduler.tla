-------------------------- MODULE NativeScheduler --------------------------
(***************************************************************************)
(* comsat serve: several processes on one machine, each running the watch  *)
(* scheduler over one shared SQLite store.  A tick claims the earliest due *)
(* watch, starts its run, searches, completes the run, and then attempts   *)
(* one queued webhook delivery (comsat-app app.rs, serve.rs and            *)
(* notifications.rs).  Processes interleave between store calls, stall for *)
(* any time, crash and restart; users add and delete watches meanwhile.    *)
(*                                                                         *)
(* Every store call of a process is one action: the transaction commits,   *)
(* or is refused (Conflict), or fails (a Backend error, see StoreFaults).  *)
(* The time a call passes is read before it, so it may be stale.           *)
(***************************************************************************)
EXTENDS WatchStore

CONSTANTS
  Procs,          \* process slots
  Pids,           \* process ids, hence lease owners comsat-native-<pid>
  MaxClock,       \* bound on time
  LeaseSeconds,   \* the watch lease
  DeliveryLease,  \* DELIVERY_LEASE_SECONDS
  StoreFaults     \* the store calls that may fail with a Backend error

ASSUME NativeAssumption ==
  /\ MaxClock \in Nat
  /\ Times = 0..MaxClock
  /\ LeaseSeconds \in Leases
  /\ DeliveryLease \in Leases
  /\ Pids \cup (Pids \X Times) \subseteq Owners
  /\ Pids \X Times \subseteq RunIds
  /\ StoreFaults \subseteq {"claim", "start", "complete", "claimDelivery", "settle"}

VARIABLES
  clock,          \* wall-clock seconds, shared by the processes
  proc,           \* what each process is doing
  usedPids,       \* pids handed out so far: a restarted process has a new one
  sent,           \* history: the webhook requests that left, numbered
  detached        \* history: processes whose delivery was deleted under them

nativeVars == <<watches, runs, records, watchRecords, deliveries,
                clock, proc, usedPids, sent, detached>>

history == <<sent, detached>>

-----------------------------------------------------------------------------
(* Processes *)

\* A process goes down, idle, claim, start, search, complete through a run, then
\* flush, stamp, claimDelivery, send, settle through a delivery attempt.
Fresh(pc, pid, config) ==
  [pc |-> pc, pid |-> pid, config |-> config, now |-> 0, watch |-> NULL,
   run |-> NULL, seen |-> {}, ok |-> FALSE, token |-> NULL]

At(p, pc) == proc[p].pc = pc

\* Process p forgets what it was working on and goes to pc.
Forget(p, pc) ==
  proc' = [proc EXCEPT ![p] = Fresh(pc, @.pid, @.config)]

NativeInit ==
  /\ Init
  /\ clock = 0
  /\ proc = [p \in Procs |-> Fresh("down", NULL, NULL)]
  /\ usedPids = {}
  /\ sent = {}
  /\ detached = {}

-----------------------------------------------------------------------------
(* The scheduler loop of one process *)

\* tick: run_due_watch_once reads the clock for the claim and the start.
Tick(p) ==
  /\ At(p, "idle")
  /\ proc' = [proc EXCEPT ![p].pc = "claim", ![p].now = clock]
  /\ UNCHANGED <<storeVars, clock, usedPids, history>>

\* A failed step of the run is reported and the tick goes on to the hook.
CallFails(p, pc, next) ==
  /\ pc \in StoreFaults
  /\ At(p, pc)
  /\ Forget(p, next)
  /\ UNCHANGED <<storeVars, clock, usedPids, history>>

\* The run id is watch_id:lease_owner:next_due, and the idempotency key too.
ClaimWatch(p) ==
  /\ At(p, "claim")
  /\ \E x \in watches :
       /\ ClaimDueWatch(x, proc[p].now, proc[p].pid, LeaseSeconds)
       /\ proc' = [proc EXCEPT ![p].pc = "start", ![p].watch = x.id,
                               ![p].run = <<proc[p].pid, x.nextDue>>]
  /\ UNCHANGED <<clock, usedPids, history>>

NothingDue(p) ==
  /\ At(p, "claim")
  /\ SelectDueWatch(proc[p].now) = {}
  /\ Forget(p, "flush")
  /\ UNCHANGED <<storeVars, clock, usedPids, history>>

StartRun(p) ==
  /\ At(p, "start")
  /\ StartWatchRun(proc[p].watch, proc[p].run, proc[p].pid, proc[p].now)
  /\ proc' = [proc EXCEPT ![p].pc = "search"]
  /\ UNCHANGED <<clock, usedPids, history>>

StartRefused(p) ==
  /\ At(p, "start")
  /\ RunOf(proc[p].watch, proc[p].run) = {}
  /\ WatchUnderLease(proc[p].watch, proc[p].pid, proc[p].now) = {}
  /\ Forget(p, "flush")
  /\ UNCHANGED <<storeVars, clock, usedPids, history>>

\* The search returns some records and possibly diagnostics (ok = FALSE), and
\* finished_at is read.
Search(p) ==
  /\ At(p, "search")
  /\ \E seen \in SUBSET RecordIds, ok \in BOOLEAN :
       proc' = [proc EXCEPT ![p].pc = "complete", ![p].seen = seen,
                            ![p].ok = ok, ![p].now = clock]
  /\ UNCHANGED <<storeVars, clock, usedPids, history>>

RunOutcome(ok) == IF ok THEN "succeeded" ELSE "failed"

CompleteRun(p) ==
  /\ At(p, "complete")
  /\ CompleteWatchRun(proc[p].watch, proc[p].run, proc[p].pid, proc[p].now,
                      proc[p].seen, RunOutcome(proc[p].ok), proc[p].config)
  /\ Forget(p, "flush")
  /\ UNCHANGED <<clock, usedPids, history>>

CompleteRefused(p) ==
  /\ At(p, "complete")
  /\ \/ WatchUnderLease(proc[p].watch, proc[p].pid, proc[p].now) = {}
     \/ RunningRun(proc[p].watch, proc[p].run, proc[p].pid) = {}
  /\ Forget(p, "flush")
  /\ UNCHANGED <<storeVars, clock, usedPids, history>>

-----------------------------------------------------------------------------
(* The hook after each tick: one delivery attempt *)

\* deliver_pending_once: nothing to do without a webhook, else the attempt is
\* leased to lease_owner:now.
BeginFlush(p) ==
  /\ At(p, "flush")
  /\ IF proc[p].config = NULL
     THEN Forget(p, "idle")
     ELSE proc' = [proc EXCEPT ![p].pc = "stamp",
                               ![p].token = <<proc[p].pid, clock>>]
  /\ UNCHANGED <<storeVars, clock, usedPids, history>>

\* The clock is read once more for the claim itself.
StampFlush(p) ==
  /\ At(p, "stamp")
  /\ proc' = [proc EXCEPT ![p].pc = "claimDelivery", ![p].now = clock]
  /\ UNCHANGED <<storeVars, clock, usedPids, history>>

NothingPending(p) ==
  /\ At(p, "claimDelivery")
  /\ ClaimableDeliveries(proc[p].now) = {}
  /\ Forget(p, "idle")
  /\ UNCHANGED <<storeVars, clock, usedPids, history>>

\* CLAIMED_DELIVERY_SELECT_SQL: the claim is followed by a SELECT of a row that
\* is in delivery under the same owner, latest lease first.
FetchClaimed(table, owner) ==
  LET mine == {d \in table : d.status = "delivering" /\ d.owner = owner}
  IN  {d \in mine : \A e \in mine : d.expires >= e.expires}

\* What deliver_pending_webhook decides from the row it was handed.
MaySend(d, config) == d.attempts <= MaxAttempts /\ d.target = config

ClaimDelivery(p) ==
  /\ At(p, "claimDelivery")
  /\ \E d \in deliveries :
       ClaimPendingDelivery(d, proc[p].now, proc[p].token, DeliveryLease)
  /\ \E d \in FetchClaimed(deliveries', proc[p].token) :
       proc' = [proc EXCEPT
                  ![p].pc = IF MaySend(d, proc[p].config) THEN "send" ELSE "settle",
                  ![p].watch = d.watch, ![p].run = d.run, ![p].now = clock]
  /\ UNCHANGED <<clock, usedPids, history>>

SendsOf(w, run) == {s \in sent : s.watch = w /\ s.run = run}

\* One HTTP request and its result; finished_at is read afterwards.  A request
\* for a row that is gone is not counted against a later row of the same key.
Send(p) ==
  /\ At(p, "send")
  /\ sent' = IF p \in detached THEN sent
             ELSE sent \cup
                    {[watch |-> proc[p].watch, run |-> proc[p].run,
                      target |-> proc[p].config,
                      n |-> Cardinality(SendsOf(proc[p].watch, proc[p].run)) + 1]}
  /\ \E ok \in BOOLEAN :
       proc' = [proc EXCEPT ![p].pc = "settle", ![p].ok = ok, ![p].now = clock]
  /\ detached' = detached \ {p}
  /\ UNCHANGED <<storeVars, clock, usedPids>>

\* Mutant of Oversized: the failure is taken for a success.
MutOversizedOk(p) ==
  /\ At(p, "send")
  /\ proc' = [proc EXCEPT ![p].pc = "settle", ![p].ok = TRUE, ![p].now = clock]
  /\ detached' = detached \ {p}
  /\ UNCHANGED <<storeVars, clock, usedPids, sent>>

\* A payload over the size limit fails before any request is made.
Oversized(p) ==
  /\ At(p, "send")
  /\ proc' = [proc EXCEPT ![p].pc = "settle", ![p].now = clock]
  /\ detached' = detached \ {p}
  /\ UNCHANGED <<storeVars, clock, usedPids, sent>>

Settle(p) ==
  /\ At(p, "settle")
  /\ CompleteDelivery(proc[p].watch, proc[p].run, proc[p].token, proc[p].now,
                      proc[p].ok)
  /\ Forget(p, "idle")
  /\ UNCHANGED <<clock, usedPids, history>>

SettleRefused(p) ==
  /\ At(p, "settle")
  /\ DeliveryUnderLease(proc[p].watch, proc[p].run, proc[p].token,
                        proc[p].now) = {}
  /\ Forget(p, "idle")
  /\ UNCHANGED <<storeVars, clock, usedPids, history>>

-----------------------------------------------------------------------------
(* The environment *)

Boot(p) ==
  /\ At(p, "down")
  /\ \E pid \in Pids \ usedPids, c \in Configs :
       /\ proc' = [proc EXCEPT ![p] = Fresh("idle", pid, c)]
       /\ usedPids' = usedPids \cup {pid}
  /\ UNCHANGED <<storeVars, clock, history>>

\* A process that dies comes back with another pid, if one is left.
Crash(p) ==
  /\ ~At(p, "down")
  /\ proc' = [proc EXCEPT ![p] = Fresh("down", NULL, NULL)]
  /\ detached' = detached \ {p}
  /\ UNCHANGED <<storeVars, clock, usedPids, sent>>

AddWatch ==
  /\ \E w \in WatchIds, i \in Intervals : CreateWatch(w, i, clock)
  /\ UNCHANGED <<clock, proc, usedPids, history>>

\* The history of a deleted watch goes with it.
RemoveWatch ==
  /\ \E x \in watches :
       /\ DeleteWatch(x.id)
       /\ sent' = {s \in sent : s.watch # x.id}
       /\ detached' = detached \cup
            {p \in Procs : At(p, "send") /\ proc[p].watch = x.id}
  /\ UNCHANGED <<clock, proc, usedPids>>

Advance ==
  /\ clock < MaxClock
  /\ clock' = clock + 1
  /\ UNCHANGED <<storeVars, proc, usedPids, history>>

RunSteps(p) ==
  \/ Tick(p) \/ ClaimWatch(p) \/ NothingDue(p) \/ StartRun(p)
  \/ StartRefused(p) \/ Search(p) \/ CompleteRun(p) \/ CompleteRefused(p)

FlushSteps(p) ==
  \/ BeginFlush(p) \/ StampFlush(p) \/ NothingPending(p) \/ ClaimDelivery(p)
  \/ Send(p) \/ Oversized(p) \/ Settle(p) \/ SettleRefused(p)

FaultSteps(p) ==
  \/ \E pc \in {"claim", "start", "complete"} : CallFails(p, pc, "flush")
  \/ \E pc \in {"claimDelivery", "settle"} : CallFails(p, pc, "idle")

NativeNext ==
  \/ \E p \in Procs : \/ RunSteps(p) \/ FlushSteps(p) \/ FaultSteps(p)
                      \/ Boot(p) \/ Crash(p)
  \/ AddWatch
  \/ RemoveWatch
  \/ Advance

NativeSpec == NativeInit /\ [][NativeNext]_nativeVars

\* tokio drives the loop of every live process and a supervisor restarts the
\* dead ones; time passes.  Users and crashes owe nothing.
Fairness ==
  /\ \A p \in Procs :
       WF_nativeVars(RunSteps(p) \/ FlushSteps(p) \/ Boot(p))
  /\ WF_nativeVars(Advance)
-----------------------------------------------------------------------------
(* Properties *)

\* However many processes claimed the same occurrence of a watch (the lease ran
\* out while one of them was still searching), one of them completes it.
OccurrenceCompletedOnce ==
  \A x, y \in runs :
    /\ x.watch = y.watch
    /\ x.run[2] = y.run[2]
    /\ x.status # "running"
    /\ y.status # "running"
    => x = y

\* A watch never runs backwards: what is observed of a record at a later
\* completion is stamped later, and the schedule only moves forward.
HistoryMonotone ==
  [][/\ \A x \in watchRecords, y \in watchRecords' :
          x.watch = y.watch /\ x.record = y.record =>
            y.first = x.first /\ y.last >= x.last
     /\ \A x \in watches, y \in watches' :
          x.id = y.id => y.nextDue >= x.nextDue
    ]_nativeVars

\* At most MaxAttempts (three) HTTP attempts are made for a delivery, over all
\* processes, crashes, lease expiries and retries.
SendBound ==
  \A d \in deliveries : Cardinality(SendsOf(d.watch, d.run)) <= MaxAttempts

\* Every HTTP request was counted in the row before it left, by a claim of its
\* own: a process that dies after the request has used up an attempt.
SendsCounted ==
  \A d \in deliveries : Cardinality(SendsOf(d.watch, d.run)) <= d.attempts

\* A delivery recorded as succeeded was posted at least once, and no request of a
\* delivery went anywhere but to the destination it was queued for, although the
\* webhook was reconfigured between queueing and sending.
SuccessWasSent ==
  \A d \in deliveries :
    /\ d.status = "succeeded" => SendsOf(d.watch, d.run) # {}
    /\ \A s \in SendsOf(d.watch, d.run) : s.target = d.target

\* A watch that is due is run: whichever process claimed it and died, stalled or
\* lost its lease, some process completes the occurrence and moves the schedule
\* on, unless the watch is deleted.
DueWatchRuns ==
  \A w \in WatchIds, due \in Times :
    (\E x \in watches : x.id = w /\ x.nextDue = due /\ due <= clock)
      ~> (\A x \in watches : x.id = w => x.nextDue # due)

\* A delivery that is due, or was claimed by a process that then died, stalled past
\* its lease or had its result refused, gets an end of its attempt: it succeeds, is
\* given up as failed, or waits for the time of its retry ("expired delivery leases
\* are recoverable", docs/notifications.md:52), unless its watch is deleted.
DeliverySettles ==
  \A w \in WatchIds, run \in RunIds :
    (\E d \in DeliveryOf(w, run) : d.status = "delivering" \/ Claimable(d, clock))
      ~> (\A d \in DeliveryOf(w, run) :
            \/ d.status \in {"succeeded", "failed"}
            \/ d.status = "pending" /\ d.nextAttempt > clock)
=============================================================================
