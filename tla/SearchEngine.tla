---------------------------- MODULE SearchEngine ----------------------------
(***************************************************************************)
(* The search engine (comsat-engine): one SearchDriver fans a query out to *)
(* the selected sources and merges their records into one stream.          *)
(*                                                                         *)
(* The driver, the source workers and their channels live in ONE task.     *)
(* Workers advance only while poll_next polls them; between polls the task *)
(* sleeps until a waker fires.  A poll_next call is cut into the steps     *)
(* poll_available_event ("drain"), start_ready_sources, poll_workers       *)
(* ("workers", one worker after the other), poll_available_event again     *)
(* ("drain2") and the decision to loop, end or sleep.                      *)
(*                                                                         *)
(* What a source will answer is its script, fixed at the start; when it    *)
(* answers is not: a worker may wait for its upstream before every item.   *)
(* The byte budget and record validation are folded into BAD, an item that *)
(* the sink rejects.  Error classes, and with them the rate_limits counter,*)
(* are left out, except that a cancelled call is counted as such.          *)
(***************************************************************************)
EXTENDS Naturals, Sequences, SequencesExt, FiniteSets

CONSTANTS
  Sources,      \* registered sources that support search
  Order,        \* the selected ones among them, sorted by source id
  MissingIds,   \* which selected ids may be unregistered: sorted sequences
  Records,      \* record values a source can return
  BAD,          \* an item over the byte budget, or not a valid record
  Scripts,      \* what a source may answer
  StrictModes,  \* which values of --strict are requested
  DedupeKeys(_, _),  \* the keys of record x returned by source s
  MaxActive,    \* max_active_sources
  EventBuffer,  \* event_buffer
  MaxRecords    \* max_records_per_source

ASSUME EngineAssumption ==
  /\ Order \in Seq(Sources) /\ MissingIds \subseteq Seq(STRING)
  /\ \A i, j \in 1..Len(Order) : Order[i] = Order[j] => i = j
  /\ \A ids \in MissingIds : \A i \in 1..Len(ids) : ids[i] \notin Sources
  /\ Scripts \subseteq [chunks : Seq(Records \cup {BAD}),
                        data : Seq(Records \cup {BAD}),
                        outcome : {"ok", "error", "cancelled"}]
  /\ StrictModes \subseteq BOOLEAN
  /\ MaxActive \in Nat \ {0}
  /\ EventBuffer \in Nat \ {0}
  /\ MaxRecords \in Nat

VARIABLES
  request,   \* strict, the unregistered ids, and the script of every source
  initial,   \* diagnostics of the plan, not yet delivered
  pending,   \* planned sources not started
  running,   \* sources with a worker, in the order they were started
  worker,    \* the future of each source
  queue,     \* the channel of each source
  armed,     \* sources whose receiver has registered the task's waker
  driver,    \* where poll_next is, the cursor, and the worker being polled
  woken,     \* the task has been woken since it was last polled
  seen,      \* DedupeSet
  metrics,   \* EngineMetrics
  out        \* history: the events delivered to the consumer

engineVars == <<request, initial, pending, running, worker, queue, armed,
                driver, woken, seen, metrics, out>>

-----------------------------------------------------------------------------
(* Events and workers *)

Record(s, x) == [type |-> "record", source |-> s, record |-> x]
Failed(s) == [type |-> "failed", source |-> s]

\* next is the item the source returns next, count and err are the SinkState,
\* parked says that the sender waits for room in the channel, and rested that
\* the upstream has just answered.
NewWorker(pc) ==
  [pc |-> pc, next |-> 1, count |-> 0, err |-> FALSE, parked |-> FALSE,
   rested |-> FALSE]

NoMetrics == [requests |-> 0, successes |-> 0, failures |-> 0,
              cancelled |-> 0, emitted |-> 0, deduplicated |-> 0]

Script(s) == request.script[s]

FirstOf(q, n) == SubSeq(q, 1, IF n < Len(q) THEN n ELSE Len(q))
RestOf(q, n) == SubSeq(q, n + 1, Len(q))

\* Mutant of GuardHeld: a completed guard counts again when it is dropped.
MutGuardLate(s) == worker[s].pc \in {"call", "io", "final", "closing"}

\* The operation guard is held: a drop counts the operation as cancelled.
GuardHeld(s) == worker[s].pc \in {"call", "io", "final"}

\* missing_source_diagnostics: one failure for each unregistered id.
Diagnostics ==
  [i \in 1..Len(request.missing) |-> Failed(request.missing[i])]

\* plan_search, and SearchDriver::new.
EngineInit ==
  /\ request \in [strict : StrictModes, missing : MissingIds,
                  script : [Sources -> Scripts]]
  /\ initial = Diagnostics
  /\ pending = Order
  /\ running = <<>>
  /\ worker = [s \in Sources |-> NewWorker("none")]
  /\ queue = [s \in Sources |-> <<>>]
  /\ armed = {}
  /\ driver = [pc |-> "rest", at |-> 1, progressed |-> FALSE, cursor |-> 1]
  /\ woken = FALSE
  /\ seen = {}
  /\ metrics = [s \in Sources |-> NoMetrics]
  /\ out = <<>>

-----------------------------------------------------------------------------
(* Helpers of the driver *)

At(pc) == driver.pc = pc
Goto(pc) == driver' = [driver EXCEPT !.pc = pc]

\* start_ready_sources, from the given running list.
Room(list) == IF Len(list) < MaxActive THEN MaxActive - Len(list) ELSE 0
StartReadySources(list) ==
  LET starting == FirstOf(pending, Room(list))
  IN  /\ running' = list \o starting
      /\ pending' = RestOf(pending, Room(list))
      /\ worker' = [s \in Sources |-> IF s \in ToSet(starting)
                                      THEN NewWorker("new") ELSE worker[s]]

\* Dropping the running sources drops their futures, guards and channels.
DropRunning ==
  /\ running' = <<>>
  /\ worker' = [s \in Sources |->
                  IF s \in ToSet(running)
                  THEN [worker[s] EXCEPT !.pc = "dropped", !.parked = FALSE]
                  ELSE worker[s]]
  /\ queue' = [s \in Sources |-> <<>>]
  /\ armed' = {}

CancelGuards(m) ==
  [s \in Sources |->
     IF s \in ToSet(running) /\ GuardHeld(s)
     THEN [m[s] EXCEPT !.cancelled = @ + 1] ELSE m[s]]

Normalize(cursor, list) == IF cursor > Len(list) THEN 1 ELSE cursor
NextCursor == (Normalize(driver.cursor, running) % Len(running)) + 1
\* Mutant of Current: whichever source has an event is served first.
MutFirstReady ==
  LET ready == {i \in 1..Len(running) : queue[running[i]] # <<>>}
  IN  running[IF ready = {} THEN Normalize(driver.cursor, running)
              ELSE CHOOSE i \in ready : \A j \in ready : i <= j]

Current == running[Normalize(driver.cursor, running)]

-----------------------------------------------------------------------------
(* poll_next *)

\* Mutant of PollNext: a sleeping task is not polled again.
MutPollOnce ==
  /\ At("rest")
  /\ Goto("drain")
  /\ woken' = FALSE
  /\ UNCHANGED <<request, initial, pending, running, worker, queue, armed,
                 seen, metrics, out>>

\* The consumer polls: at first, after an event, or when the task was woken.
PollNext ==
  /\ At("rest") \/ (At("asleep") /\ woken)
  /\ Goto("drain")
  /\ woken' = FALSE
  /\ UNCHANGED <<request, initial, pending, running, worker, queue, armed,
                 seen, metrics, out>>

Draining == At("drain") \/ At("drain2")

\* A failure in strict mode stops everything else; stop() keeps the remaining
\* plan diagnostics.
Stop ==
  /\ pending' = <<>>
  /\ DropRunning
  /\ metrics' = CancelGuards(metrics)

DrainInitial ==
  /\ Draining
  /\ initial # <<>>
  /\ initial' = Tail(initial)
  /\ out' = Append(out, Head(initial))
  /\ IF request.strict THEN Stop
     ELSE UNCHANGED <<pending, running, worker, queue, armed, metrics>>
  /\ Goto("rest")
  /\ UNCHANGED <<request, woken, seen>>

\* The receiver of the current source, once the initial events are out.
Receiving(s) == Draining /\ initial = <<>> /\ running # <<>> /\ s = Current

\* Taking an event makes room: a parked sender is woken, and with it the task.
Popped(s) == [queue EXCEPT ![s] = Tail(@)]
Unparked(s) == [worker EXCEPT ![s].parked = FALSE]
WokenByRoom(s) == woken \/ worker[s].parked

DrainRecord(s) ==
  /\ Receiving(s)
  /\ queue[s] # <<>> /\ Head(queue[s]).type = "record"
  /\ LET e == Head(queue[s])
         keys == DedupeKeys(s, e.record)
     IN  IF keys \cap seen = {}
         THEN /\ seen' = seen \cup keys
              /\ out' = Append(out, e)
              /\ metrics' = [metrics EXCEPT ![s].emitted = @ + 1]
              /\ driver' = [driver EXCEPT !.pc = "rest", !.cursor = NextCursor]
         ELSE /\ metrics' = [metrics EXCEPT ![s].deduplicated = @ + 1]
              /\ driver' = [driver EXCEPT !.cursor = NextCursor]
              /\ UNCHANGED <<seen, out>>
  /\ queue' = Popped(s)
  /\ worker' = Unparked(s)
  /\ woken' = WokenByRoom(s)
  /\ UNCHANGED <<request, initial, pending, running, armed>>

DrainFailure(s) ==
  /\ Receiving(s)
  /\ queue[s] # <<>> /\ Head(queue[s]).type = "failed"
  /\ out' = Append(out, Head(queue[s]))
  /\ IF request.strict
     THEN Stop /\ Goto("rest")
     ELSE /\ queue' = Popped(s)
          /\ worker' = Unparked(s)
          /\ driver' = [driver EXCEPT !.pc = "rest", !.cursor = NextCursor]
          /\ UNCHANGED <<pending, running, metrics, armed>>
  /\ woken' = WokenByRoom(s)
  /\ UNCHANGED <<request, initial, seen>>

\* Mutant of DrainClosed: a finished source leaves with events in its channel.
MutLeaveEarly(s) ==
  /\ Receiving(s)
  /\ worker[s].pc = "done"
  /\ LET at == Normalize(driver.cursor, running)
         rest == RemoveAt(running, at)
     IN  /\ StartReadySources(rest)
         /\ driver' = [driver EXCEPT !.cursor = Normalize(at, rest)]
  /\ UNCHANGED <<request, initial, queue, armed, woken, seen, metrics, out>>

\* A closed and empty channel: the source leaves and the next one starts.
DrainClosed(s) ==
  /\ Receiving(s)
  /\ queue[s] = <<>> /\ worker[s].pc = "done"
  /\ LET at == Normalize(driver.cursor, running)
         rest == RemoveAt(running, at)
     IN  /\ StartReadySources(rest)
         /\ driver' = [driver EXCEPT !.cursor = Normalize(at, rest)]
  /\ UNCHANGED <<request, initial, queue, armed, woken, seen, metrics, out>>

\* Nothing to deliver now: the current receiver, if any, registers the waker,
\* and poll_next goes on.
NothingAvailable ==
  /\ initial = <<>>
  /\ running # <<>> => queue[Current] = <<>> /\ worker[Current].pc # "done"

Arm == armed' = IF running = <<>> THEN armed ELSE armed \cup {Current}

DrainDry ==
  /\ At("drain")
  /\ NothingAvailable
  /\ Arm
  /\ StartReadySources(running)
  /\ driver' = [driver EXCEPT !.pc = "workers", !.at = 1, !.progressed = FALSE]
  /\ UNCHANGED <<request, initial, queue, woken, seen, metrics, out>>

\* After the workers: loop, end or sleep.
IsComplete == initial = <<>> /\ running = <<>> /\ pending = <<>>

\* Mutant of Decide: the loop is not repeated after progress.
MutNoLoop ==
  /\ At("drain2")
  /\ NothingAvailable
  /\ Arm
  /\ Goto(IF IsComplete THEN "ended" ELSE "asleep")
  /\ UNCHANGED <<request, initial, pending, running, worker, queue, woken,
                 seen, metrics, out>>

Decide ==
  /\ At("drain2")
  /\ NothingAvailable
  /\ Arm
  /\ Goto(IF driver.progressed THEN "drain"
          ELSE IF IsComplete THEN "ended" ELSE "asleep")
  /\ UNCHANGED <<request, initial, pending, running, worker, queue, woken,
                 seen, metrics, out>>

\* The consumer drops the stream between two polls.
Drop ==
  /\ At("rest") \/ At("asleep")
  /\ DropRunning
  /\ metrics' = CancelGuards(metrics)
  /\ Goto("dropped")
  /\ UNCHANGED <<request, initial, pending, woken, seen, out>>

-----------------------------------------------------------------------------
(* poll_workers: run_source_operation of one source *)

Polled(s) == At("workers") /\ driver.at <= Len(running) /\ s = running[driver.at]

\* A worker takes steps until it has to wait or is finished.
Runs(s, pcs) == Polled(s) /\ worker[s].pc \in pcs /\ ~worker[s].parked

workerUnchanged == <<request, initial, pending, running, seen, out>>

\* Mutant of Send: the channel has no bound.
MutUnbounded(s, w, e) ==
  /\ queue' = [queue EXCEPT ![s] = Append(@, e)]
  /\ worker' = [worker EXCEPT ![s] = w]
  /\ woken' = (woken \/ s \in armed)
  /\ armed' = armed \ {s}

\* The channel takes the event, and parks the sender when it is over its
\* buffer; a registered receiver wakes the task.
Send(s, w, e) ==
  /\ queue' = [queue EXCEPT ![s] = Append(@, e)]
  /\ worker' = [worker EXCEPT ![s] =
                  [w EXCEPT !.parked = Len(queue[s]) + 1 > EventBuffer]]
  /\ woken' = (woken \/ s \in armed)
  /\ armed' = armed \ {s}

BeginCall(s) ==
  /\ Runs(s, {"new"})
  /\ worker' = [worker EXCEPT ![s].pc = "call"]
  /\ metrics' = [metrics EXCEPT ![s].requests = @ + 1]
  /\ UNCHANGED <<workerUnchanged, queue, armed, driver, woken>>

\* The call waits for its upstream; the next worker is polled.
AwaitUpstream(s) ==
  /\ Runs(s, {"call"})
  /\ ~worker[s].rested
  /\ worker' = [worker EXCEPT ![s].pc = "io"]
  /\ driver' = [driver EXCEPT !.at = @ + 1]
  /\ UNCHANGED <<workerUnchanged, queue, armed, woken, metrics>>

\* The upstream answers, at any time, and wakes the task.
UpstreamAnswers(s) ==
  /\ worker[s].pc = "io"
  /\ worker' = [worker EXCEPT ![s].pc = "call", ![s].rested = TRUE]
  /\ woken' = TRUE
  /\ UNCHANGED <<workerUnchanged, queue, armed, driver, metrics>>

\* emit_record_value: the budget comes first, then validation, then the send.
\* A rejected item cancels the call and sends nothing.
Rejected(w, x) == w.err \/ w.count + 1 > MaxRecords \/ x = BAD

Items(s) == IF worker[s].pc = "final" THEN Script(s).data ELSE Script(s).chunks

EmitRecord(s) ==
  /\ Runs(s, {"call", "final"})
  /\ worker[s].next <= Len(Items(s))
  /\ LET x == Items(s)[worker[s].next]
         w == [worker[s] EXCEPT !.next = @ + 1, !.count = @ + 1,
                                !.rested = FALSE]
     IN  IF Rejected(worker[s], x)
         THEN /\ worker' = [worker EXCEPT ![s] =
                              [w EXCEPT !.err = TRUE, !.next = Len(Items(s)) + 1]]
              /\ UNCHANGED <<queue, armed, woken>>
         ELSE Send(s, w, Record(s, x))
  /\ UNCHANGED <<workerUnchanged, driver, metrics>>

Exhausted(s) == worker[s].next > Len(Items(s))

\* finish_stream_outcome: a call that streamed nothing hands over its data.
BeginFinal(s) ==
  /\ Runs(s, {"call"})
  /\ Exhausted(s)
  /\ ~worker[s].err /\ Script(s).outcome = "ok" /\ worker[s].count = 0
  /\ worker' = [worker EXCEPT ![s] = [@ EXCEPT !.pc = "final", !.next = 1]]
  /\ UNCHANGED <<workerUnchanged, queue, armed, driver, woken, metrics>>

Succeed(s) ==
  /\ Runs(s, {"call", "final"})
  /\ Exhausted(s)
  /\ ~worker[s].err
  /\ worker[s].pc = "final" \/ (Script(s).outcome = "ok" /\ worker[s].count > 0)
  /\ worker' = [worker EXCEPT ![s].pc = "closing"]
  /\ metrics' = [metrics EXCEPT ![s].successes = @ + 1]
  /\ UNCHANGED <<workerUnchanged, queue, armed, driver, woken>>

\* Mutant of Fail: a failure is counted but not reported.
MutSilent(s) ==
  /\ Runs(s, {"call", "final"})
  /\ Exhausted(s)
  /\ worker[s].err \/ (worker[s].pc = "call" /\ Script(s).outcome # "ok")
  /\ metrics' = [metrics EXCEPT ![s].failures = @ + 1]
  /\ worker' = [worker EXCEPT ![s].pc = "closing"]
  /\ UNCHANGED <<workerUnchanged, queue, armed, driver, woken>>

\* A budget error wins over whatever the call returned.
Fail(s) ==
  /\ Runs(s, {"call", "final"})
  /\ Exhausted(s)
  /\ worker[s].err \/ (worker[s].pc = "call" /\ Script(s).outcome # "ok")
  /\ IF worker[s].err \/ Script(s).outcome = "error"
     THEN metrics' = [metrics EXCEPT ![s].failures = @ + 1]
     ELSE metrics' = [metrics EXCEPT ![s].cancelled = @ + 1]
  /\ Send(s, [worker[s] EXCEPT !.pc = "closing"], Failed(s))
  /\ UNCHANGED <<workerUnchanged, driver>>

\* The future is ready; its senders are dropped, which wakes a receiver.
Finish(s) ==
  /\ Runs(s, {"closing"})
  /\ worker' = [worker EXCEPT ![s].pc = "done"]
  /\ driver' = [driver EXCEPT !.at = @ + 1, !.progressed = TRUE]
  /\ woken' = (woken \/ s \in armed)
  /\ armed' = armed \ {s}
  /\ UNCHANGED <<workerUnchanged, queue, metrics>>

\* Nothing to do for this worker: it waits, or was finished before.
SkipWorker(s) ==
  /\ Polled(s)
  /\ worker[s].parked \/ worker[s].pc \in {"io", "done"}
  /\ driver' = [driver EXCEPT !.at = @ + 1]
  /\ UNCHANGED <<workerUnchanged, worker, queue, armed, woken, metrics>>

WorkersPolled ==
  /\ At("workers")
  /\ driver.at > Len(running)
  /\ Goto("drain2")
  /\ UNCHANGED <<workerUnchanged, worker, queue, armed, woken, metrics>>

-----------------------------------------------------------------------------
DriverStep ==
  \/ DrainInitial \/ DrainDry \/ Decide \/ WorkersPolled
  \/ \E s \in Sources : DrainRecord(s) \/ DrainFailure(s) \/ DrainClosed(s)

WorkerStep(s) ==
  \/ BeginCall(s) \/ AwaitUpstream(s) \/ EmitRecord(s) \/ BeginFinal(s)
  \/ Succeed(s) \/ Fail(s) \/ Finish(s) \/ SkipWorker(s)

PollStep == DriverStep \/ \E s \in Sources : WorkerStep(s)

EngineNext ==
  \/ PollNext
  \/ PollStep
  \/ Drop
  \/ \E s \in Sources : UpstreamAnswers(s)

EngineSpec == EngineInit /\ [][EngineNext]_engineVars

-----------------------------------------------------------------------------
(* Properties *)

\* The task never sleeps for good: whenever it is asleep and no wake-up is on
\* its way, some source is still waiting for its upstream, whose answer wakes
\* the task.  A source started late, a parked sender or a closed channel is
\* never forgotten.
NoLostWakeup ==
  At("asleep") /\ ~woken =>
    \E s \in ToSet(running) : worker[s].pc = "io"

\* Memory stays bounded however slow the consumer is: at most MaxActive
\* workers, and one event over the buffer in each channel.
Backpressure ==
  /\ Len(running) <= MaxActive
  /\ \A s \in Sources : Len(queue[s]) <= EventBuffer + 1

\* Metrics of the operation add up once the stream is over, whether it ended, was
\* stopped by a strict failure or was dropped at any point: every request that
\* was begun has exactly one terminal outcome, and a source that was planned
\* but never polled has none.
OneOutcomePerRequest ==
  At("ended") \/ At("dropped") =>
    \A s \in Sources :
      LET m == metrics[s]
      IN  /\ m.requests = m.successes + m.failures + m.cancelled
          /\ m.requests <= 1

\* A failure counted in the metrics of a stream that ended is one the consumer
\* was told about, and the other way round, unless a strict failure came first.
FailuresReported ==
  At("ended") =>
    \A s \in Sources :
      LET told == Failed(s) \in ToSet(out)
          m == metrics[s]
      IN  /\ told => m.failures + m.cancelled = 1
          /\ ~request.strict /\ m.failures + m.cancelled > 0 => told

\* Every record a source returned within its budget is in the output, or was
\* left out for one that shares a dedupe key with it: nothing is lost between
\* sink, channel and merge, although channels block and sources close.
NothingLost ==
  At("ended") /\ ~request.strict =>
    \A s \in Sources :
      metrics[s].emitted + metrics[s].deduplicated
        = worker[s].count - (IF worker[s].err THEN 1 ELSE 0)

=============================================================================
