# A TLA+ development for COMSAT

COMSAT searches several community sources at once, keeps *watches* (searches
that are repeated on a schedule), remembers what each watch has seen, and
announces new records through a webhook. This directory models the parts of it
whose correctness depends on order, time and failure, checks them with TLC on
small instances, and proves most of the safety properties with TLAPS, for
instances of any size.

## The system and its parts

| Part | State it keeps | Operations | Where |
| --- | --- | --- | --- |
| Watch store (SQLite) | tables `watches`, `watch_runs`, `records`, `watch_records`, `deliveries` | create, delete and claim a watch; start and complete a run; claim and complete a delivery | `crates/comsat-store`, `crates/comsat-store-sqlite`, `migrations` |
| Native scheduler | what one `comsat serve` process is in the middle of | a tick: claim, start, search, complete; then one delivery attempt | `crates/comsat-app/src/{app,serve,notifications}.rs`, `crates/comsat-cli` |
| Search engine | planned and running sources, their channels, a cursor, the dedupe set, metrics | `poll_next`, drop | `crates/comsat-engine` |
| Search, fetch and follow commands | records and failures seen so far, targets read ahead from stdin | take an event or a target, exit | `crates/comsat-app/src/commands`, `crates/comsat-cli/src/main.rs` |
| Managed worker | queue messages, tenants | cron claim, queue message, scheduled deliveries | `crates/comsat-cloud` |
| D1 store | the same tables as above | the same operations, as guarded statements | `crates/comsat-cloud/src/d1_*.rs` |
| Sources | a cooldown per operation | search, fetch, follow: requests to GitHub, Stack Exchange, Hacker News, the web | `plugins` |
| Source commands | none | turn a source into tools; refuse bad arguments, check each record | `crates/comsat-source/src/command.rs` |
| Conformance suite | what it saw of the source under test | search twice, fetch, follow, fail, cancel, check schemas | `crates/comsat-source/src/conformance*` |
| HTTP clients | the addresses of a host, an abort guard, the bytes read | resolve, connect, read, drop | `crates/comsat-cli/src/http_client.rs`, `crates/comsat-cloud/src/{cloud_http,runtime_http}.rs` |
| Worker requests | the catalog of the isolate | route, authorise, read the body, call a tool | `crates/comsat-cloud/src/{runtime,auth,source_graph}.rs` |
| Database file of the CLI | schema version, executions and artifacts of Code Mode, a cached connection | open and migrate lazily, put, store, delete | `crates/comsat-cli/src/{codemode_store,native_store}.rs`, `crates/comsat-store-sqlite/src/{migrations,codemode}.rs` |

How they interact: the scheduler and the managed worker are *clients* of the
store and share nothing but its tables. Mutual exclusion between them is a lease
(an owner and an expiry time) on a watch or a delivery row; the store has no
clock, every call passes the time the client read. The scheduler consumes the
search engine through `collect_search`, the search command through its stream.
The engine's driver, its workers and their channels run inside one task and
advance only while that task is polled; wakers connect them to the outside.
The engine calls a source through its tools; a source sends requests through an
HTTP client and shares its cooldowns between all its calls. A call that nobody
waits for any more is dropped, and with it everything it owns: a guard then
counts it as cancelled, another one aborts its request.

What is hard in it, and therefore what the properties are about:

* a lease that runs out while its holder is still working, the late completion
  that follows, and crashes between any two store calls;
* the transactional outbox: a record new to a watch is queued in exactly one
  batch, atomically with its observation, also when watches are deleted and
  created meanwhile;
* retries: a bounded number of HTTP requests for one delivery, over all crashes
  and take-overs, and never to a reconfigured destination;
* the merge: an output order and a dedupe winner that do not depend on timing,
  bounded channels, and no lost wake-up;
* on the managed worker, messages that come twice, late or never, calls that
  committed although they failed, and a completion that is a batch of separately
  fenced statements instead of a transaction;
* accounting and exit codes when streams fail half-way or are dropped;
* a thread discussion that takes several requests, any of which may fail, and
  the way back from a record to its thread, whatever the upstream left out;
* names that resolve differently a moment later, bodies that grow past their
  limit, requests left open by a dropped call;
* several tenants in one isolate, several processes on one database file.

`PROJECT.json` lists the hazards one by one, at the line where each bites, with
the property that would catch it or the reason there is none.

## Modules

`WatchStore` models the store for one tenant (every statement is keyed by
tenant). A table is a set of rows; each method of the `Store` trait that changes
a table is one action, because it is one statement or one transaction. The
helpers carry the conditions of the SQL: `SelectDueWatch` is `DUE_WATCH_SQL`
with its `ORDER BY`, `WatchUnderLease` and `RunningRun` are the two checks of
the completion transaction, `NewRecords` is the test for records the watch has
not seen, `CompletedRow` is `COMPLETE_DELIVERY_SQL`. `DeleteWatch` includes the
foreign keys' `ON DELETE CASCADE`. A refused call (Conflict) changes nothing and
is the absence of a step. Columns no guard reads are left out. `Spec` is the
contract towards *any* client: any operation, any owner, any time, in any order;
the run `Store` and all proofs are about it.

`NativeScheduler` extends it with the processes of `comsat serve`. The program
counter of a process follows `run_due_watch_once` and `deliver_pending_webhook`;
each store call is a step of its own, so processes interleave between calls, and
the time it passes was read in an earlier step, as in the code
(`deliver_pending_once` even reads the clock twice, once for the lease owner and
once for the claim). A call commits, is refused, or fails with a backend error
(the calls in `StoreFaults`; a busy database is one). Processes crash anywhere and restart
with a new pid and possibly another webhook; users add and delete watches. The
variables `sent` and `detached` are history: the requests that left, and the
processes whose delivery row was deleted under them.

`SearchEngine` cuts a `poll_next` call into its parts: `poll_available_event`
(the `Drain...` actions), `start_ready_sources`, `poll_workers` (one worker
after the other, each taking steps until it waits or is finished), and the
decision to loop, end or sleep. Channels are those of `futures::mpsc`: one slot
per sender beyond the buffer, a sender parks when it is over the buffer, a
receiver that found nothing registers a waker. `woken` and `armed` are the
wakers. A worker follows `run_source_operation` and `finish_stream_outcome`;
what its source answers is a script chosen at the start, when it answers is up
to `UpstreamAnswers`. The byte budget and validation are one kind of item (`BAD`)
that the sink rejects; the record budget is modelled as it is.

`SearchOrder` defines the output of a search without tasks, channels or time, as the
reference for `OrderStable`: the events of each source (`EventsOf`, cut where the
sink refuses an item), merged one at a time in turns (`MergeNext`). `Merge` is that
merge after `n` steps, and after `MergeSteps` of them it is over.

`RecordStream` composes the engine with the `comsat search` command: observe an
event, print it, and if it is terminal report the failures and drop the stream.

`D1Store` models the store of the managed worker. Its tables and most operations
are those of `WatchStore`; a completion is a batch of statements (`InsertRecords`,
`UpdateRecords`, `InsertDelivery`, `InsertWatchRecords`, `UpdateWatchRecords`,
`FinishRunRow`, `FinishWatchRow`), each a function from the content of the tables
to their new content, with the fence its own `WHERE` clause states. D1 commits a
batch as a whole, so `D1Complete` is one step; what can go wrong is inside it,
where a statement sees what the ones before it wrote. By the time the last one
runs the run is finished, so its fence is another one: the run finished at this
very second (`CompletesWatch`). That is sound because every claim draws an owner
of its own (`usedOwners`): with an owner used for two claims of a watch,
repeating an old completion within the same second would release the new lease.

`CloudScheduler` puts cron invocations and queue consumers over `WatchStore`. The
program counter of an invocation follows `scheduled` or `process_watch_message`;
`start_watch_run` is two calls there (`Insert`, `Load`). The lease owner of a
claim is also the run's idempotency key, so a repeated message finds its run. At
the times in `FaultTimes` a call fails before or after it committed, a message
comes again although it was acknowledged, and an invocation ends anywhere;
`message.retry()` leads to another delivery or, when Cloudflare gives up, to
none. With `Oversize`, records may exceed the 1 MiB limit of a completion, which
is then refused as invalid and not retried.

`TenantRotation` models what `CloudScheduler` leaves out, the sharing of a cron
invocation between tenants: `scheduled_tenants` and the loop over its result,
which ends when the claim limit is used up or at the first error. A cron fires
once in every window of 300 seconds (`wrangler.jsonc`), never while another one
runs.

### Sources and their callers

`SourceTypes` holds what all of them share: queries, targets, URLs and records
with their validation, error classes, and two notations for what a source does.
`Decide` is the list of checks a source makes before it sends anything, in the
order of the code, with the requests it sends when none fails; `Outcome` is what
it makes of one response. An identifier is the tuple of the parts its format
string joins, a URL the answers it gives to the code's questions.

`GitHub`, `StackExchange`, `HackerNews` and `WebSource` are the four plugins as
such operators: plans and outcomes, and the parsing of a target, which closes the
circle from a record back to a request.

`SourceCalls` runs them. A call is a step up to its first await and a step for
each response (`Start`, `Respond`), so two calls of a source interleave at every
await of the HTTP client and meet in its cooldowns. The caller passes on any
record it holds; it may drop a call. What upstream holds is fixed (`Objects`,
with objects that lack a node id, a link, a question, or are gone); it answers
truthfully, a page at a time, or with any fault. `promised` is history: what is left of the wait
that was asked for last.

`Conformance` models the suite of `comsat-source` around an arbitrary runtime: in
every check the runtime yields any stream, ready or pending, and the catalog, which
is a library, may keep a request that was cancelled. `truth` is history: what
really happened. `SchemaWalk` is the recursive schema check of the suite beside a
definition of what it decides that walks nothing.

`TargetCommands` models `comsat fetch` and `comsat follow`, the engine's one-shot
fetch and follow planning, the counters they share when several commands run in
one serving process, and the thread that reads targets from stdin, which runs up to
two targets ahead of the command and goes on after the command has ended.

### Services

`HttpExchange` models one exchange of the three readers of bodies: the CLI's client,
which resolves a name, checks every address and connects only to those; the
worker's client with its abort guard; and the reader of a request's body. The
name server may change its answer at any time, the body comes in chunks of any
size, and whoever waits may drop the exchange at any await. `BoundedRead` is the
abstract specification of a reader, in three variables; `ReadsBounded` is the
refinement (`BR == INSTANCE BoundedRead WITH ...`, the verdict computed from the
answer), checked by TLC and proved.

`WorkerRequest` models requests to the worker: what `route_request` decides before
its first await, the body, the tool or MCP call. Deployments change tokens and
origins between any two steps.

`CodeModeStore` models the database file as several processes find it: opened lazily
by calls that write, cached per process by Code Mode and opened per call by the
watch store, migrated inside one transaction at every open. SQLite's locks are
part of the model, because what saves a migration from running twice is that a
reader which wants to write fails at once when another one got there first.

The `..._proofs` modules hold the theorems: `WatchStore_proofs` about the store,
`NativeScheduler_proofs` about `comsat serve`, `Cloud_proofs` about the managed worker
and D1, `Engine_proofs` about the search engine and the search command,
`Order_proofs` about the order of a search, `Targets_proofs` about fetch and follow,
`Sources_proofs` about the sources and the conformance suite, `Services_proofs` about
the services and the rotation of tenants.
The `MC...` modules instantiate the others for TLC. `MCSources` and `MCServices` put
together parts that share no state: a behaviour is one of one part, chosen by the
variable `part`, and the other parts keep an initial state. In every module the definitions called `Mut...`
are deliberately wrong variants of the definition that follows them, kept to
show that each property notices such a mistake.

## Runs

| Run | Question | Bounds |
| --- | --- | --- |
| `Store` | is no row orphaned, is every new record in exactly one batch, do retries and take-overs keep the attempt budget, is finished work final? | 1 watch, 2 owners, 2 runs, 2 records, times 0..1, 2 attempts |
| `NativeRuns` | is each occurrence completed at most once, and does history only move forward? | 2 processes, 2 pids, clock to 3, leases of 1, any store call may fail |
| `NativeDeliveries` | are requests counted, and sent where they were queued for? | 2 processes, 2 pids, 2 destinations or none, clock to 2, 2 attempts, any store call may fail except the one that stores a result |
| `NativeLiveness` | is a due watch completed, and does every delivery come to the end of its attempt, in spite of crashes? | 2 processes, 3 pids, 1 record, clock to 1, 2 attempts, no store faults |
| `NativeSendLimit` | is the request bound kept when storing a result fails? (no) | 1 process, 2 watches, clock to 3, any store call may fail |
| `Engine` | is the output that of the reference merge, whatever the timing? are wake-ups, memory, failures and metrics right, also when the stream is dropped? | 3 sources on 2 slots, buffer 1, budget 2, six scripts each, strict and not, 0 or 2 unknown sources |
| `StreamExit` | does the command end, with the right exit code and nothing left behind? | 3 sources, four scripts each, 0 or 1 unknown source |
| `StreamStrict` | does `--strict` exit 3 only when a source failed? (no) | 3 sources |
| `Cloud` | do repeated, late and lost messages complete an occurrence twice, or post a webhook too often? | 1 cron, 2 consumers, 3 owners, clock to 1, faults at 0, 1 attempt and one beyond |
| `CloudLiveness` | are messages and due watches worked off once faults cease? | 1 cron, 1 consumer, 3 owners, clock to 2, faults to 1, no webhook |
| `Sources` | does a caller get the first page of each kind of replies or an error, do records lead back to their threads, are waits honoured? is a conformance report honest and its schema check right? do counters and exit codes hold when calls overlap, fail and are dropped? | 2 callers on one of 4 sources, 20 upstream objects (14 of GitHub), pages of 2, a default limit of 1, waits to 2; 6 streams, 4 profiles, all fixtures; all documents of 3 nodes with one reference; 2 commands, 6 stdins of up to 5 lines |
| `Services` | is a D1 batch the same as the transaction? does every healthy tenant get its turn? are bodies bounded, addresses checked and requests ended? do tenants stay apart? is a file migrated once and only created by a write? | D1: as `Store`, 1 attempt; 4 tenants, 2 claims per cron, one that may fail; limit 2, bodies to 4, 3 addresses; 2 requests, 4 deployments; 3 calls in 2 processes, schema versions 0 to 3 |

Why the bounds are enough for the interesting cases: two owners and leases of
one tick make every take-over and late completion happen; two attempts, and with
clock to 2 one beyond them, reach each branch of the retry decision, and a count
further past the limit is treated alike; two runs and two records produce old and new records in
one completion. Three sources on two slots make a source start late, in a
slot that another has left; a channel of one blocks its sender; scripts contain a
duplicate across sources, a stream that exceeds the budget by one, one that
meets it exactly, records rejected in a stream and in final data, a failure after
a record and an empty answer. Two callers are enough for what calls share, which is
a cooldown; with pages of two, a pull request and a discussion with three comments
each have a thread that is cut, two reviews fill a page exactly, and other threads
fit in a page; a limit of two with bodies to four has chunks that meet the limit,
cross it and come after it; three nodes make an embedded resource with a
reference into and out of it; with three calls in two processes, two opens race
in one process while another one migrates. Symmetry is used for sets of values that no definition tells
apart, and never with liveness. Deadlock is not an error anywhere: a store
nobody calls, a clock at its bound and a finished search may stop.

### Fairness

`NativeLiveness` assumes weak fairness of each process (tokio runs its loop, and
a supervisor restarts it) and of the clock. With two attempts a delivery can both
wait for its retry and be given up; a webhook is always configured in this run, and
`DeliverySettles` is about rows claimed by a process that died as well as rows that
are due. Users, crashes and faults owe
nothing. Time ends at the bound, so `CrashesEarly` keeps the last crash a lease
and a pid away from it. `StreamExit` assumes that the
executor finishes a poll and polls a woken task again, and that every upstream
answers (HTTP clients have timeouts). A sleeping task that nobody woke is *not*
polled, so a lost wake-up would show as a search that does not end.
`CloudLiveness` assumes that Cloudflare keeps firing the cron, delivers a queued
message and runs what it has started, that faults end one lease before the
bound, and that no search result is over the size limit (a watch whose results
always are is claimed, run and refused for ever). Claims of one watch pass ever
later times, so three owners are enough up to time 2; deleting watches, which
would need more, is left to the other runs.

### What the two violations show

`NativeSendLimit`: docs/notifications.md promises at most three HTTP attempts.
After a claim, the SQLite store fetches not the row it claimed but one in
delivery under the same lease owner, and the owner of an attempt is the process
and the second. If storing a result fails, and the next tick falls into the same
second and claims another delivery, the old delivery may be handed out again and
posted without being counted. The scheduler's tick is 30 seconds, so it takes a
tick delayed by a slow search (the interval then fires at once) to get there.
`NativeDeliveries` shows that without that fault every request is counted
(`SendsCounted`), and `Cloud` that on D1 requests are counted and bounded in any
case: there the claim returns the very row it updated.

`StreamStrict`: `RecordStreamState::terminal` returns true for *every* event
under `--strict`. If the first event is a record, the command stops after it and
exits 3 with an empty list of failures.

## Proofs

Each theorem holds for every value of the constants that the named assumption of its
module allows; TLC evaluates the assumptions in the runs. All proofs have the same
shape: an inductive invariant, a lemma per action that the action keeps it, and a last
step that draws the property from it.

### The store, under any client

From `StoreAssumption` (watch ids, intervals, leases and times are numbers, intervals and
leases are not zero, NULL is none of the values it stands beside), `Spec` implies:

* `TypeCorrect`: the tables hold rows of their schemas;
* `RetryBudgetHolds`, `LeaseColumnsHold`: the attempt budget and the lease
  columns, each inductive together with the type invariant;
* `BatchesStayDisjoint`, `OutboxStaysComplete`, `NeverOrphans`,
  `DeliveriesOfFinishedRuns`: the outbox;
* `FinishedIsFinal`: finished runs and settled deliveries are never rewritten.

The four outbox properties are not inductive alone. `OutboxInv` is their
conjunction with `KeysUnique`. The step that matters is the completion: it adds a
batch, and the batch must not meet an earlier one. Its records are those *not* in
the watch's history, while every queued record *is* in the history
(`BatchesDisjoint`), so the new batch is disjoint from all others. It must also
be added at all, for `OutboxComplete`, although an existing delivery of the same
run suppresses the insert: `CompletingRunHasNoBatch` shows that there is none,
because a delivery belongs to a finished run (`DeliveryOfFinishedRun`), run rows
are unique (`KeysUnique`), and the completing run is still running. `NoOrphans`
carries the deletion. Each action has a lemma of its own (`CreateKeepsOutbox`,
`DeleteKeepsOutbox`, `StartKeepsOutbox`, `CompleteKeepsOutbox`); replacing one row
of a table is handled once, by `ReplaceWatch` and `ReplaceDelivery`.

`TypeOK`, `KeysUnique`, `LeaseColumns` and `DeliveryOfFinishedRun` are proved, and in no
run.

### The native scheduler

A process writes to the tables only through the actions of `WatchStore`, so every
behaviour of `NativeSpec` is one of `Spec` by the way its steps are written. The lemma
`SchedulerUsesStore` says no more than that. It is not a result about the scheduler:
it carries the invariants of the store over, once the arguments are known to be in
their domains, by `ProcsOK`, which says what a process holds at each program counter,
and `PidsApart`: no two live processes share a pid.

`OccurrencesCompleteOnce` and `HistoryNeverRunsBack` rest on `OccurrenceInv`. A lease may run
out under a slow search and another process may claim the same occurrence; what keeps
the loser from completing it again is the schedule. It is ahead of every finished run
and of the history (`ScheduleAhead`), and a process that still owns the lease of its
watch works on the occurrence that is next (`OwnsNext`).

`SuccessesWereSent` holds whatever calls fail: who holds the lease of a delivery works on
the row it claimed and reports a success only after a request (`LeaseMeansRow`).
`RequestsAreCounted` and `RequestsAreBounded` assume that the call which settles an attempt
does not fail (`"settle" \notin StoreFaults`). This is the exact condition: the run
`NativeSendLimit` refutes the bound without it. The argument is that lease tokens are
used once, for a row in delivery under a process's pid is the row of its present
attempt or was claimed under an earlier token (`TokensUsed`); hence every request and
every attempt under way has a count of its own in the row (`CountInv`).

### The managed worker and D1

The lemma `WorkerUsesStore` carries the invariants of the store over to `CloudSpec` in the
same way; `ActorsOK` says what an invocation holds. All that follows is for repeated, late
and lost messages, calls that fail before or after they committed, and invocations
that end anywhere. `OccurrencesMoveOn` (`CloudOccurrences`)
rests on `ScheduleInv`: a watch is leased only for a due occurrence, a consumer whose
owner still has the lease read the clock after that occurrence was due, and the
schedule is ahead of the history. `WorkerCountsRequests` needs no condition on faults:
here each claim draws a fresh token and returns the row it updated, so that the count
in the row covers the requests made and about to be made (`RequestInv`).

`D1KeepsContract` is the refinement of `Spec` by `D1Spec`. Inside its fence a batch does what
the transaction does, statement by statement (`FencedIn`); outside it does nothing
(`FencedOff`). The last statement has a fence of its own, and the proof that it
cannot fire for a request that is out of date needs `FinishedLetGo` (the owner a run was
finished under never again holds the watch), which holds because owners are drawn once
(`OwnersDrawn`).

### The search engine and its command

From `EngineAssumption` (a positive limit and buffer, a plan without repetitions whose
missing ids are none of the registered sources, as `plan.rs` makes it), `EngineSpec`
implies `MemoryIsBounded`, `RequestsHaveOneOutcome`, `WakeupsAreNotLost`, `RecordsAreNotLost` and
`FailuresAreReported`, and `StreamSpec`, the engine with the command, `CommandLeavesNothing` and
`ExitCodeIsRight`. `EngineInv` is common to all: rows and lists have their types
(`EngineTypes`), no source is planned or runs twice (`PlanOK`), a channel is over its
buffer exactly while its sender is parked (`ChannelOK`), and a request is counted once
with an outcome or has its guard (`GuardOK`). On it rest four further invariants.

* `WakeOK`, for wake-ups. While nothing has woken the task since it looked, and no
  source has finished in this pass, the workers it has polled are settled, and the
  receiver it stopped at is still empty and has a waker in its channel (`PassOK`). So
  a task that goes to sleep unwoken has polled every worker and found a source that
  waits for its upstream. The only pass without a receiver is the first one, which is
  why the invariant also speaks of the cursor and of `seen` (`CursorOK`).
* `SentOK`, for records, is a balance per source: delivered, left out, in the channel
  and refused make up what the worker has counted (`CountRow`), because a failure
  comes last in a channel and a rejected item ends its call (`FlowRow`).
* `ToldOK`, for failures: what the consumer has been told, or will be, is what the
  metrics count. A strict stop may count more, and the diagnostics of the plan are
  about no source that runs.
* `StreamInv`, `HeardOK` and `CodeOK`, for the command: at most one event is unprinted; a
  failure names a selected source, so that no more fail than were selected; the
  state of the command is that of the events it has printed, and it is over as soon
  as these are a total failure.

### The order of a search

`OrderIsStable` says that for any number of sources, any scripts, slots and buffers,
and whatever the upstreams' timing, what a search has delivered is a prefix of the
reference, and all of it at the end. `OrderInv` is a simulation: at any time there is
a number `k` of merge steps such that the engine is where the merge is after `k` of
them (`Tracks`). Tracking means four things. The output is that of the merge, with the
diagnostics of the plan not yet delivered put after it; the dedupe keys are the same;
the running sources, those that wait and the cursor are the merge's `active`, `waiting`
and `turn`; and for every running source, the events merged and those in its channel
together are what its worker has sent, in the order of its stream (`OrderRow`), where
the worker has got to in its items is what it has sent (`WorkRow`), and it stops at
the same item at which `EventsOf` cuts. A step of a worker moves an event from the
unsent to the channel and leaves the merge alone; a step of the driver that takes an
event, or gives up an exhausted source, is one step of the merge; all the rest, and
above all every time at which the driver *waits* although other channels are full,
leaves both alone. The end needs one more argument, that `MergeSteps` are enough: a
step of the merge that changes anything either merges an event or removes a source,
each at most once (`Cells` counts what has happened), so a merge with a source left
has not made that many. `MergeGrows` gives the prefix.

### Fetch and follow commands

From `TargetsAssumption` (finitely many clients, lines on stdin that are targets, blank or
bad), `TargetsSpec` implies two theorems.

* `MetersAddUp` (`MetersBalance`): requests are successes, failures, cancellations and
  the calls that wait, for each source and operation. A step of a command changes the
  counters in one of four ways (`Fits`): it starts no call, starts one and counts a
  request, refuses one and counts request and failure, or ends the one it waits for
  and counts its outcome. Each keeps the balance, because a client waits for at most
  one call; an interrupted command is the one that counts its call as cancelled.
* `TargetsInOrder` (`StdinInOrder`): the targets among the lines read so far are those
  done, the one at work and those in the channel, in their order (`Ordered`), while
  the reader is reading, blocked with two items sent, or has ended (`Channel`); a bad
  line is the last item it sends. While the command works no target has failed
  (`Works`); when it stops, what it did agrees with its exit code (`Fine`), and the
  reader, which may go on, no longer matters.

### Sources and the conformance suite

`WaitsAreHonoured` is the action property `RefusalHonoured`, for any number of calls that
overlap, are dropped or fail. `CoolInv` says that what is left of the wait upstream
asked for last is never more than the cooldown (`promised[op] <= cool[op]`), for a
GitHub refusal without a time as for a Stack Exchange envelope with one
(`WaitsAreKept`); and a plan without refusal is made only while nothing cools down
(`PlansAskCooldown`), for each operation of the two sources that keep cooldowns. Its one
hypothesis, `WiresStateWaits`, is that a response states a wait as a number of seconds
or states none.

`RecordsLeadBack` (`ThreadClosed`) and `FollowsHoldPages` (`FollowPages`) are about what
callers get, and need a description of what upstreams hold and answer. It is the
hypothesis `UpstreamIsHonest`, in three parts. `SoundObjects`: an object has one name, a
GitHub object the address of its thread and a place of its own in the order of its
upstream (`at`), a plain issue no reviews, an answer the
question it was posted to, a Hacker News item distinct kids. `RightTargets`: callers do
not call a discussion an issue. `Honest`: a response that the source takes for good holds
what was asked for, of the replies to a thread the page that was asked for (`PageOf`:
the first so many in the upstream's order); every other response, at any moment, may be any failure. Nothing is
supposed about the order of answers, the number of calls, or which of them time out,
are dropped or wait for how long. TLC evaluates the same formulas on the world of the
`Sources` run, for the requests its calls make (`UpstreamsAsSupposed` in `MCSources`), so
they are not contradictory and are what the run explores. `StatesWaits` is checked there too.

* `RecordsLeadBack` rests on `ClosedInv`: every record in the hands of a caller is the
  normal form of an object of that source (`Known`), which each source's answers
  preserve (`GitHubAnswers`, `StackAnswers`, `HackerNewsAnswers`). A record passed on as a
  target then parses to its own thread (`GitHubLeadsBack`, `StackLeadsBack`,
  `HackerNewsLeadsBack`).
* GitHub is asked for one page of each kind of replies (`Page`, 50 of them), and never for
  the next. `FollowPages` says so: a follow that is not one error holds the first page of
  the comments, of the reviews and of the review comments of its thread, all of them if
  they are no more, and nothing else. A longer thread is cut, and the caller is not
  told. docs/sources.md:14 calls this "a bounded page of up to 50 related objects"; of a
  pull request there are up to three such pages. A result is therefore *not* the whole
  discussion, and no property claims it.
* `FollowsHoldPages` holds for any bound and any length of threads, and rests on `FollowInv`.
  A follow on GitHub either still asks whether its number is a pull request (`GhAsks`), or
  the replies that have come and those its remaining requests will bring are together
  the first pages of the thread (`GhReads`); a follow on Hacker News has an outcome for each kid it has asked for and a request for each other
  one, in order (`HnReads`). That no request is made twice is said of the whole course of
  a call, the requests sent and those still to send (`GoodCourse`), because only then
  an answer that adds none keeps it.

`ReportsAreSound` holds of every source under test and every catalog (`SuiteAssumption` only
fixes the shape of streams). `SuiteInv` says what the suite knows at each of its
awaits: before the second search one sound stream, afterwards two that agree, a flag
only for what the source did (`FlagsEarned`), and during the cancellation check a
ledger with one request open exactly if the source was reached. That is why a
balanced ledger afterwards means that the pending request was dropped.

### Services

For every limit, every body and every set of public addresses, `ExchangeSpec`
implies `ImplementsBoundedRead` (the exchange implements `BoundedRead`),
`LeavesNoRequest` and `ConnectsToPublic`. They rest on `ExchangeInv`, which says what
each phase means: until an exchange is over its guard is armed, or it is a request
of the platform, so that every way to end it closes what is open; bytes held are
within the limit and the body; what was pinned is public. `StepKeepsInv` has a case
per action, and the refinement maps each action to a step of `BoundedRead` or a
stutter: `Chunk` to `Take` or `Refuse`, `Finish` to `Deliver` or `Fail`, `Headers` to
`Refuse` or nothing.

For any number of processes and calls on one database file (`FileAssumption`),
`MigratesOnce`, `DeletionsAreFinal` and `OnlyWritersCreate` rest on `FileInv`. Its core is `Locks`:
who has read the schema version, to decide about a migration, keeps others from
changing it, a reader by its SHARED lock and the writer by being the only one.
`Applied`, `Created` and `Deletions` are the consequences.

For any requests, tenants and deployments (`WorkerAssumption`), `AccessIsControlled` rests on
`WorkerInv`: a request acts for the tenant of its bearer token under the deployment it
came to, every watch belongs to the tenant of the request that added it, and the
catalog of an isolate is of its own deployment.

`NobodyStarves` is about the rotation (`RotationAssumption`): a healthy tenant with a due
watch is served within `N` invocations for `N` tenants, whichever others fail and
however small the claim limit is. `Turns` says how far the rotation is from a tenant:
it has waited for fewer invocations than have begun since its own turn (`Since`), and
in its own turn it is the first one visited, before any claim is used up.

### Only model-checked

* Liveness (`DueWatchRuns`, `DeliverySettles`, `CloudDueWatchRuns`, `QueueDrains`, `CommandEnds`): fairness and
  ENABLED are beyond the prover.
* `WalkCorrect`: the walk over a schema is recursive over a document, and what it
  computes for every document is an induction over data.

## Not modelled

* `upsert_source` (a table nothing reads), the read-only queries, and snippets of
  Code Mode (single statements on a table of their own).
* The lifecycle of a Code Mode execution (pause, replay, approval, rollback), the
  tool catalog, the MCP server and agent plugins: the incurs library, which is not
  in the repository. Where the code depends on it, any answer is possible.
* Several tenants in the schedulers: all statements are keyed by tenant.
  `TenantRotation` and `WorkerRequest` are about what several tenants share.
* Scheduled deliveries over several tenants: the same rotation, one attempt each.
* `WATCH_CLAIM_LIMIT` 0, which the worker accepts and which stops all claims.
* Proxies of the environment: the HTTP client does not disable them
  (`http_client.rs:137`), and with one the address that was checked is not the one the
  connection goes to. `ConnectedPublic` is about direct connections.
* A Content-Length that is wrong: a body has a right one or none.
* The bound of a page of Stack Exchange answers (`RecordsLeadBack` needs none).
* Whether a tenant keeps its watches when its token is rotated: `AccessControl` says who
  may see a watch, not that it stays.
* A clock that runs backwards, and times beyond 64 bits.
* Collisions of the hashed delivery id; the hash fallbacks of identities.
* Titles, texts, authors and dates of records; the byte-level formats of URLs,
  timestamps, tokens and tenant ids (one value of each kind the code tells apart).
* A source without search in a search of all sources: it counts as expected
  (`selected_source_count`) but is never planned.
* Telemetry, output formats, the landing page, the example source, and the
  repository's own tooling.

## Plan

Done: all modules above. What could follow is a run in which searches outlast every
lease, and the shared `records` table under two watches.
