---------------------------- MODULE Engine_proofs ----------------------------
(***************************************************************************)
(* Proofs about the search engine: for any number of sources, any scripts, *)
(* channel size and concurrency limit, and any timing of the upstreams.    *)
(***************************************************************************)
EXTENDS RecordStream, TLAPS, SequenceTheorems, FiniteSetTheorems

-----------------------------------------------------------------------------
(* What the driver and its workers hold *)

WorkerPcs == {"none", "new", "call", "io", "final", "closing", "done", "dropped"}

\* A source that has a worker.
Started == {"new", "call", "io", "final", "closing", "done"}

WorkerRow ==
  [pc : WorkerPcs, next : Nat \ {0}, count : Nat, err : BOOLEAN, parked : BOOLEAN, rested : BOOLEAN]

MeterRow ==
  [requests : Nat, successes : Nat, failures : Nat, cancelled : Nat, emitted : Nat,
   deduplicated : Nat]

DriverRow ==
  [pc : {"rest", "drain", "workers", "drain2", "asleep", "ended", "dropped"},
   at : Nat \ {0}, progressed : BOOLEAN, cursor : Nat \ {0}]

Event ==
  [type : {"record"}, source : Sources, record : Records \cup {BAD}]
    \cup [type : {"failed"}, source : Sources \cup STRING]

EngineTypes ==
  /\ request \in [strict : BOOLEAN, missing : MissingIds, script : [Sources -> Scripts]]
  /\ initial \in Seq(Event)
  /\ pending \in Seq(Sources)
  /\ running \in Seq(Sources)
  /\ worker \in [Sources -> WorkerRow]
  /\ queue \in [Sources -> Seq(Event)]
  /\ armed \subseteq Sources
  /\ driver \in DriverRow
  /\ woken \in BOOLEAN
  /\ metrics \in [Sources -> MeterRow]
  /\ out \in Seq(Event)

\* No source is planned or runs twice, and none that is planned has a worker.
Distinct(list) == \A i, j \in 1..Len(list) : list[i] = list[j] => i = j

PlanOK ==
  /\ Distinct(pending) /\ Distinct(running)
  /\ \A i \in 1..Len(pending) : worker[pending[i]].pc = "none"
  /\ \A s \in Sources : worker[s].pc \in Started \ {"done"} => s \in ToSet(running)
  /\ \A i \in 1..Len(running) : worker[running[i]].pc \in Started
  /\ Len(running) <= MaxActive
  /\ At("ended") \/ At("dropped") => running = <<>>

\* A channel is over its buffer exactly while its sender is parked, and a source
\* without a worker has nothing in it.
ChannelOK ==
  \A s \in Sources :
    /\ worker[s].parked => Len(queue[s]) = EventBuffer + 1
    /\ ~worker[s].parked => Len(queue[s]) <= EventBuffer
    /\ worker[s].pc = "none" => queue[s] = <<>> /\ ~worker[s].parked
    /\ s \notin ToSet(running) => queue[s] = <<>>

\* A request is counted when it begins, and its outcome when its guard goes.
GuardOK ==
  \A s \in Sources :
    LET m == metrics[s]
    IN  /\ worker[s].pc \in {"none", "new"} => m.requests = 0
        /\ m.requests <= 1
        /\ m.requests
             = m.successes + m.failures + m.cancelled + (IF GuardHeld(s) THEN 1 ELSE 0)

EngineInv == EngineTypes /\ PlanOK /\ ChannelOK /\ GuardOK

\* The worker of s can do nothing until it is woken.
Settled(s) == worker[s].parked \/ worker[s].pc \in {"io", "done"}

\* Polling the workers, or looking at the channels afterwards.
Pass == At("workers") \/ At("drain2")

\* The cursor points at a receiver, also when the first sources start.
CursorOK ==
  /\ running # <<>> => driver.cursor <= Len(running)
  /\ running = <<>> /\ pending # <<>> /\ ~At("dropped") => seen = {} /\ driver.cursor = 1

\* While nothing has woken the task since it looked, and no source has finished in
\* this pass, the workers it has polled are settled, and the receiver it stopped at
\* has still nothing and has a waker in its channel; only in the very first pass
\* there is no receiver yet, and nothing seen.
PassOK ==
  /\ Pass /\ running = <<>> => pending = <<>>
  /\ At("workers") /\ ~woken =>
       \A i \in 1..Len(running) : i < driver.at => Settled(running[i])
  /\ At("drain2") /\ ~woken /\ ~driver.progressed =>
       \A i \in 1..Len(running) : Settled(running[i])
  /\ Pass /\ ~woken /\ ~driver.progressed /\ running # <<>> =>
       /\ worker[Current].pc # "done"
       /\ seen = {} \/ (queue[Current] = <<>> /\ Current \in armed)

WakeOK == CursorOK /\ PassOK /\ NoLostWakeup

\* A rejected item ends the call; a failure comes last in a channel.
FlowRow(s, script, w, q) ==
  /\ w.pc \in {"none", "new"} => w.count = 0 /\ ~w.err
  /\ w.err /\ w.pc \in {"call", "io", "final"} =>
       w.next > Len(IF w.pc = "final" THEN script.data ELSE script.chunks)
  /\ \A i \in 1..Len(q) :
       /\ q[i].source = s
       /\ i < Len(q) => q[i].type = "record"
       /\ q[i].type = "failed" => w.pc \in {"closing", "done"}

\* Everything else a worker has counted is in the channel, delivered or left out.
Refusals(w) == IF w.err THEN 1 ELSE 0
Failures(q) == IF q # <<>> /\ q[Len(q)].type = "failed" THEN 1 ELSE 0
CountRow(m, w, q) ==
  m.emitted + m.deduplicated + Len(q) + Refusals(w) = w.count + Failures(q)

SentOK ==
  \A s \in Sources :
    /\ FlowRow(s, request.script[s], worker[s], queue[s])
    /\ ~request.strict /\ ~At("dropped") => CountRow(metrics[s], worker[s], queue[s])

\* The failures a consumer has been told of, or will be, are the ones that are counted.
Told(s, o, q) == Failed(s) \in ToSet(o) \cup ToSet(q)

ToldOK ==
  /\ \A i \in 1..Len(initial) : initial[i].type = "failed" /\ initial[i].source \notin Sources
  /\ \A s \in Sources :
       /\ Told(s, out, queue[s]) => metrics[s].failures + metrics[s].cancelled = 1
       /\ ~request.strict /\ ~At("dropped") /\ metrics[s].failures + metrics[s].cancelled > 0
            => Told(s, out, queue[s])

\* Only sources of the plan run, and the diagnostics name the ids that are missing.
Selected == ToSet(Order) \cup ToSet(request.missing)

HeardOK ==
  /\ ToSet(pending) \subseteq ToSet(Order) /\ ToSet(running) \subseteq ToSet(Order)
  /\ \A e \in ToSet(initial) : e.source \in ToSet(request.missing)
  /\ \A e \in ToSet(out) : e.type = "failed" => e.source \in Selected

\* The command knows what it has printed, and is over as soon as that is a total failure.
StateRow == [saw_record : BOOLEAN, failed_sources : SUBSET (Sources \cup STRING), printed : Nat]

CodeOK ==
  /\ state \in StateRow
  /\ state.saw_record <=> \E i \in 1..state.printed : out[i].type = "record"
  /\ \A x : x \in state.failed_sources <=>
            \E i \in 1..state.printed : out[i].type = "failed" /\ out[i].source = x
  /\ ~request.strict => exit \in {RUNNING, 0, 1} /\ (Terminal(state) <=> exit = 1)

-----------------------------------------------------------------------------
(* Lists *)

\* Taking the first n elements of a list and leaving the rest.
LEMMA SplitFacts ==
  ASSUME NEW S, NEW q \in Seq(S), NEW n \in Nat
  PROVE  /\ FirstOf(q, n) \in Seq(S) /\ RestOf(q, n) \in Seq(S)
         /\ Len(FirstOf(q, n)) = IF n < Len(q) THEN n ELSE Len(q)
         /\ \A i \in 1..Len(FirstOf(q, n)) : FirstOf(q, n)[i] = q[i]
         /\ Len(RestOf(q, n)) = IF n < Len(q) THEN Len(q) - n ELSE 0
         /\ \A i \in 1..Len(RestOf(q, n)) : RestOf(q, n)[i] = q[i + n]
<1>1. FirstOf(q, n) \in Seq(S) /\ RestOf(q, n) \in Seq(S)
  BY DEF FirstOf, RestOf
<1>2. Len(FirstOf(q, n)) = IF n < Len(q) THEN n ELSE Len(q)
  BY DEF FirstOf
<1>3. \A i \in 1..Len(FirstOf(q, n)) : FirstOf(q, n)[i] = q[i]
  BY DEF FirstOf
<1>4. Len(RestOf(q, n)) = IF n < Len(q) THEN Len(q) - n ELSE 0
  BY DEF RestOf
<1>5. \A i \in 1..Len(RestOf(q, n)) : RestOf(q, n)[i] = q[i + n]
  BY <1>4 DEF RestOf
<1> QED
  BY <1>1, <1>2, <1>3, <1>4, <1>5

\* start_ready_sources fills the free slots in the order of the plan.
LEMMA StartFacts ==
  ASSUME EngineTypes, NEW list \in Seq(Sources), Len(list) <= MaxActive,
         StartReadySources(list)
  PROVE  \E k \in 0..Len(pending) :
           /\ running' \in Seq(Sources) /\ pending' \in Seq(Sources)
           /\ Len(running') = Len(list) + k /\ Len(running') <= MaxActive
           /\ \A i \in 1..Len(list) : running'[i] = list[i]
           /\ \A i \in 1..k : running'[i + Len(list)] = pending[i]
           /\ Len(pending') = Len(pending) - k
           /\ \A i \in 1..Len(pending') : pending'[i] = pending[i + k]
           /\ list = <<>> /\ pending # <<>> => k > 0
           /\ worker' \in [Sources -> WorkerRow]
           /\ \A i \in 1..k : worker'[pending[i]] = NewWorker("new")
           /\ \A s \in Sources : (\A i \in 1..k : s # pending[i]) => worker'[s] = worker[s]
<1> DEFINE n == Room(list)
           starting == FirstOf(pending, n)
           k == Len(starting)
<1>1. MaxActive \in Nat \ {0} /\ Len(list) \in Nat /\ pending \in Seq(Sources)
  BY EngineAssumption DEF EngineTypes
<1>2. n \in Nat /\ n + Len(list) <= MaxActive /\ (Len(list) = 0 => n > 0)
  BY <1>1 DEF Room
<1> HIDE DEF n
<1>3. /\ starting \in Seq(Sources) /\ RestOf(pending, n) \in Seq(Sources)
      /\ k = IF n < Len(pending) THEN n ELSE Len(pending)
      /\ \A i \in 1..k : starting[i] = pending[i]
      /\ Len(RestOf(pending, n)) = IF n < Len(pending) THEN Len(pending) - n ELSE 0
      /\ \A i \in 1..Len(RestOf(pending, n)) : RestOf(pending, n)[i] = pending[i + n]
  BY <1>1, <1>2, SplitFacts
<1>4. /\ running' = list \o starting /\ pending' = RestOf(pending, n)
      /\ worker' = [s \in Sources |-> IF s \in ToSet(starting) THEN NewWorker("new")
                                      ELSE worker[s]]
  BY DEF StartReadySources, n
<1> HIDE DEF starting
<1>5. k \in 0..Len(pending) /\ k <= n
  BY <1>1, <1>2, <1>3
<1>6. /\ running' \in Seq(Sources) /\ Len(running') = Len(list) + k
      /\ \A i \in 1..Len(list) : running'[i] = list[i]
      /\ \A i \in 1..k : running'[i + Len(list)] = pending[i]
  <2>1. /\ list \o starting \in Seq(Sources)
        /\ Len(list \o starting) = Len(list) + Len(starting)
        /\ \A i \in 1..(Len(list) + Len(starting)) :
             (list \o starting)[i] = IF i <= Len(list) THEN list[i] ELSE starting[i - Len(list)]
    <3>1. list \in Seq(Sources) /\ starting \in Seq(Sources)
      BY <1>3
    <3> QED
      BY <3>1, ConcatProperties, Zenon
  <2>2. \A i \in 1..Len(list) : running'[i] = list[i]
    BY <1>1, <1>4, <1>5, <2>1
  <2>3. \A i \in 1..k : running'[i + Len(list)] = pending[i]
    <3> SUFFICES ASSUME NEW i \in 1..k
                 PROVE  running'[i + Len(list)] = pending[i]
      OBVIOUS
    <3>1. i + Len(list) \in 1..(Len(list) + k) /\ ~(i + Len(list) <= Len(list))
          /\ (i + Len(list)) - Len(list) = i
      BY <1>1, <1>5
    <3>2. running'[i + Len(list)] = starting[(i + Len(list)) - Len(list)]
      BY <1>4, <2>1, <3>1
    <3> QED
      BY <1>3, <3>1, <3>2
  <2> QED
    BY <1>4, <2>1, <2>2, <2>3
<1>7. Len(running') <= MaxActive
  BY <1>1, <1>2, <1>5, <1>6
<1>8. /\ Len(pending') = Len(pending) - k
      /\ \A i \in 1..Len(pending') : pending'[i] = pending[i + k]
  <2>1. CASE n < Len(pending)
    <3>1. k = n
      BY <1>3, <2>1
    <3> QED
      BY <1>3, <1>4, <2>1, <3>1
  <2>2. CASE ~(n < Len(pending))
    <3>1. k = Len(pending) /\ Len(pending') = 0
      BY <1>3, <1>4, <2>2
    <3> QED
      BY <1>1, <3>1
  <2> QED
    BY <2>1, <2>2
<1>9. list = <<>> /\ pending # <<>> => k > 0
  BY <1>1, <1>2, <1>3
<1>10. NewWorker("new") \in WorkerRow
  BY DEF NewWorker, WorkerRow, WorkerPcs
<1>11. worker' \in [Sources -> WorkerRow]
  BY <1>4, <1>10 DEF EngineTypes
<1>12. ToSet(starting) = {pending[i] : i \in 1..k}
  <2>1. DOMAIN starting = 1..k
    BY <1>3
  <2> QED
    BY <1>3, <2>1 DEF ToSet
<1>13. \A i \in 1..k : pending[i] \in Sources
  BY <1>1, <1>5
<1>14. /\ \A i \in 1..k : worker'[pending[i]] = NewWorker("new")
       /\ \A s \in Sources : (\A i \in 1..k : s # pending[i]) => worker'[s] = worker[s]
  BY <1>4, <1>12, <1>13
<1> QED
  BY <1>3, <1>4, <1>5, <1>6, <1>7, <1>8, <1>9, <1>11, <1>14

\* The elements of a list.
LEMMA Elements ==
  ASSUME NEW S, NEW q \in Seq(S)
  PROVE  /\ ToSet(q) = {q[i] : i \in 1..Len(q)} /\ ToSet(q) \subseteq S
         /\ Len(q) \in Nat /\ (q = <<>> <=> Len(q) = 0)
         /\ \A i \in 1..Len(q) : q[i] \in S /\ q[i] \in ToSet(q)
<1>1. DOMAIN q = 1..Len(q) /\ Len(q) \in Nat
  OBVIOUS
<1>2. \A i \in 1..Len(q) : q[i] \in S
  OBVIOUS
<1>3. q = <<>> <=> Len(q) = 0
  BY EmptySeq
<1> QED
  BY <1>1, <1>2, <1>3 DEF ToSet

\* Sending adds an element at the end.
LEMMA AppendFacts ==
  ASSUME NEW S, NEW q \in Seq(S), NEW e \in S
  PROVE  /\ Append(q, e) \in Seq(S) /\ Len(Append(q, e)) = Len(q) + 1
         /\ \A i \in 1..Len(q) : Append(q, e)[i] = q[i]
         /\ Append(q, e)[Len(q) + 1] = e
         /\ ToSet(Append(q, e)) = ToSet(q) \cup {e}
<1>1. /\ Append(q, e) \in Seq(S) /\ Len(Append(q, e)) = Len(q) + 1 /\ Len(q) \in Nat
      /\ \A i \in 1..Len(q) : Append(q, e)[i] = q[i]
      /\ Append(q, e)[Len(q) + 1] = e
  OBVIOUS
<1>2. /\ ToSet(Append(q, e)) = {Append(q, e)[i] : i \in 1..(Len(q) + 1)}
      /\ ToSet(q) = {q[i] : i \in 1..Len(q)}
  BY <1>1, Elements
<1>3. 1..(Len(q) + 1) = 1..Len(q) \cup {Len(q) + 1}
  BY <1>1
<1>4. ToSet(Append(q, e)) = ToSet(q) \cup {e}
  BY <1>1, <1>2, <1>3
<1> QED
  BY <1>1, <1>4

\* Receiving takes the first element.
LEMMA TailFacts ==
  ASSUME NEW S, NEW q \in Seq(S), q # <<>>
  PROVE  /\ Tail(q) \in Seq(S) /\ Len(q) \in Nat \ {0} /\ Len(Tail(q)) = Len(q) - 1
         /\ Head(q) = q[1] /\ Head(q) \in S
         /\ \A i \in 1..Len(Tail(q)) : Tail(q)[i] = q[i + 1]
         /\ ToSet(q) = ToSet(Tail(q)) \cup {Head(q)}
<1>1. /\ Tail(q) \in Seq(S) /\ Len(Tail(q)) = Len(q) - 1 /\ Head(q) \in S
      /\ \A i \in 1..Len(Tail(q)) : Tail(q)[i] = q[i + 1]
  BY HeadTailProperties
<1>2. Len(q) \in Nat \ {0}
  BY Elements
<1>3. Head(q) = q[1]
  OBVIOUS
<1>4. /\ ToSet(q) = {q[i] : i \in 1..Len(q)}
      /\ ToSet(Tail(q)) = {Tail(q)[i] : i \in 1..(Len(q) - 1)}
  BY <1>1, Elements
<1>5. ToSet(Tail(q)) = {q[i + 1] : i \in 1..(Len(q) - 1)}
  BY <1>1, <1>4
<1>6. \A j \in 1..Len(q) : j = 1 \/ (j - 1 \in 1..(Len(q) - 1) /\ j = (j - 1) + 1)
  BY <1>2
<1>7. \A i \in 1..(Len(q) - 1) : i + 1 \in 1..Len(q)
  BY <1>2
<1>8. ToSet(q) = ToSet(Tail(q)) \cup {q[1]}
  <2>1. 1 \in 1..Len(q)
    BY <1>2
  <2>2. ToSet(q) \subseteq ToSet(Tail(q)) \cup {q[1]}
    BY <1>4, <1>5, <1>6
  <2>3. ToSet(Tail(q)) \cup {q[1]} \subseteq ToSet(q)
    BY <1>4, <1>5, <1>7, <2>1
  <2> QED
    BY <2>2, <2>3
<1> QED
  BY <1>1, <1>2, <1>3, <1>8

\* A source that leaves the list of running ones leaves the others in their order.
LEMMA RemoveFacts ==
  ASSUME NEW S, NEW q \in Seq(S), NEW n \in 1..Len(q)
  PROVE  /\ RemoveAt(q, n) \in Seq(S) /\ Len(RemoveAt(q, n)) = Len(q) - 1
         /\ \A i \in 1..(Len(q) - 1) : RemoveAt(q, n)[i] = IF i < n THEN q[i] ELSE q[i + 1]
<1> DEFINE a == SubSeq(q, 1, n - 1)
           b == SubSeq(q, n + 1, Len(q))
<1>1. Len(q) \in Nat /\ n \in Nat /\ 1 <= n /\ n <= Len(q)
  BY Elements
<1>2. /\ a \in Seq(S) /\ Len(a) = n - 1
      /\ \A i \in 1..(n - 1) : a[i] = q[i]
  BY <1>1
<1>3. /\ b \in Seq(S) /\ Len(b) = Len(q) - n
      /\ \A i \in 1..(Len(q) - n) : b[i] = q[i + n]
  <2>1. \A i \in (n + 1)..Len(q) : q[i] \in S
    BY <1>1
  <2>2. /\ b \in Seq(S)
        /\ Len(b) = IF n + 1 <= Len(q) THEN Len(q) - (n + 1) + 1 ELSE 0
        /\ \A i \in 1..(Len(q) - (n + 1) + 1) : b[i] = q[(n + 1) + i - 1]
    BY <1>1, <2>1, SubSeqProperties
  <2>3. Len(q) - (n + 1) + 1 = Len(q) - n /\ \A i \in 1..(Len(q) - n) : (n + 1) + i - 1 = i + n
    BY <1>1
  <2> HIDE DEF b
  <2>4. Len(b) = Len(q) - n
    BY <1>1, <2>2
  <2>5. \A i \in 1..(Len(q) - n) : b[i] = q[i + n]
    BY <2>2, <2>3
  <2> QED
    BY <2>2, <2>4, <2>5
<1>4. RemoveAt(q, n) = a \o b
  BY DEF RemoveAt
<1> HIDE DEF a, b
<1>5. /\ a \o b \in Seq(S) /\ Len(a \o b) = Len(a) + Len(b)
      /\ \A i \in 1..(Len(a) + Len(b)) :
           (a \o b)[i] = IF i <= Len(a) THEN a[i] ELSE b[i - Len(a)]
  <2>1. a \in Seq(S) /\ b \in Seq(S)
    BY <1>2, <1>3
  <2> QED
    BY <2>1, ConcatProperties, Zenon
<1>6. Len(a) + Len(b) = Len(q) - 1
  BY <1>1, <1>2, <1>3
<1>7. ASSUME NEW i \in 1..(Len(q) - 1)
      PROVE  (a \o b)[i] = IF i < n THEN q[i] ELSE q[i + 1]
  <2>0. i \in 1..(Len(a) + Len(b))
    BY <1>6
  <2>1. CASE i < n
    <3>1. i <= Len(a) /\ i \in 1..(n - 1)
      BY <1>1, <1>2, <2>1
    <3> QED
      BY <1>2, <1>5, <2>0, <2>1, <3>1
  <2>2. CASE ~(i < n)
    <3>1. ~(i <= Len(a)) /\ i - Len(a) \in 1..(Len(q) - n) /\ (i - Len(a)) + n = i + 1
      BY <1>1, <1>2, <2>2
    <3> QED
      BY <1>3, <1>5, <2>0, <2>2, <3>1
  <2> QED
    BY <2>1, <2>2
<1> QED
  BY <1>4, <1>5, <1>6, <1>7

-----------------------------------------------------------------------------
(* The kinds of steps *)

\* The driver row after a step within poll_next.
LEMMA DriverFacts ==
  ASSUME EngineTypes,
         NEW p \in {"rest", "drain", "workers", "drain2", "asleep", "ended", "dropped"}
  PROVE  /\ [driver EXCEPT !.pc = p] \in DriverRow
         /\ [driver EXCEPT !.pc = p].pc = p
         /\ [driver EXCEPT !.pc = p].cursor = driver.cursor
         /\ [driver EXCEPT !.pc = p].progressed = driver.progressed
         /\ [driver EXCEPT !.pc = p].at = driver.at
BY DEF EngineTypes, DriverRow

\* The driver on its way through the workers.
LEMMA DriverPass ==
  ASSUME EngineTypes
  PROVE  /\ driver \in DriverRow /\ driver.at \in Nat \ {0} /\ driver.cursor \in Nat \ {0}
         /\ [driver EXCEPT !.at = @ + 1] \in DriverRow
         /\ [driver EXCEPT !.at = @ + 1].pc = driver.pc
         /\ [driver EXCEPT !.at = @ + 1].at = driver.at + 1
         /\ [driver EXCEPT !.at = @ + 1].cursor = driver.cursor
         /\ [driver EXCEPT !.at = @ + 1].progressed = driver.progressed
         /\ [driver EXCEPT !.at = @ + 1, !.progressed = TRUE] \in DriverRow
         /\ [driver EXCEPT !.at = @ + 1, !.progressed = TRUE].pc = driver.pc
         /\ [driver EXCEPT !.at = @ + 1, !.progressed = TRUE].at = driver.at + 1
         /\ [driver EXCEPT !.at = @ + 1, !.progressed = TRUE].cursor = driver.cursor
         /\ [driver EXCEPT !.at = @ + 1, !.progressed = TRUE].progressed = TRUE
         /\ [driver EXCEPT !.pc = "workers", !.at = 1, !.progressed = FALSE] \in DriverRow
         /\ [driver EXCEPT !.pc = "workers", !.at = 1, !.progressed = FALSE].pc = "workers"
         /\ [driver EXCEPT !.pc = "workers", !.at = 1, !.progressed = FALSE].at = 1
         /\ [driver EXCEPT !.pc = "workers", !.at = 1, !.progressed = FALSE].cursor
              = driver.cursor
<1>1. driver \in DriverRow
  BY DEF EngineTypes
<1>2. driver.at \in Nat \ {0} /\ driver.cursor \in Nat \ {0} /\ driver.at + 1 \in Nat \ {0}
  BY <1>1 DEF DriverRow
<1> DEFINE n == driver.at + 1
<1>3. [driver EXCEPT !.at = @ + 1] = [driver EXCEPT !.at = n]
  BY <1>1
<1>4. [driver EXCEPT !.at = @ + 1, !.progressed = TRUE]
        = [driver EXCEPT !.at = n, !.progressed = TRUE]
  BY <1>1, Zenon
<1>5. n \in Nat \ {0}
  BY <1>2
<1> HIDE DEF n
<1>6. /\ [driver EXCEPT !.at = n] \in DriverRow
      /\ [driver EXCEPT !.at = n].pc = driver.pc
      /\ [driver EXCEPT !.at = n].at = n
      /\ [driver EXCEPT !.at = n].cursor = driver.cursor
      /\ [driver EXCEPT !.at = n].progressed = driver.progressed
  BY <1>1, <1>5 DEF DriverRow
<1>7. /\ [driver EXCEPT !.at = n, !.progressed = TRUE] \in DriverRow
      /\ [driver EXCEPT !.at = n, !.progressed = TRUE].pc = driver.pc
      /\ [driver EXCEPT !.at = n, !.progressed = TRUE].at = n
      /\ [driver EXCEPT !.at = n, !.progressed = TRUE].cursor = driver.cursor
      /\ [driver EXCEPT !.at = n, !.progressed = TRUE].progressed = TRUE
  BY <1>1, <1>5 DEF DriverRow
<1>8. /\ [driver EXCEPT !.pc = "workers", !.at = 1, !.progressed = FALSE] \in DriverRow
      /\ [driver EXCEPT !.pc = "workers", !.at = 1, !.progressed = FALSE].pc = "workers"
      /\ [driver EXCEPT !.pc = "workers", !.at = 1, !.progressed = FALSE].at = 1
      /\ [driver EXCEPT !.pc = "workers", !.at = 1, !.progressed = FALSE].cursor
           = driver.cursor
  <2> DEFINE e == [driver EXCEPT !.pc = "workers", !.at = 1, !.progressed = FALSE]
  <2>1. /\ e.pc = "workers" /\ e.at = 1 /\ e.cursor = driver.cursor /\ e.progressed = FALSE
        /\ e = [i \in {"pc", "at", "progressed", "cursor"} |-> e[i]]
    BY <1>1 DEF DriverRow
  <2> HIDE DEF e
  <2>2. e = [pc |-> "workers", at |-> 1, progressed |-> FALSE, cursor |-> driver.cursor]
    BY <2>1
  <2>3. e \in DriverRow
    BY <1>2, <2>2 DEF DriverRow
  <2> QED
    BY <2>1, <2>3 DEF e
<1> QED
  BY <1>1, <1>2, <1>3, <1>4, <1>6, <1>7, <1>8 DEF n

\* A step that only moves the driver.
LEMMA DriverMoves ==
  ASSUME EngineInv, driver' \in DriverRow,
         driver'.pc \in {"ended", "dropped"} => running = <<>>,
         UNCHANGED <<pending, running, worker, queue, metrics>>
  PROVE  PlanOK' /\ ChannelOK' /\ GuardOK'
<1>1. PlanOK'
  BY DEF EngineInv, PlanOK, At, Distinct
<1>2. ChannelOK'
  BY DEF EngineInv, ChannelOK
<1>3. GuardOK'
  BY DEF EngineInv, GuardOK, GuardHeld
<1> QED
  BY <1>1, <1>2, <1>3

\* The worker of a running source takes a step and becomes w.
Moves(s, w) ==
  /\ s \in ToSet(running) /\ w \in WorkerRow /\ w.pc \in Started
  /\ worker' = [worker EXCEPT ![s] = w]
  /\ UNCHANGED <<pending, running>>
  /\ driver' \in DriverRow /\ driver'.pc = driver.pc

\* Of the workers, only that one has moved.
LEMMA MoveFacts ==
  ASSUME EngineInv, NEW s \in Sources, NEW w, Moves(s, w)
  PROVE  /\ worker' \in [Sources -> WorkerRow] /\ worker'[s] = w
         /\ \A r \in Sources : r # s => worker'[r] = worker[r]
         /\ PlanOK'
<1>1. /\ worker' \in [Sources -> WorkerRow] /\ worker'[s] = w
      /\ \A r \in Sources : r # s => worker'[r] = worker[r]
  BY DEF EngineInv, EngineTypes, Moves
<1>2. /\ pending' = pending /\ running' = running /\ pending \in Seq(Sources)
      /\ running \in Seq(Sources)
  BY DEF EngineInv, EngineTypes, Moves
<1>3. \E i \in 1..Len(running) : running[i] = s
  BY <1>2, Elements DEF Moves
<1>4. worker[s].pc # "none" /\ w.pc # "none"
  BY <1>3 DEF EngineInv, PlanOK, Started, Moves
<1>5. \A i \in 1..Len(pending) : worker'[pending[i]].pc = "none"
  <2> SUFFICES ASSUME NEW i \in 1..Len(pending)
               PROVE  worker'[pending[i]].pc = "none"
    OBVIOUS
  <2>1. pending[i] \in Sources /\ worker[pending[i]].pc = "none"
    BY <1>2, Elements DEF EngineInv, PlanOK
  <2> QED
    BY <1>1, <1>4, <2>1
<1>6. \A r \in Sources : worker'[r].pc \in Started \ {"done"} => r \in ToSet(running)
  BY <1>1 DEF EngineInv, PlanOK, Moves
<1>7. \A i \in 1..Len(running) : worker'[running[i]].pc \in Started
  <2> SUFFICES ASSUME NEW i \in 1..Len(running)
               PROVE  worker'[running[i]].pc \in Started
    OBVIOUS
  <2>1. running[i] \in Sources /\ worker[running[i]].pc \in Started
    BY <1>2, Elements DEF EngineInv, PlanOK
  <2> QED
    BY <1>1, <2>1 DEF Moves
<1>8. driver'.pc = driver.pc
  BY DEF Moves
<1> QED
  BY <1>1, <1>2, <1>5, <1>6, <1>7, <1>8 DEF EngineInv, PlanOK, At, Distinct

\* A worker that sends nothing leaves the channels alone.
LEMMA MoveKeepsChannels ==
  ASSUME EngineInv, NEW s \in Sources, NEW w, Moves(s, w), w.parked = worker[s].parked,
         UNCHANGED queue
  PROVE  ChannelOK'
<1>1. /\ worker'[s] = w /\ \A r \in Sources : r # s => worker'[r] = worker[r]
      /\ running' = running
  BY MoveFacts DEF Moves
<1>2. w.pc # "none"
  BY DEF Moves, Started
<1> QED
  BY <1>1, <1>2 DEF EngineInv, ChannelOK

\* A worker that sends an event is not parked, and is afterwards when the channel
\* is over its buffer.
LEMMA SendKeepsChannels ==
  ASSUME EngineInv, NEW s \in Sources, NEW w, NEW e \in Event, ~worker[s].parked,
         Moves(s, [w EXCEPT !.parked = Len(queue[s]) + 1 > EventBuffer]), w \in WorkerRow,
         queue' = [queue EXCEPT ![s] = Append(@, e)]
  PROVE  ChannelOK' /\ queue' \in [Sources -> Seq(Event)]
<1> DEFINE v == [w EXCEPT !.parked = Len(queue[s]) + 1 > EventBuffer]
<1>1. /\ worker'[s] = v /\ \A r \in Sources : r # s => worker'[r] = worker[r]
      /\ running' = running /\ s \in ToSet(running) /\ v.pc # "none"
  BY MoveFacts DEF Moves, Started
<1>2. v.parked <=> Len(queue[s]) + 1 > EventBuffer
  BY DEF WorkerRow
<1>3. queue[s] \in Seq(Event) /\ Len(queue[s]) \in Nat /\ EventBuffer \in Nat
      /\ Len(queue[s]) <= EventBuffer
  <2>1. queue[s] \in Seq(Event) /\ EventBuffer \in Nat
    BY EngineAssumption DEF EngineInv, EngineTypes
  <2>2. Len(queue[s]) \in Nat
    BY <2>1, Elements
  <2>3. Len(queue[s]) <= EventBuffer
    BY DEF EngineInv, ChannelOK
  <2> QED
    BY <2>1, <2>2, <2>3
<1>4. Append(queue[s], e) \in Seq(Event) /\ Len(Append(queue[s], e)) = Len(queue[s]) + 1
  BY <1>3, AppendFacts
<1>5. /\ queue' \in [Sources -> Seq(Event)] /\ queue'[s] = Append(queue[s], e)
      /\ \A r \in Sources : r # s => queue'[r] = queue[r]
  BY <1>4 DEF EngineInv, EngineTypes
<1> HIDE DEF v
<1>6. ASSUME NEW r \in Sources
      PROVE  /\ worker'[r].parked => Len(queue'[r]) = EventBuffer + 1
             /\ ~worker'[r].parked => Len(queue'[r]) <= EventBuffer
             /\ worker'[r].pc = "none" => queue'[r] = <<>> /\ ~worker'[r].parked
             /\ r \notin ToSet(running) => queue'[r] = <<>>
  <2>1. CASE r = s
    <3>1. /\ v.parked => Len(queue[s]) + 1 = EventBuffer + 1
          /\ ~v.parked => Len(queue[s]) + 1 <= EventBuffer
      BY <1>2, <1>3
    <3> QED
      BY <1>1, <1>4, <1>5, <2>1, <3>1
  <2>2. CASE r # s
    BY <1>1, <1>5, <2>2 DEF EngineInv, ChannelOK
  <2> QED
    BY <2>1, <2>2
<1> QED
  BY <1>1, <1>5, <1>6 DEF ChannelOK

\* The counters of a source that keep the balance for pc p.
Balanced(m, p) ==
  /\ p \in {"none", "new"} => m.requests = 0
  /\ m.requests <= 1
  /\ m.requests = m.successes + m.failures + m.cancelled
                    + (IF p \in {"call", "io", "final"} THEN 1 ELSE 0)

\* GuardOK, source by source.
LEMMA GuardRows == GuardOK <=> \A s \in Sources : Balanced(metrics[s], worker[s].pc)
BY Zenon DEF GuardOK, Balanced, GuardHeld

\* A worker moves, and its counters with it.
LEMMA MoveKeepsGuards ==
  ASSUME EngineInv, NEW s \in Sources, NEW w, Moves(s, w), NEW m \in MeterRow,
         metrics' = [metrics EXCEPT ![s] = m], Balanced(m, w.pc)
  PROVE  GuardOK' /\ metrics' \in [Sources -> MeterRow]
<1>1. worker'[s] = w /\ \A r \in Sources : r # s => worker'[r] = worker[r]
  BY MoveFacts
<1>2. /\ metrics' \in [Sources -> MeterRow] /\ metrics'[s] = m
      /\ \A r \in Sources : r # s => metrics'[r] = metrics[r]
  BY DEF EngineInv, EngineTypes
<1>3. \A r \in Sources : Balanced(metrics[r], worker[r].pc)
  BY GuardRows DEF EngineInv
<1>4. \A r \in Sources : Balanced(metrics'[r], worker'[r].pc)
  BY <1>1, <1>2, <1>3
<1>5. GuardOK' <=> \A r \in Sources : Balanced(metrics'[r], worker'[r].pc)
  BY Zenon DEF GuardOK, Balanced, GuardHeld
<1> QED
  BY <1>2, <1>4, <1>5

\* Sources start in the slots that finished ones have left.
LEMMA StartKeeps ==
  ASSUME EngineInv, NEW list \in Seq(Sources), Len(list) <= MaxActive,
         StartReadySources(list), Distinct(list),
         ToSet(list) \subseteq ToSet(running),
         \A s \in ToSet(running) \ ToSet(list) : worker[s].pc = "done" /\ queue[s] = <<>>,
         driver' \in DriverRow, driver'.pc \notin {"ended", "dropped"},
         UNCHANGED <<queue, metrics>>
  PROVE  /\ running' \in Seq(Sources) /\ pending' \in Seq(Sources)
         /\ worker' \in [Sources -> WorkerRow]
         /\ PlanOK' /\ ChannelOK' /\ GuardOK'
<1>1. PICK k \in 0..Len(pending) :
           /\ running' \in Seq(Sources) /\ pending' \in Seq(Sources)
           /\ Len(running') = Len(list) + k /\ Len(running') <= MaxActive
           /\ \A i \in 1..Len(list) : running'[i] = list[i]
           /\ \A i \in 1..k : running'[i + Len(list)] = pending[i]
           /\ Len(pending') = Len(pending) - k
           /\ \A i \in 1..Len(pending') : pending'[i] = pending[i + k]
           /\ list = <<>> /\ pending # <<>> => k > 0
           /\ worker' \in [Sources -> WorkerRow]
           /\ \A i \in 1..k : worker'[pending[i]] = NewWorker("new")
           /\ \A s \in Sources : (\A i \in 1..k : s # pending[i]) => worker'[s] = worker[s]
  BY StartFacts DEF EngineInv
<1>2. /\ Len(list) \in Nat /\ Len(pending) \in Nat /\ k \in Nat /\ k <= Len(pending)
      /\ pending \in Seq(Sources) /\ running \in Seq(Sources)
  BY Elements DEF EngineInv, EngineTypes
<1>3. /\ Distinct(pending) /\ Distinct(running)
      /\ \A i \in 1..Len(pending) : worker[pending[i]].pc = "none" /\ pending[i] \in Sources
      /\ \A s \in Sources : worker[s].pc \in Started \ {"done"} => s \in ToSet(running)
      /\ \A i \in 1..Len(running) : worker[running[i]].pc \in Started
  BY <1>2, Elements DEF EngineInv, PlanOK
<1>4. \A s \in ToSet(running) :
        s \in Sources /\ worker[s].pc \in Started /\ worker[s].pc # "none"
  <2>1. \A s \in ToSet(running) : s \in Sources /\ \E i \in 1..Len(running) : s = running[i]
    BY <1>2, Elements
  <2>2. "none" \notin Started
    BY DEF Started
  <2> QED
    BY <1>3, <2>1, <2>2
<1>5. \A i \in 1..Len(list) : list[i] \in Sources /\ list[i] \in ToSet(running)
  BY Elements
<1>6. \A i \in 1..Len(list), j \in 1..Len(pending) : list[i] # pending[j]
  BY <1>3, <1>4, <1>5
<1>7. NewWorker("new").pc = "new" /\ NewWorker("new").parked = FALSE
  BY DEF NewWorker
<1>8. \A i \in 1..Len(running') : \/ i \in 1..Len(list)
                                  \/ i - Len(list) \in 1..k /\ i = (i - Len(list)) + Len(list)
  BY <1>1, <1>2
<1>9. \A i \in 1..Len(running') : \/ i \in 1..Len(list) /\ running'[i] = list[i]
                                  \/ /\ i - Len(list) \in 1..k
                                     /\ running'[i] = pending[i - Len(list)]
  BY <1>1, <1>8
<1>10. Distinct(running')
  <2> SUFFICES ASSUME NEW i \in 1..Len(running'), NEW j \in 1..Len(running'),
                      running'[i] = running'[j]
               PROVE  i = j
    BY DEF Distinct
  <2>1. \A n \in 1..k : n \in 1..Len(pending)
    BY <1>2
  <2>2. CASE i \in 1..Len(list) /\ running'[i] = list[i]
    <3>1. j \in 1..Len(list) /\ running'[j] = list[j]
      BY <1>6, <1>9, <2>1, <2>2
    <3> QED
      BY <2>2, <3>1 DEF Distinct
  <2>3. CASE i - Len(list) \in 1..k /\ running'[i] = pending[i - Len(list)]
    <3>1. j - Len(list) \in 1..k /\ running'[j] = pending[j - Len(list)]
      BY <1>6, <1>9, <2>1, <2>3
    <3>2. i - Len(list) \in 1..Len(pending) /\ j - Len(list) \in 1..Len(pending)
      BY <2>1, <2>3, <3>1
    <3>3. pending[i - Len(list)] = pending[j - Len(list)]
      BY <2>3, <3>1
    <3> DEFINE a == i - Len(list)
               b == j - Len(list)
    <3>4. a \in 1..Len(pending) /\ b \in 1..Len(pending) /\ pending[a] = pending[b]
      BY <3>2, <3>3
    <3> HIDE DEF a, b
    <3>5. a = b
      BY <1>3, <3>4 DEF Distinct
    <3>6. i - Len(list) = j - Len(list)
      BY <3>5 DEF a, b
    <3> QED
      BY <1>2, <3>6
  <2> QED
    BY <1>9, <2>2, <2>3
<1>11. \A i \in 1..Len(pending') : i + k \in 1..Len(pending)
  BY <1>1, <1>2
<1>12. Distinct(pending')
  <2> SUFFICES ASSUME NEW i \in 1..Len(pending'), NEW j \in 1..Len(pending'),
                      pending'[i] = pending'[j]
               PROVE  i = j
    BY DEF Distinct
  <2>1. i + k = j + k
    <3> DEFINE a == i + k
               b == j + k
    <3>1. a \in 1..Len(pending) /\ b \in 1..Len(pending) /\ pending[a] = pending[b]
      BY <1>1, <1>11
    <3> HIDE DEF a, b
    <3>2. a = b
      BY <1>3, <3>1 DEF Distinct
    <3> QED
      BY <3>2 DEF a, b
  <2>2. i \in Nat /\ j \in Nat
    OBVIOUS
  <2> QED
    BY <1>2, <2>1, <2>2
<1>13. \A i \in 1..Len(pending') : worker'[pending'[i]].pc = "none"
  <2> SUFFICES ASSUME NEW i \in 1..Len(pending')
               PROVE  worker'[pending'[i]].pc = "none"
    OBVIOUS
  <2>1. pending'[i] = pending[i + k] /\ i + k \in 1..Len(pending)
    BY <1>1, <1>11
  <2>2. \A n \in 1..k : n \in 1..Len(pending) /\ n # i + k
    BY <1>2
  <2>3. \A n \in 1..k : pending[i + k] # pending[n]
    BY <1>3, <2>1, <2>2 DEF Distinct
  <2>4. pending[i + k] \in Sources /\ worker[pending[i + k]].pc = "none"
    BY <1>3, <2>1
  <2>5. worker'[pending[i + k]] = worker[pending[i + k]]
    BY <1>1, <2>3, <2>4
  <2> QED
    BY <2>1, <2>4, <2>5
<1>14. \A s \in Sources : \/ \E i \in 1..k : s = pending[i] /\ worker'[s] = NewWorker("new")
                          \/ worker'[s] = worker[s]
  BY <1>1
<1>15. /\ \A i \in 1..Len(running') : running'[i] \in ToSet(running')
       /\ ToSet(list) = {list[i] : i \in 1..Len(list)}
  <2>1. ToSet(list) = {list[i] : i \in 1..Len(list)}
    BY Elements
  <2>2. ASSUME NEW q \in Seq(Sources)
        PROVE  \A i \in 1..Len(q) : q[i] \in ToSet(q)
    BY Elements
  <2> QED
    BY <1>1, <2>1, <2>2
<1>16. /\ \A i \in 1..Len(list) : i \in 1..Len(running')
       /\ \A i \in 1..k : i + Len(list) \in 1..Len(running')
  BY <1>1, <1>2
<1>17. /\ ToSet(list) \subseteq ToSet(running')
       /\ \A i \in 1..k : pending[i] \in ToSet(running')
  <2>1. \A i \in 1..Len(list) : list[i] \in ToSet(running')
    BY <1>1, <1>15, <1>16
  <2>2. \A i \in 1..k : pending[i] \in ToSet(running')
    BY <1>1, <1>15, <1>16
  <2> QED
    BY <1>15, <2>1, <2>2
<1>18. \A s \in Sources : worker'[s].pc \in Started \ {"done"} => s \in ToSet(running')
  BY <1>3, <1>14, <1>17
<1>19. \A i \in 1..Len(running') : worker'[running'[i]].pc \in Started
  <2> SUFFICES ASSUME NEW i \in 1..Len(running')
               PROVE  worker'[running'[i]].pc \in Started
    OBVIOUS
  <2>1. CASE i \in 1..Len(list) /\ running'[i] = list[i]
    <3>1. worker[list[i]].pc \in Started
      BY <1>4, <1>5, <2>1
    <3>2. \A n \in 1..k : list[i] # pending[n]
      BY <1>2, <1>6, <2>1
    <3> QED
      BY <1>1, <1>5, <2>1, <3>1, <3>2
  <2>2. CASE i - Len(list) \in 1..k /\ running'[i] = pending[i - Len(list)]
    BY <1>1, <1>7, <2>2 DEF Started
  <2> QED
    BY <1>9, <2>1, <2>2
<1>20. PlanOK'
  BY <1>1, <1>10, <1>12, <1>13, <1>18, <1>19 DEF PlanOK, At
<1>21. ChannelOK'
  <2> SUFFICES ASSUME NEW s \in Sources
               PROVE  /\ worker'[s].parked => Len(queue[s]) = EventBuffer + 1
                      /\ ~worker'[s].parked => Len(queue[s]) <= EventBuffer
                      /\ worker'[s].pc = "none" => queue[s] = <<>> /\ ~worker'[s].parked
                      /\ s \notin ToSet(running') => queue[s] = <<>>
    BY DEF ChannelOK
  <2>1. CASE worker'[s] = worker[s]
    BY <1>17, <2>1 DEF EngineInv, ChannelOK
  <2>2. ASSUME NEW i \in 1..k, s = pending[i], worker'[s] = NewWorker("new")
        PROVE  /\ worker'[s].parked = FALSE /\ worker'[s].pc # "none" /\ queue[s] = <<>>
               /\ s \in ToSet(running')
    <3>1. worker[s].pc = "none"
      BY <1>2, <1>3, <2>2
    <3> QED
      BY <1>7, <1>17, <2>2, <3>1 DEF EngineInv, ChannelOK
  <2>3. Len(<<>>) = 0 /\ EventBuffer \in Nat /\ 0 <= EventBuffer
    BY EngineAssumption
  <2>4. CASE worker'[s] # worker[s]
    <3>1. PICK i \in 1..k : s = pending[i] /\ worker'[s] = NewWorker("new")
      BY <1>14, <2>4
    <3>2. /\ ~worker'[s].parked /\ worker'[s].pc # "none" /\ queue[s] = <<>>
          /\ s \in ToSet(running')
      BY <2>2, <3>1
    <3> QED
      BY <2>3, <3>2
  <2> QED
    BY <2>1, <2>4
<1>22. GuardOK'
  <2>1. \A s \in Sources : Balanced(metrics[s], worker[s].pc)
    BY GuardRows DEF EngineInv
  <2>2. \A i \in 1..k : worker[pending[i]].pc = "none"
    BY <1>2, <1>3
  <2>3. \A s \in Sources : worker'[s].pc = worker[s].pc
                           \/ (worker'[s].pc = "new" /\ worker[s].pc = "none")
    BY <1>7, <1>14, <2>2
  <2>4. \A s \in Sources : Balanced(metrics[s], worker'[s].pc)
    BY <2>1, <2>3 DEF Balanced
  <2>5. GuardOK' <=> \A r \in Sources : Balanced(metrics'[r], worker'[r].pc)
    BY Zenon DEF GuardOK, Balanced, GuardHeld
  <2> QED
    BY <2>4, <2>5
<1> QED
  BY <1>1, <1>20, <1>21, <1>22

\* Dropping the running sources empties their channels and settles their guards.
LEMMA DropKeeps ==
  ASSUME EngineInv, DropRunning, metrics' = CancelGuards(metrics),
         pending' = pending \/ pending' = <<>>, driver' \in DriverRow
  PROVE  /\ running' = <<>>
         /\ running' \in Seq(Sources) /\ pending' \in Seq(Sources)
         /\ worker' \in [Sources -> WorkerRow] /\ queue' \in [Sources -> Seq(Event)]
         /\ armed' \subseteq Sources /\ metrics' \in [Sources -> MeterRow]
         /\ PlanOK' /\ ChannelOK' /\ GuardOK'
<1>1. /\ running' = <<>> /\ armed' = {} /\ queue' = [s \in Sources |-> <<>>]
      /\ running \in Seq(Sources) /\ pending \in Seq(Sources)
      /\ worker \in [Sources -> WorkerRow] /\ metrics \in [Sources -> MeterRow]
  BY DEF DropRunning, EngineInv, EngineTypes
<1>2. /\ <<>> \in Seq(Sources) /\ <<>> \in Seq(Event) /\ Len(<<>>) = 0
      /\ ToSet(<<>>) = {}
  BY DEF ToSet
<1>3. \A s \in Sources :
        /\ [worker[s] EXCEPT !.pc = "dropped", !.parked = FALSE] \in WorkerRow
        /\ [worker[s] EXCEPT !.pc = "dropped", !.parked = FALSE].pc = "dropped"
        /\ [worker[s] EXCEPT !.pc = "dropped", !.parked = FALSE].parked = FALSE
  BY <1>1 DEF WorkerRow, WorkerPcs
<1>4. \A s \in Sources :
        worker'[s] = IF s \in ToSet(running)
                     THEN [worker[s] EXCEPT !.pc = "dropped", !.parked = FALSE] ELSE worker[s]
  BY DEF DropRunning
<1>5. worker' \in [Sources -> WorkerRow]
  <2>1. worker' = [s \in Sources |->
                     IF s \in ToSet(running)
                     THEN [worker[s] EXCEPT !.pc = "dropped", !.parked = FALSE]
                     ELSE worker[s]]
    BY DEF DropRunning
  <2> QED
    BY <1>1, <1>3, <2>1
<1>6. \A s \in Sources :
        IF s \in ToSet(running)
        THEN worker'[s].pc = "dropped" /\ worker'[s].parked = FALSE
        ELSE worker'[s] = worker[s]
  BY <1>3, <1>4
<1>7. \A i \in 1..Len(pending) :
        worker[pending[i]].pc = "none" /\ pending[i] \in Sources
          /\ pending[i] \notin ToSet(running)
  <2>1. \A s \in ToSet(running) : worker[s].pc # "none"
    BY <1>1, Elements DEF EngineInv, PlanOK, Started
  <2>2. \A i \in 1..Len(pending) : worker[pending[i]].pc = "none" /\ pending[i] \in Sources
    BY <1>1, Elements DEF EngineInv, PlanOK
  <2> QED
    BY <2>1, <2>2
<1>8. PlanOK'
  <2>1. \A s \in Sources : worker'[s].pc \notin Started \ {"done"}
    BY <1>6 DEF EngineInv, PlanOK, Started
  <2>2. \A i \in 1..Len(pending) : worker'[pending[i]].pc = "none"
    BY <1>6, <1>7
  <2>3. Distinct(pending') /\ \A i \in 1..Len(pending') : worker'[pending'[i]].pc = "none"
    BY <1>2, <2>2 DEF EngineInv, PlanOK, Distinct
  <2> QED
    BY <1>1, <1>2, <2>1, <2>3, EngineAssumption DEF PlanOK, Distinct
<1>9. ChannelOK'
  <2>1. \A s \in Sources : queue'[s] = <<>> /\ Len(queue'[s]) = 0
    BY <1>1, <1>2
  <2>2. \A s \in Sources : ~worker'[s].parked
    <3> SUFFICES ASSUME NEW s \in Sources, s \notin ToSet(running)
                 PROVE  ~worker[s].parked
      BY <1>6
    <3>1. queue[s] = <<>> /\ EventBuffer \in Nat
      BY EngineAssumption DEF EngineInv, ChannelOK
    <3>2. worker[s].parked => Len(queue[s]) = EventBuffer + 1
      BY DEF EngineInv, ChannelOK
    <3> QED
      BY <1>2, <3>1, <3>2
  <2>3. 0 <= EventBuffer
    BY EngineAssumption
  <2> QED
    BY <2>1, <2>2, <2>3 DEF ChannelOK
<1>10. \A s \in Sources :
         metrics'[s] = IF s \in ToSet(running) /\ GuardHeld(s)
                       THEN [metrics[s] EXCEPT !.cancelled = @ + 1] ELSE metrics[s]
  BY DEF CancelGuards
<1>11. \A s \in Sources :
         /\ [metrics[s] EXCEPT !.cancelled = @ + 1] \in MeterRow
         /\ [metrics[s] EXCEPT !.cancelled = @ + 1].requests = metrics[s].requests
         /\ [metrics[s] EXCEPT !.cancelled = @ + 1].successes = metrics[s].successes
         /\ [metrics[s] EXCEPT !.cancelled = @ + 1].failures = metrics[s].failures
         /\ [metrics[s] EXCEPT !.cancelled = @ + 1].cancelled = metrics[s].cancelled + 1
  <2>1. \A m \in MeterRow :
          /\ [m EXCEPT !.cancelled = @ + 1] \in MeterRow
          /\ [m EXCEPT !.cancelled = @ + 1].requests = m.requests
          /\ [m EXCEPT !.cancelled = @ + 1].successes = m.successes
          /\ [m EXCEPT !.cancelled = @ + 1].failures = m.failures
          /\ [m EXCEPT !.cancelled = @ + 1].cancelled = m.cancelled + 1
    BY DEF MeterRow
  <2>2. \A s \in Sources : metrics[s] \in MeterRow
    BY <1>1
  <2> QED
    BY <2>1, <2>2, Zenon
<1>12. metrics' \in [Sources -> MeterRow]
  <2>1. metrics' = [s \in Sources |->
                      IF s \in ToSet(running) /\ GuardHeld(s)
                      THEN [metrics[s] EXCEPT !.cancelled = @ + 1] ELSE metrics[s]]
    BY DEF CancelGuards
  <2> QED
    BY <1>1, <1>11, <2>1
<1>13. GuardOK'
  <2>1. \A s \in Sources : Balanced(metrics[s], worker[s].pc)
    BY GuardRows DEF EngineInv
  <2>2. \A s \in Sources : Balanced(metrics'[s], worker'[s].pc)
    <3> SUFFICES ASSUME NEW s \in Sources
                 PROVE  Balanced(metrics'[s], worker'[s].pc)
      OBVIOUS
    <3>1. metrics[s] \in MeterRow
      BY <1>1
    <3>2. CASE s \in ToSet(running) /\ GuardHeld(s)
      <4>1. worker'[s].pc = "dropped" /\ worker[s].pc \in {"call", "io", "final"}
        BY <1>6, <3>2 DEF GuardHeld
      <4>2. /\ metrics'[s].requests = metrics[s].requests
            /\ metrics'[s].successes = metrics[s].successes
            /\ metrics'[s].failures = metrics[s].failures
            /\ metrics'[s].cancelled = metrics[s].cancelled + 1
        BY <1>10, <1>11, <3>2
      <4> QED
        BY <2>1, <3>1, <4>1, <4>2 DEF Balanced, MeterRow
    <3>3. CASE s \in ToSet(running) /\ ~GuardHeld(s)
      <4>1. worker'[s].pc = "dropped" /\ metrics'[s] = metrics[s]
        BY <1>6, <1>10, <3>3
      <4> QED
        BY <2>1, <3>3, <4>1 DEF Balanced, GuardHeld
    <3>4. CASE s \notin ToSet(running)
      BY <1>6, <1>10, <2>1, <3>4
    <3> QED
      BY <3>2, <3>3, <3>4
  <2>3. GuardOK' <=> \A r \in Sources : Balanced(metrics'[r], worker'[r].pc)
    BY Zenon DEF GuardOK, Balanced, GuardHeld
  <2> QED
    BY <2>2, <2>3
<1>14. queue' \in [Sources -> Seq(Event)] /\ armed' \subseteq Sources
  BY <1>1, <1>2
<1> QED
  BY <1>1, <1>2, <1>5, <1>8, <1>9, <1>12, <1>13, <1>14

-----------------------------------------------------------------------------
(* The engine's own invariant: one lemma per operation *)

\* The receiver in turn is one of the running sources.
LEMMA CurrentFacts ==
  ASSUME EngineInv, running # <<>>
  PROVE  /\ Normalize(driver.cursor, running) \in 1..Len(running)
         /\ Current \in ToSet(running) /\ Current \in Sources
         /\ NextCursor \in 1..Len(running) /\ Len(running) \in Nat \ {0}
<1>1. running \in Seq(Sources) /\ driver.cursor \in Nat \ {0}
  BY DEF EngineInv, EngineTypes, DriverRow
<1>2. Len(running) \in Nat \ {0}
  BY <1>1, Elements
<1>3. Normalize(driver.cursor, running) \in 1..Len(running)
  BY <1>1, <1>2 DEF Normalize
<1>4. NextCursor \in 1..Len(running)
  <2> DEFINE n == Normalize(driver.cursor, running)
             l == Len(running)
  <2>1. n \in Nat /\ l \in Nat \ {0}
    BY <1>2, <1>3
  <2> HIDE DEF n, l
  <2>2. (n % l) + 1 \in 1..l
    BY <2>1
  <2> QED
    BY <2>2 DEF NextCursor, n, l
<1>5. \A i \in 1..Len(running) : running[i] \in ToSet(running) /\ running[i] \in Sources
  BY <1>1, Elements
<1> QED
  BY <1>2, <1>3, <1>4, <1>5 DEF Current

\* A worker that is polled belongs to a running source.
LEMMA PolledFacts ==
  ASSUME EngineInv, NEW s, Polled(s)
  PROVE  s \in ToSet(running) /\ s \in Sources /\ driver.pc = "workers"
         /\ driver.at \in 1..Len(running) /\ s = running[driver.at]
<1>1. running \in Seq(Sources) /\ driver.at \in Nat \ {0}
  BY DEF EngineInv, EngineTypes, DriverRow
<1>2. driver.at \in 1..Len(running) /\ s = running[driver.at] /\ driver.pc = "workers"
  BY <1>1, Elements DEF Polled, At
<1> QED
  BY <1>1, <1>2, Elements

\* Receiving an event frees the sender.
LEMMA PopKeeps ==
  ASSUME EngineInv, NEW s \in Sources, s \in ToSet(running), queue[s] # <<>>,
         queue' = Popped(s), worker' = Unparked(s), UNCHANGED <<pending, running>>,
         driver' \in DriverRow, driver'.pc \notin {"ended", "dropped"}
  PROVE  /\ worker' \in [Sources -> WorkerRow] /\ queue' \in [Sources -> Seq(Event)]
         /\ PlanOK' /\ ChannelOK'
         /\ queue'[s] = Tail(queue[s]) /\ ~worker'[s].parked
         /\ \A r \in Sources : r # s => worker'[r] = worker[r] /\ queue'[r] = queue[r]
         /\ \A r \in Sources : /\ worker'[r].pc = worker[r].pc
                               /\ worker'[r].count = worker[r].count
                               /\ worker'[r].err = worker[r].err
<1>1. /\ worker \in [Sources -> WorkerRow] /\ queue \in [Sources -> Seq(Event)]
      /\ queue[s] \in Seq(Event) /\ worker[s] \in WorkerRow
      /\ pending \in Seq(Sources) /\ running \in Seq(Sources)
  BY DEF EngineInv, EngineTypes
<1>2. /\ Tail(queue[s]) \in Seq(Event) /\ Len(Tail(queue[s])) = Len(queue[s]) - 1
      /\ Len(queue[s]) \in Nat \ {0}
  BY <1>1, TailFacts
<1>3. /\ queue' \in [Sources -> Seq(Event)] /\ queue'[s] = Tail(queue[s])
      /\ \A r \in Sources : r # s => queue'[r] = queue[r]
  BY <1>1, <1>2 DEF Popped
<1>4. \A v \in WorkerRow :
        /\ [v EXCEPT !.parked = FALSE] \in WorkerRow /\ ~[v EXCEPT !.parked = FALSE].parked
        /\ [v EXCEPT !.parked = FALSE].pc = v.pc /\ [v EXCEPT !.parked = FALSE].count = v.count
        /\ [v EXCEPT !.parked = FALSE].err = v.err
  BY DEF WorkerRow
<1>5. worker' = [worker EXCEPT ![s] = [worker[s] EXCEPT !.parked = FALSE]]
  BY <1>1 DEF Unparked
<1>6. /\ worker' \in [Sources -> WorkerRow] /\ worker'[s] = [worker[s] EXCEPT !.parked = FALSE]
      /\ \A r \in Sources : r # s => worker'[r] = worker[r]
  BY <1>1, <1>4, <1>5
<1>7. \A r \in Sources : /\ worker'[r].pc = worker[r].pc /\ worker'[r].count = worker[r].count
                         /\ worker'[r].err = worker[r].err
  <2>1. /\ worker'[s].pc = worker[s].pc /\ worker'[s].count = worker[s].count
        /\ worker'[s].err = worker[s].err
    BY <1>1, <1>4, <1>6, Zenon
  <2> QED
    BY <1>6, <2>1
<1>8. PlanOK'
  <2>1. /\ \A i \in 1..Len(pending) : pending[i] \in Sources
        /\ \A i \in 1..Len(running) : running[i] \in Sources
    BY <1>1, Elements
  <2> QED
    BY <1>7, <2>1 DEF EngineInv, PlanOK, At, Distinct
<1>9. ~worker'[s].parked
  BY <1>1, <1>4, <1>6
<1>10. ChannelOK'
  <2> SUFFICES ASSUME NEW r \in Sources
               PROVE  /\ worker'[r].parked => Len(queue'[r]) = EventBuffer + 1
                      /\ ~worker'[r].parked => Len(queue'[r]) <= EventBuffer
                      /\ worker'[r].pc = "none" => queue'[r] = <<>> /\ ~worker'[r].parked
                      /\ r \notin ToSet(running) => queue'[r] = <<>>
    BY DEF ChannelOK
  <2>1. CASE r # s
    BY <1>3, <1>6, <2>1 DEF EngineInv, ChannelOK
  <2>2. CASE r = s
    <3>1. EventBuffer \in Nat
      BY EngineAssumption
    <3>2. Len(queue[s]) <= EventBuffer + 1 /\ worker[s].pc # "none"
      <4>1. /\ worker[s].parked => Len(queue[s]) = EventBuffer + 1
            /\ ~worker[s].parked => Len(queue[s]) <= EventBuffer
            /\ worker[s].pc = "none" => queue[s] = <<>>
        BY DEF EngineInv, ChannelOK
      <4> QED
        BY <1>2, <3>1, <4>1
    <3>3. Len(queue'[s]) <= EventBuffer
      BY <1>2, <1>3, <3>1, <3>2
    <3> QED
      BY <1>7, <1>9, <2>2, <3>2, <3>3
  <2> QED
    BY <2>1, <2>2
<1> QED
  BY <1>3, <1>6, <1>7, <1>8, <1>9, <1>10

\* poll_next begins.
LEMMA PollKeepsInv ==
  ASSUME EngineInv, PollNext
  PROVE  EngineInv'
<1>1. driver' \in DriverRow /\ driver'.pc = "drain"
  BY DriverFacts DEF PollNext, Goto, EngineInv
<1>2. PlanOK' /\ ChannelOK' /\ GuardOK'
  BY <1>1, DriverMoves DEF PollNext
<1>3. EngineTypes'
  BY <1>1 DEF PollNext, EngineInv, EngineTypes
<1> QED
  BY <1>2, <1>3 DEF EngineInv

\* A diagnostic of the plan is delivered; a strict search stops there.
LEMMA DrainInitialKeepsInv ==
  ASSUME EngineInv, DrainInitial
  PROVE  EngineInv'
<1>1. driver' \in DriverRow /\ driver'.pc = "rest"
  BY DriverFacts DEF DrainInitial, Goto, EngineInv
<1>2. initial' \in Seq(Event) /\ out' \in Seq(Event)
  <2>1. initial \in Seq(Event) /\ initial # <<>> /\ out \in Seq(Event)
    BY DEF DrainInitial, EngineInv, EngineTypes
  <2>2. Tail(initial) \in Seq(Event) /\ Head(initial) \in Event
    BY <2>1, TailFacts
  <2>3. Append(out, Head(initial)) \in Seq(Event)
    BY <2>1, <2>2, AppendFacts
  <2> QED
    BY <2>2, <2>3 DEF DrainInitial
<1>3. CASE request.strict
  <2>1. pending' = <<>> /\ DropRunning /\ metrics' = CancelGuards(metrics)
    BY <1>3 DEF DrainInitial, Stop
  <2>2. /\ running' \in Seq(Sources) /\ pending' \in Seq(Sources)
        /\ worker' \in [Sources -> WorkerRow] /\ queue' \in [Sources -> Seq(Event)]
        /\ armed' \subseteq Sources /\ metrics' \in [Sources -> MeterRow]
        /\ PlanOK' /\ ChannelOK' /\ GuardOK'
    BY <1>1, <2>1, DropKeeps
  <2> QED
    BY <1>1, <1>2, <2>2 DEF DrainInitial, EngineInv, EngineTypes
<1>4. CASE ~request.strict
  <2>1. UNCHANGED <<pending, running, worker, queue, armed, metrics>>
    BY <1>4 DEF DrainInitial
  <2>2. PlanOK' /\ ChannelOK' /\ GuardOK'
    BY <1>1, <2>1, DriverMoves
  <2> QED
    BY <1>1, <1>2, <2>1, <2>2 DEF DrainInitial, EngineInv, EngineTypes
<1> QED
  BY <1>3, <1>4

\* GuardOK only depends on the four counters and on where a worker is.
LEMMA GuardsSame ==
  ASSUME EngineInv,
         \A r \in Sources : /\ worker'[r].pc = worker[r].pc
                            /\ metrics'[r].requests = metrics[r].requests
                            /\ metrics'[r].successes = metrics[r].successes
                            /\ metrics'[r].failures = metrics[r].failures
                            /\ metrics'[r].cancelled = metrics[r].cancelled
  PROVE  GuardOK'
BY DEF EngineInv, GuardOK, GuardHeld

\* A record is delivered, or left out as a duplicate.
LEMMA DrainRecordKeepsInv ==
  ASSUME EngineInv, NEW s \in Sources, DrainRecord(s)
  PROVE  EngineInv'
<1>1. /\ Receiving(s) /\ queue[s] # <<>> /\ queue' = Popped(s) /\ worker' = Unparked(s)
      /\ UNCHANGED <<request, initial, pending, running, armed>>
      /\ woken' = WokenByRoom(s)
  BY DEF DrainRecord
<1>2. running # <<>> /\ s = Current /\ s \in ToSet(running) /\ driver.pc \in {"drain", "drain2"}
  BY <1>1, CurrentFacts DEF Receiving, Draining, At
<1>3. NextCursor \in Nat \ {0}
  BY <1>2, CurrentFacts
<1>4. Head(queue[s]) \in Event
  BY <1>1, TailFacts DEF EngineInv, EngineTypes
<1>5. driver' \in DriverRow /\ driver'.pc \notin {"ended", "dropped"}
  <2> DEFINE n == NextCursor
  <2>1. n \in Nat \ {0}
    BY <1>3
  <2>2. \/ driver' = [driver EXCEPT !.pc = "rest", !.cursor = n]
        \/ driver' = [driver EXCEPT !.cursor = n]
    BY DEF DrainRecord
  <2> HIDE DEF n
  <2> QED
    BY <1>2, <2>1, <2>2 DEF EngineInv, EngineTypes, DriverRow
<1>6. /\ worker' \in [Sources -> WorkerRow] /\ queue' \in [Sources -> Seq(Event)]
      /\ PlanOK' /\ ChannelOK' /\ \A r \in Sources : worker'[r].pc = worker[r].pc
  BY <1>1, <1>2, <1>5, PopKeeps
<1>7. out' \in Seq(Event)
  <2>1. out \in Seq(Event) /\ Append(out, Head(queue[s])) \in Seq(Event)
    BY <1>4, AppendFacts DEF EngineInv, EngineTypes
  <2>2. out' = Append(out, Head(queue[s])) \/ out' = out
    BY DEF DrainRecord
  <2> QED
    BY <2>1, <2>2
<1>8. /\ metrics' \in [Sources -> MeterRow]
      /\ \A r \in Sources : /\ metrics'[r].requests = metrics[r].requests
                            /\ metrics'[r].successes = metrics[r].successes
                            /\ metrics'[r].failures = metrics[r].failures
                            /\ metrics'[r].cancelled = metrics[r].cancelled
  <2>1. \/ metrics' = [metrics EXCEPT ![s].emitted = @ + 1]
        \/ metrics' = [metrics EXCEPT ![s].deduplicated = @ + 1]
    BY DEF DrainRecord
  <2>2. metrics \in [Sources -> MeterRow] /\ metrics[s] \in MeterRow
    BY DEF EngineInv, EngineTypes
  <2>3. \/ metrics'[s] = [metrics[s] EXCEPT !.emitted = @ + 1]
        \/ metrics'[s] = [metrics[s] EXCEPT !.deduplicated = @ + 1]
    BY <2>1, <2>2
  <2>4. /\ metrics'[s] \in MeterRow /\ metrics'[s].requests = metrics[s].requests
        /\ metrics'[s].successes = metrics[s].successes
        /\ metrics'[s].failures = metrics[s].failures
        /\ metrics'[s].cancelled = metrics[s].cancelled
    <3> DEFINE v == metrics[s]
               w == metrics'[s]
    <3>1. v \in MeterRow
      BY <2>2
    <3>2. w = [v EXCEPT !.emitted = @ + 1] \/ w = [v EXCEPT !.deduplicated = @ + 1]
      BY <2>3
    <3> HIDE DEF v, w
    <3>3. /\ w \in MeterRow /\ w.requests = v.requests /\ w.successes = v.successes
          /\ w.failures = v.failures /\ w.cancelled = v.cancelled
      BY <3>1, <3>2 DEF MeterRow
    <3> QED
      BY <3>3 DEF v, w
  <2>5. /\ metrics' = [r \in Sources |-> metrics'[r]]
        /\ \A r \in Sources : r # s => metrics'[r] = metrics[r]
    BY <2>1, <2>2
  <2>6. \A r \in Sources : metrics'[r] \in MeterRow
    BY <2>2, <2>4, <2>5
  <2>7. metrics' \in [Sources -> MeterRow]
    BY <2>5, <2>6
  <2> QED
    BY <2>4, <2>5, <2>7
<1>9. GuardOK'
  BY <1>6, <1>8, GuardsSame
<1>10. woken' \in BOOLEAN
  BY <1>1, <1>2 DEF WokenByRoom, EngineInv, EngineTypes, WorkerRow
<1> QED
  BY <1>1, <1>5, <1>6, <1>7, <1>8, <1>9, <1>10 DEF EngineInv, EngineTypes

\* A failure is delivered; a strict search stops there.
LEMMA DrainFailureKeepsInv ==
  ASSUME EngineInv, NEW s \in Sources, DrainFailure(s)
  PROVE  EngineInv'
<1>1. /\ Receiving(s) /\ queue[s] # <<>> /\ out' = Append(out, Head(queue[s]))
      /\ UNCHANGED <<request, initial, seen>> /\ woken' = WokenByRoom(s)
  BY DEF DrainFailure
<1>2. running # <<>> /\ s = Current /\ s \in ToSet(running)
  BY <1>1, CurrentFacts DEF Receiving
<1>3. out' \in Seq(Event)
  <2>1. Head(queue[s]) \in Event /\ out \in Seq(Event)
    BY <1>1, TailFacts DEF EngineInv, EngineTypes
  <2> QED
    BY <1>1, <2>1, AppendFacts
<1>4. woken' \in BOOLEAN
  BY <1>1, <1>2 DEF WokenByRoom, EngineInv, EngineTypes, WorkerRow
<1>5. CASE request.strict
  <2>1. pending' = <<>> /\ DropRunning /\ metrics' = CancelGuards(metrics) /\ Goto("rest")
    BY <1>5 DEF DrainFailure, Stop
  <2>2. driver' \in DriverRow
    BY <2>1, DriverFacts DEF Goto, EngineInv
  <2>3. /\ running' \in Seq(Sources) /\ pending' \in Seq(Sources)
        /\ worker' \in [Sources -> WorkerRow] /\ queue' \in [Sources -> Seq(Event)]
        /\ armed' \subseteq Sources /\ metrics' \in [Sources -> MeterRow]
        /\ PlanOK' /\ ChannelOK' /\ GuardOK'
    BY <2>1, <2>2, DropKeeps
  <2> QED
    BY <1>1, <1>3, <1>4, <2>2, <2>3 DEF EngineInv, EngineTypes
<1>6. CASE ~request.strict
  <2> DEFINE n == NextCursor
  <2>1. /\ queue' = Popped(s) /\ worker' = Unparked(s)
        /\ driver' = [driver EXCEPT !.pc = "rest", !.cursor = n]
        /\ UNCHANGED <<pending, running, metrics, armed>>
    BY <1>6 DEF DrainFailure
  <2>2. n \in Nat \ {0}
    BY <1>2, CurrentFacts
  <2> HIDE DEF n
  <2>3. driver' \in DriverRow /\ driver'.pc = "rest"
    BY <2>1, <2>2 DEF EngineInv, EngineTypes, DriverRow
  <2>4. /\ worker' \in [Sources -> WorkerRow] /\ queue' \in [Sources -> Seq(Event)]
        /\ PlanOK' /\ ChannelOK' /\ \A r \in Sources : worker'[r].pc = worker[r].pc
    BY <1>1, <1>2, <2>1, <2>3, PopKeeps
  <2>5. GuardOK'
    BY <2>1, <2>4, GuardsSame
  <2> QED
    BY <1>1, <1>3, <1>4, <2>1, <2>3, <2>4, <2>5 DEF EngineInv, EngineTypes
<1> QED
  BY <1>5, <1>6

\* The list of running sources without the one that has closed its channel.
LEMMA LeaverFacts ==
  ASSUME EngineInv, NEW s, Receiving(s)
  PROVE  LET at == Normalize(driver.cursor, running)
             rest == RemoveAt(running, at)
         IN  /\ at \in 1..Len(running) /\ s = running[at] /\ s \in Sources
             /\ rest \in Seq(Sources) /\ Len(rest) = Len(running) - 1
             /\ Len(rest) <= MaxActive /\ Distinct(rest)
             /\ ToSet(rest) \subseteq ToSet(running)
             /\ ToSet(running) \ ToSet(rest) \subseteq {s}
             /\ Normalize(at, rest) \in Nat \ {0}
             /\ rest # <<>> => Normalize(at, rest) \in 1..Len(rest)
<1> DEFINE at == Normalize(driver.cursor, running)
           rest == RemoveAt(running, at)
<1>1. /\ at \in 1..Len(running) /\ s = running[at] /\ s \in Sources
      /\ Len(running) \in Nat \ {0} /\ running \in Seq(Sources)
  BY CurrentFacts DEF Receiving, Current, EngineInv, EngineTypes
<1> HIDE DEF at
<1>2. /\ rest \in Seq(Sources) /\ Len(rest) = Len(running) - 1
      /\ \A i \in 1..(Len(running) - 1) :
           rest[i] = IF i < at THEN running[i] ELSE running[i + 1]
  BY <1>1, RemoveFacts
<1> HIDE DEF rest
<1>3. Len(rest) <= MaxActive
  BY <1>1, <1>2, EngineAssumption DEF EngineInv, PlanOK
<1>4. \A i \in 1..Len(rest) : \E j \in 1..Len(running) :
        rest[i] = running[j] /\ j = IF i < at THEN i ELSE i + 1
  <2> SUFFICES ASSUME NEW i \in 1..Len(rest)
               PROVE  \E j \in 1..Len(running) :
                        rest[i] = running[j] /\ j = IF i < at THEN i ELSE i + 1
    OBVIOUS
  <2>1. i \in 1..Len(running) /\ i + 1 \in 1..Len(running) /\ i \in 1..(Len(running) - 1)
    BY <1>1, <1>2
  <2> QED
    BY <1>2, <2>1
<1>5. Distinct(rest)
  <2> SUFFICES ASSUME NEW i \in 1..Len(rest), NEW j \in 1..Len(rest), rest[i] = rest[j]
               PROVE  i = j
    BY DEF Distinct
  <2>1. PICK k \in 1..Len(running) : rest[i] = running[k] /\ k = IF i < at THEN i ELSE i + 1
    BY <1>4
  <2>2. PICK l \in 1..Len(running) : rest[j] = running[l] /\ l = IF j < at THEN j ELSE j + 1
    BY <1>4
  <2>3. k = l
    BY <2>1, <2>2 DEF EngineInv, PlanOK, Distinct
  <2>4. i \in Nat /\ j \in Nat /\ at \in Nat
    BY <1>1
  <2> QED
    BY <2>1, <2>2, <2>3, <2>4
<1>6. /\ ToSet(rest) = {rest[i] : i \in 1..Len(rest)}
      /\ ToSet(running) = {running[i] : i \in 1..Len(running)}
  BY <1>1, <1>2, Elements
<1>7. ToSet(rest) \subseteq ToSet(running)
  BY <1>4, <1>6
<1>8. \A j \in 1..Len(running) : j # at => \E i \in 1..Len(rest) : running[j] = rest[i]
  <2> SUFFICES ASSUME NEW j \in 1..Len(running), j # at
               PROVE  \E i \in 1..Len(rest) : running[j] = rest[i]
    OBVIOUS
  <2>1. CASE j < at
    <3>1. j \in 1..Len(rest) /\ j \in 1..(Len(running) - 1)
      BY <1>1, <1>2, <2>1
    <3>2. rest[j] = running[j]
      BY <1>2, <2>1, <3>1
    <3> QED
      BY <3>1, <3>2
  <2>2. CASE ~(j < at)
    <3>1. /\ j - 1 \in 1..Len(rest) /\ j - 1 \in 1..(Len(running) - 1)
          /\ ~(j - 1 < at) /\ (j - 1) + 1 = j
      BY <1>1, <1>2, <2>2
    <3>2. rest[j - 1] = running[j]
      BY <1>2, <3>1
    <3> QED
      BY <3>1, <3>2
  <2> QED
    BY <2>1, <2>2
<1>9. ToSet(running) \ ToSet(rest) \subseteq {s}
  BY <1>1, <1>6, <1>8
<1>10. Normalize(at, rest) \in Nat \ {0} /\ (rest # <<>> => Normalize(at, rest) \in 1..Len(rest))
  <2>1. Len(rest) \in Nat /\ (rest = <<>> <=> Len(rest) = 0)
    BY <1>2, Elements
  <2>2. at \in Nat \ {0}
    BY <1>1
  <2> QED
    BY <2>1, <2>2 DEF Normalize
<1> QED
  BY <1>1, <1>2, <1>3, <1>5, <1>7, <1>9, <1>10 DEF at, rest

\* A source whose channel is closed and empty leaves, and the next one starts.
LEMMA DrainClosedKeepsInv ==
  ASSUME EngineInv, NEW s \in Sources, DrainClosed(s)
  PROVE  EngineInv'
<1> DEFINE at == Normalize(driver.cursor, running)
           rest == RemoveAt(running, at)
           n == Normalize(at, rest)
<1>1. /\ Receiving(s) /\ queue[s] = <<>> /\ worker[s].pc = "done"
      /\ StartReadySources(rest) /\ driver' = [driver EXCEPT !.cursor = n]
      /\ UNCHANGED <<request, initial, queue, armed, woken, seen, metrics, out>>
  BY DEF DrainClosed
<1>2. /\ rest \in Seq(Sources) /\ Len(rest) <= MaxActive /\ Distinct(rest)
      /\ ToSet(rest) \subseteq ToSet(running) /\ ToSet(running) \ ToSet(rest) \subseteq {s}
      /\ n \in Nat \ {0}
  BY <1>1, LeaverFacts
<1> HIDE DEF rest, n
<1>3. driver.pc \in {"drain", "drain2"}
  BY <1>1 DEF Receiving, Draining, At
<1>4. driver' \in DriverRow /\ driver'.pc \notin {"ended", "dropped"}
  BY <1>1, <1>2, <1>3 DEF EngineInv, EngineTypes, DriverRow
<1>5. /\ running' \in Seq(Sources) /\ pending' \in Seq(Sources)
      /\ worker' \in [Sources -> WorkerRow]
      /\ PlanOK' /\ ChannelOK' /\ GuardOK'
  BY <1>1, <1>2, <1>4, StartKeeps
<1> QED
  BY <1>1, <1>4, <1>5 DEF EngineInv, EngineTypes

\* Nothing to deliver: free slots are filled before the workers are polled.
LEMMA DrainDryKeepsInv ==
  ASSUME EngineInv, DrainDry
  PROVE  EngineInv'
<1>1. /\ StartReadySources(running) /\ Arm
      /\ driver' = [driver EXCEPT !.pc = "workers", !.at = 1, !.progressed = FALSE]
      /\ UNCHANGED <<request, initial, queue, woken, seen, metrics, out>>
  BY DEF DrainDry
<1>2. driver' \in DriverRow /\ driver'.pc \notin {"ended", "dropped"}
  BY <1>1, DriverPass DEF EngineInv
<1>3. armed' \subseteq Sources
  BY <1>1, CurrentFacts DEF Arm, EngineInv, EngineTypes
<1>4. /\ running \in Seq(Sources) /\ Len(running) <= MaxActive /\ Distinct(running)
      /\ ToSet(running) \ ToSet(running) = {}
  BY DEF EngineInv, EngineTypes, PlanOK
<1>5. /\ running' \in Seq(Sources) /\ pending' \in Seq(Sources)
      /\ worker' \in [Sources -> WorkerRow]
      /\ PlanOK' /\ ChannelOK' /\ GuardOK'
  BY <1>1, <1>2, <1>4, StartKeeps
<1> QED
  BY <1>1, <1>2, <1>3, <1>5 DEF EngineInv, EngineTypes

\* poll_next loops, ends or sleeps.
LEMMA DecideKeepsInv ==
  ASSUME EngineInv, Decide
  PROVE  EngineInv'
<1>1. /\ Arm /\ UNCHANGED <<request, initial, pending, running, worker, queue, woken, seen,
                            metrics, out>>
  BY DEF Decide
<1>2. /\ driver' \in DriverRow
      /\ driver'.pc = IF driver.progressed THEN "drain"
                      ELSE IF IsComplete THEN "ended" ELSE "asleep"
  <2>1. CASE driver.progressed
    BY <2>1, DriverFacts DEF Decide, Goto, EngineInv
  <2>2. CASE ~driver.progressed /\ IsComplete
    BY <2>2, DriverFacts DEF Decide, Goto, EngineInv
  <2>3. CASE ~driver.progressed /\ ~IsComplete
    BY <2>3, DriverFacts DEF Decide, Goto, EngineInv
  <2> QED
    BY <2>1, <2>2, <2>3
<1>3. driver'.pc \in {"ended", "dropped"} => running = <<>>
  BY <1>2 DEF IsComplete
<1>4. armed' \subseteq Sources
  BY <1>1, CurrentFacts DEF Arm, EngineInv, EngineTypes
<1>5. PlanOK' /\ ChannelOK' /\ GuardOK'
  BY <1>1, <1>2, <1>3, DriverMoves
<1> QED
  BY <1>1, <1>2, <1>4, <1>5 DEF EngineInv, EngineTypes

\* The consumer drops the stream.
LEMMA DropKeepsInv ==
  ASSUME EngineInv, Drop
  PROVE  EngineInv'
<1>1. /\ DropRunning /\ metrics' = CancelGuards(metrics) /\ Goto("dropped")
      /\ UNCHANGED <<request, initial, pending, woken, seen, out>>
  BY DEF Drop
<1>2. driver' \in DriverRow
  BY <1>1, DriverFacts DEF Goto, EngineInv
<1>3. /\ running' \in Seq(Sources) /\ pending' \in Seq(Sources)
      /\ worker' \in [Sources -> WorkerRow] /\ queue' \in [Sources -> Seq(Event)]
      /\ armed' \subseteq Sources /\ metrics' \in [Sources -> MeterRow]
      /\ PlanOK' /\ ChannelOK' /\ GuardOK'
  BY <1>1, <1>2, DropKeeps
<1> QED
  BY <1>1, <1>2, <1>3 DEF EngineInv, EngineTypes

\* A worker with nothing to do is passed over, and after the last one the channels
\* are looked at again.
LEMMA PassKeepsInv ==
  ASSUME EngineInv, WorkersPolled \/ \E s \in Sources : SkipWorker(s)
  PROVE  EngineInv'
<1>1. UNCHANGED <<request, initial, pending, running, worker, queue, armed, woken, seen,
                  metrics, out>>
  BY DEF WorkersPolled, SkipWorker, workerUnchanged
<1>2. driver' \in DriverRow /\ driver'.pc \in {"workers", "drain2"}
  <2>1. CASE WorkersPolled
    BY <2>1, DriverFacts DEF WorkersPolled, Goto, EngineInv
  <2>2. ASSUME NEW s \in Sources, SkipWorker(s)
        PROVE  driver' \in DriverRow /\ driver'.pc = "workers"
    <3>1. driver.pc = "workers" /\ driver' = [driver EXCEPT !.at = @ + 1]
      BY <2>2 DEF SkipWorker, Polled, At
    <3> QED
      BY <3>1, DriverPass DEF EngineInv
  <2> QED
    BY <2>1, <2>2
<1>3. PlanOK' /\ ChannelOK' /\ GuardOK'
  BY <1>1, <1>2, DriverMoves
<1> QED
  BY <1>1, <1>2, <1>3 DEF EngineInv, EngineTypes

\* What a worker has sent so far, and whether it waits for room.
Same(w, v) == w.count = v.count /\ w.err = v.err /\ w.parked = v.parked

\* A worker that only changes where it is.
LEMMA PcMoves ==
  ASSUME EngineInv, NEW s \in Sources, s \in ToSet(running), NEW p \in Started,
         UNCHANGED <<pending, running>>, driver' \in DriverRow, driver'.pc = driver.pc,
         \/ worker' = [worker EXCEPT ![s].pc = p]
         \/ worker' = [worker EXCEPT ![s].pc = p, ![s].rested = TRUE]
         \/ worker' = [worker EXCEPT ![s] = [@ EXCEPT !.pc = p, !.next = 1]]
  PROVE  \E w : Moves(s, w) /\ w.pc = p /\ Same(w, worker[s])
<1>1. worker \in [Sources -> WorkerRow] /\ worker[s] \in WorkerRow /\ p \in WorkerPcs
  BY DEF EngineInv, EngineTypes, Started, WorkerPcs
<1>2. \A v \in WorkerRow :
        /\ [v EXCEPT !.pc = p] \in WorkerRow /\ [v EXCEPT !.pc = p].pc = p
        /\ Same([v EXCEPT !.pc = p], v)
  BY <1>1 DEF WorkerRow, Same
<1>3. \A v \in WorkerRow :
        /\ [v EXCEPT !.pc = p, !.rested = TRUE] \in WorkerRow
        /\ [v EXCEPT !.pc = p, !.rested = TRUE].pc = p
        /\ Same([v EXCEPT !.pc = p, !.rested = TRUE], v)
  BY <1>1 DEF WorkerRow, Same
<1>4. \A v \in WorkerRow :
        /\ [v EXCEPT !.pc = p, !.next = 1] \in WorkerRow
        /\ [v EXCEPT !.pc = p, !.next = 1].pc = p
        /\ Same([v EXCEPT !.pc = p, !.next = 1], v)
  <2>1. 1 \in Nat \ {0}
    OBVIOUS
  <2>2. \A v \in WorkerRow, n \in Nat \ {0} :
          /\ [v EXCEPT !.pc = p, !.next = n] \in WorkerRow
          /\ [v EXCEPT !.pc = p, !.next = n].pc = p
          /\ Same([v EXCEPT !.pc = p, !.next = n], v)
    BY <1>1 DEF WorkerRow, Same
  <2> QED
    BY <2>1, <2>2, Zenon
<1>5. \E w \in WorkerRow : /\ worker' = [worker EXCEPT ![s] = w]
                           /\ w.pc = p /\ Same(w, worker[s])
  <2>1. CASE worker' = [worker EXCEPT ![s].pc = p]
    <3> DEFINE w == [worker[s] EXCEPT !.pc = p]
    <3>1. worker' = [worker EXCEPT ![s] = w]
      BY <1>1, <2>1
    <3>2. w \in WorkerRow /\ w.pc = p /\ Same(w, worker[s])
      BY <1>1, <1>2
    <3> QED
      BY <3>1, <3>2, Zenon
  <2>2. CASE worker' = [worker EXCEPT ![s].pc = p, ![s].rested = TRUE]
    <3> DEFINE w == [worker[s] EXCEPT !.pc = p, !.rested = TRUE]
    <3>1. worker' = [worker EXCEPT ![s] = w]
      BY <1>1, <2>2
    <3>2. w \in WorkerRow /\ w.pc = p /\ Same(w, worker[s])
      BY <1>1, <1>3
    <3> QED
      BY <3>1, <3>2, Zenon
  <2>3. CASE worker' = [worker EXCEPT ![s] = [@ EXCEPT !.pc = p, !.next = 1]]
    <3> DEFINE w == [worker[s] EXCEPT !.pc = p, !.next = 1]
    <3>1. worker' = [worker EXCEPT ![s] = w]
      BY <1>1, <2>3
    <3>2. w \in WorkerRow /\ w.pc = p /\ Same(w, worker[s])
      BY <1>1, <1>4
    <3> QED
      BY <3>1, <3>2, Zenon
  <2> QED
    BY <2>1, <2>2, <2>3
<1>6. PICK w \in WorkerRow : /\ worker' = [worker EXCEPT ![s] = w]
                             /\ w.pc = p /\ Same(w, worker[s])
  BY <1>5
<1> QED
  BY <1>6 DEF Moves

\* One more of one counter.
LEMMA MeterFacts ==
  ASSUME NEW m \in MeterRow
  PROVE  /\ m.requests \in Nat /\ m.successes \in Nat /\ m.failures \in Nat
         /\ m.cancelled \in Nat /\ m.emitted \in Nat /\ m.deduplicated \in Nat
         /\ \A f \in {"requests", "successes", "failures", "cancelled", "emitted",
                      "deduplicated"} :
              /\ [m EXCEPT ![f] = @ + 1] \in MeterRow /\ [m EXCEPT ![f] = @ + 1][f] = m[f] + 1
              /\ \A g \in {"requests", "successes", "failures", "cancelled", "emitted",
                           "deduplicated"} : g # f => [m EXCEPT ![f] = @ + 1][g] = m[g]
BY DEF MeterRow

\* The balance of a source, before a step.
LEMMA BalanceFacts ==
  ASSUME EngineInv, NEW s \in Sources
  PROVE  metrics[s] \in MeterRow /\ Balanced(metrics[s], worker[s].pc)
BY GuardRows DEF EngineInv, EngineTypes

\* A call begins, and its request is counted.
LEMMA BeginCallKeepsInv ==
  ASSUME EngineInv, NEW s \in Sources, BeginCall(s)
  PROVE  EngineInv'
<1>1. /\ Polled(s) /\ worker[s].pc = "new" /\ worker' = [worker EXCEPT ![s].pc = "call"]
      /\ metrics' = [metrics EXCEPT ![s].requests = @ + 1]
      /\ UNCHANGED <<request, initial, pending, running, seen, out, queue, armed, driver, woken>>
  BY DEF BeginCall, Runs, workerUnchanged
<1>2. s \in ToSet(running) /\ driver' \in DriverRow
  BY <1>1, PolledFacts DEF EngineInv, EngineTypes
<1>3. PICK w : Moves(s, w) /\ w.pc = "call" /\ Same(w, worker[s])
  BY <1>1, <1>2, PcMoves DEF Started
<1> DEFINE m == [metrics[s] EXCEPT !.requests = @ + 1]
<1>4. metrics[s] \in MeterRow /\ Balanced(metrics[s], "new")
  BY <1>1, BalanceFacts
<1>5. /\ m \in MeterRow /\ m.requests = metrics[s].requests + 1
      /\ m.successes = metrics[s].successes /\ m.failures = metrics[s].failures
      /\ m.cancelled = metrics[s].cancelled
  BY <1>4, MeterFacts
<1>6. metrics' = [metrics EXCEPT ![s] = m]
  BY <1>1 DEF EngineInv, EngineTypes
<1> HIDE DEF m
<1>7. Balanced(m, "call")
  <2>1. /\ metrics[s].requests \in Nat /\ metrics[s].successes \in Nat
        /\ metrics[s].failures \in Nat /\ metrics[s].cancelled \in Nat
    BY <1>4, MeterFacts
  <2>2. /\ metrics[s].requests = 0
        /\ metrics[s].requests
             = metrics[s].successes + metrics[s].failures + metrics[s].cancelled + 0
    BY <1>4 DEF Balanced
  <2>3. m.requests <= 1 /\ m.requests = m.successes + m.failures + m.cancelled + 1
    BY <1>5, <2>1, <2>2
  <2> QED
    BY <2>3 DEF Balanced
<1>8. GuardOK' /\ metrics' \in [Sources -> MeterRow]
  BY <1>3, <1>5, <1>6, <1>7, MoveKeepsGuards
<1>9. ChannelOK' /\ PlanOK' /\ worker' \in [Sources -> WorkerRow]
  BY <1>1, <1>3, MoveKeepsChannels, MoveFacts DEF Same
<1> QED
  BY <1>1, <1>2, <1>8, <1>9 DEF EngineInv, EngineTypes

\* A step of a worker that counts nothing and sends nothing.
LEMMA SilentMoveKeepsInv ==
  ASSUME EngineInv, NEW s \in Sources, NEW w, Moves(s, w), Same(w, worker[s]),
         w.pc = worker[s].pc \/ {w.pc, worker[s].pc} \subseteq {"call", "io", "final"}
                             \/ {w.pc, worker[s].pc} \subseteq {"closing", "done"},
         armed' \subseteq Sources, woken' \in BOOLEAN,
         UNCHANGED <<request, initial, pending, running, seen, out, queue, metrics>>
  PROVE  EngineInv'
<1>1. ChannelOK' /\ PlanOK' /\ worker' \in [Sources -> WorkerRow]
  BY MoveKeepsChannels, MoveFacts DEF Same
<1>2. metrics[s] \in MeterRow /\ Balanced(metrics[s], worker[s].pc)
  BY BalanceFacts
<1>3. Balanced(metrics[s], w.pc)
  BY <1>2 DEF Balanced
<1>4. metrics' = [metrics EXCEPT ![s] = metrics[s]]
  BY DEF EngineInv, EngineTypes
<1>5. GuardOK'
  BY <1>2, <1>3, <1>4, MoveKeepsGuards
<1>6. driver' \in DriverRow
  BY DEF Moves
<1> QED
  BY <1>1, <1>5, <1>6 DEF EngineInv, EngineTypes

\* A call waits for its upstream, goes on, hands over its data, or is through.
LEMMA WaitKeepsInv ==
  ASSUME EngineInv, NEW s \in Sources,
         AwaitUpstream(s) \/ UpstreamAnswers(s) \/ BeginFinal(s) \/ Finish(s)
  PROVE  EngineInv'
<1>1. UNCHANGED <<request, initial, pending, running, seen, out, queue, metrics>>
  BY DEF AwaitUpstream, UpstreamAnswers, BeginFinal, Finish, workerUnchanged
<1>2. CASE AwaitUpstream(s)
  <2>1. /\ Polled(s) /\ worker[s].pc = "call" /\ worker' = [worker EXCEPT ![s].pc = "io"]
        /\ driver' = [driver EXCEPT !.at = @ + 1] /\ UNCHANGED <<armed, woken>>
    BY <1>2 DEF AwaitUpstream, Runs
  <2>2. s \in ToSet(running) /\ driver' \in DriverRow /\ driver'.pc = driver.pc
    BY <2>1, PolledFacts, DriverPass DEF EngineInv
  <2>3. PICK w : Moves(s, w) /\ w.pc = "io" /\ Same(w, worker[s])
    BY <1>1, <2>1, <2>2, PcMoves DEF Started
  <2>4. armed' \subseteq Sources /\ woken' \in BOOLEAN
    BY <2>1 DEF EngineInv, EngineTypes
  <2> QED
    BY <1>1, <2>1, <2>3, <2>4, SilentMoveKeepsInv
<1>3. CASE UpstreamAnswers(s)
  <2>1. /\ worker[s].pc = "io" /\ worker' = [worker EXCEPT ![s].pc = "call", ![s].rested = TRUE]
        /\ woken' = TRUE /\ UNCHANGED <<armed, driver>>
    BY <1>3 DEF UpstreamAnswers
  <2>2. s \in ToSet(running) /\ driver' \in DriverRow /\ driver'.pc = driver.pc
    BY <2>1 DEF EngineInv, EngineTypes, PlanOK, Started
  <2>3. PICK w : Moves(s, w) /\ w.pc = "call" /\ Same(w, worker[s])
    BY <1>1, <2>1, <2>2, PcMoves DEF Started
  <2>4. armed' \subseteq Sources /\ woken' \in BOOLEAN
    BY <2>1 DEF EngineInv, EngineTypes
  <2> QED
    BY <1>1, <2>1, <2>3, <2>4, SilentMoveKeepsInv
<1>4. CASE BeginFinal(s)
  <2>1. /\ Polled(s) /\ worker[s].pc = "call"
        /\ worker' = [worker EXCEPT ![s] = [@ EXCEPT !.pc = "final", !.next = 1]]
        /\ UNCHANGED <<armed, driver, woken>>
    BY <1>4 DEF BeginFinal, Runs
  <2>2. s \in ToSet(running) /\ driver' \in DriverRow /\ driver'.pc = driver.pc
    BY <2>1, PolledFacts DEF EngineInv, EngineTypes
  <2>3. PICK w : Moves(s, w) /\ w.pc = "final" /\ Same(w, worker[s])
    BY <1>1, <2>1, <2>2, PcMoves DEF Started
  <2>4. armed' \subseteq Sources /\ woken' \in BOOLEAN
    BY <2>1 DEF EngineInv, EngineTypes
  <2> QED
    BY <1>1, <2>1, <2>3, <2>4, SilentMoveKeepsInv
<1>5. CASE Finish(s)
  <2>1. /\ Polled(s) /\ worker[s].pc = "closing" /\ worker' = [worker EXCEPT ![s].pc = "done"]
        /\ driver' = [driver EXCEPT !.at = @ + 1, !.progressed = TRUE]
        /\ woken' = (woken \/ s \in armed) /\ armed' = armed \ {s}
    BY <1>5 DEF Finish, Runs
  <2>2. s \in ToSet(running) /\ driver' \in DriverRow /\ driver'.pc = driver.pc
    BY <2>1, PolledFacts, DriverPass DEF EngineInv
  <2>3. PICK w : Moves(s, w) /\ w.pc = "done" /\ Same(w, worker[s])
    BY <1>1, <2>1, <2>2, PcMoves DEF Started
  <2>4. armed' \subseteq Sources /\ woken' \in BOOLEAN
    BY <2>1 DEF EngineInv, EngineTypes
  <2> QED
    BY <1>1, <2>1, <2>3, <2>4, SilentMoveKeepsInv
<1> QED
  BY <1>2, <1>3, <1>4, <1>5

\* A call ends well.
LEMMA SucceedKeepsInv ==
  ASSUME EngineInv, NEW s \in Sources, Succeed(s)
  PROVE  EngineInv'
<1>1. /\ Polled(s) /\ worker[s].pc \in {"call", "final"}
      /\ worker' = [worker EXCEPT ![s].pc = "closing"]
      /\ metrics' = [metrics EXCEPT ![s].successes = @ + 1]
      /\ UNCHANGED <<request, initial, pending, running, seen, out, queue, armed, driver, woken>>
  BY DEF Succeed, Runs, workerUnchanged
<1>2. s \in ToSet(running) /\ driver' \in DriverRow
  BY <1>1, PolledFacts DEF EngineInv, EngineTypes
<1>3. PICK w : Moves(s, w) /\ w.pc = "closing" /\ Same(w, worker[s])
  BY <1>1, <1>2, PcMoves DEF Started
<1> DEFINE m == [metrics[s] EXCEPT !.successes = @ + 1]
<1>4. metrics[s] \in MeterRow /\ Balanced(metrics[s], worker[s].pc)
  BY BalanceFacts
<1>5. /\ m \in MeterRow /\ m.requests = metrics[s].requests
      /\ m.successes = metrics[s].successes + 1 /\ m.failures = metrics[s].failures
      /\ m.cancelled = metrics[s].cancelled
  BY <1>4, MeterFacts
<1>6. metrics' = [metrics EXCEPT ![s] = m]
  BY <1>1 DEF EngineInv, EngineTypes
<1> HIDE DEF m
<1>7. Balanced(m, "closing")
  <2>1. /\ metrics[s].requests \in Nat /\ metrics[s].successes \in Nat
        /\ metrics[s].failures \in Nat /\ metrics[s].cancelled \in Nat
    BY <1>4, MeterFacts
  <2>2. /\ metrics[s].requests <= 1
        /\ metrics[s].requests
             = metrics[s].successes + metrics[s].failures + metrics[s].cancelled + 1
    BY <1>1, <1>4 DEF Balanced
  <2>3. m.requests <= 1 /\ m.requests = m.successes + m.failures + m.cancelled + 0
    BY <1>5, <2>1, <2>2
  <2> QED
    BY <2>3 DEF Balanced
<1>8. GuardOK' /\ metrics' \in [Sources -> MeterRow]
  BY <1>3, <1>5, <1>6, <1>7, MoveKeepsGuards
<1>9. ChannelOK' /\ PlanOK' /\ worker' \in [Sources -> WorkerRow]
  BY <1>1, <1>3, MoveKeepsChannels, MoveFacts DEF Same
<1> QED
  BY <1>1, <1>2, <1>8, <1>9 DEF EngineInv, EngineTypes

\* A worker's row when it has handed over an item, when the sink has rejected it, and
\* when the channel has taken it.
HandedOver(v) == [v EXCEPT !.next = @ + 1, !.count = @ + 1, !.rested = FALSE]
Refused(v, n) == [HandedOver(v) EXCEPT !.err = TRUE, !.next = n + 1]
Parks(v, b) == [v EXCEPT !.parked = b]

\* What these rows say.
LEMMA SinkFacts ==
  ASSUME NEW v \in WorkerRow, NEW n \in Nat, NEW b \in BOOLEAN
  PROVE  /\ HandedOver(v) \in WorkerRow
         /\ Refused(v, n) \in WorkerRow /\ Refused(v, n).pc = v.pc
         /\ Refused(v, n).count = v.count + 1 /\ Refused(v, n).err
         /\ Refused(v, n).parked = v.parked /\ Refused(v, n).next = n + 1
         /\ Parks(HandedOver(v), b) \in WorkerRow /\ Parks(HandedOver(v), b).pc = v.pc
         /\ Parks(HandedOver(v), b).count = v.count + 1
         /\ Parks(HandedOver(v), b).err = v.err /\ Parks(HandedOver(v), b).parked = b
<1> DEFINE w == [v EXCEPT !.next = @ + 1, !.count = @ + 1, !.rested = FALSE]
           k == v.next + 1
           c == v.count + 1
<1>1. /\ v.next \in Nat \ {0} /\ v.count \in Nat /\ v.pc \in WorkerPcs /\ v.err \in BOOLEAN
      /\ v.parked \in BOOLEAN
  BY DEF WorkerRow
<1>2. k \in Nat \ {0} /\ c \in Nat /\ n + 1 \in Nat \ {0}
  BY <1>1
<1>3. w = [v EXCEPT !.next = k, !.count = c, !.rested = FALSE]
  BY Zenon
<1> HIDE DEF k, c
<1> DEFINE u == [v EXCEPT !.next = k, !.count = c, !.rested = FALSE]
<1>4. /\ u.pc = v.pc /\ u.next = k /\ u.count = c /\ u.err = v.err /\ u.parked = v.parked
      /\ u.rested = FALSE
      /\ u = [i \in {"pc", "next", "count", "err", "parked", "rested"} |-> u[i]]
  BY DEF WorkerRow
<1> HIDE DEF u
<1>5. u = [pc |-> v.pc, next |-> k, count |-> c, err |-> v.err, parked |-> v.parked,
           rested |-> FALSE]
  BY <1>4
<1>6. u \in WorkerRow
  BY <1>1, <1>2, <1>5 DEF WorkerRow
<1>7. /\ [u EXCEPT !.parked = b] \in WorkerRow /\ [u EXCEPT !.parked = b].pc = u.pc
      /\ [u EXCEPT !.parked = b].count = u.count /\ [u EXCEPT !.parked = b].err = u.err
      /\ [u EXCEPT !.parked = b].parked = b
  BY <1>6 DEF WorkerRow
<1> DEFINE l == n + 1
<1>8. l \in Nat \ {0}
  BY <1>2
<1> HIDE DEF l
<1>9. /\ [u EXCEPT !.err = TRUE, !.next = l] \in WorkerRow
      /\ [u EXCEPT !.err = TRUE, !.next = l].pc = u.pc
      /\ [u EXCEPT !.err = TRUE, !.next = l].count = u.count
      /\ [u EXCEPT !.err = TRUE, !.next = l].err = TRUE
      /\ [u EXCEPT !.err = TRUE, !.next = l].parked = u.parked
      /\ [u EXCEPT !.err = TRUE, !.next = l].next = l
  BY <1>6, <1>8 DEF WorkerRow
<1>10. w = u
  BY <1>3 DEF u
<1> HIDE DEF w
<1> QED
  BY <1>4, <1>6, <1>7, <1>9, <1>10 DEF l, c, w, HandedOver, Refused, Parks

\* The items of a source's script.
LEMMA ItemFacts ==
  ASSUME EngineInv, NEW s \in Sources
  PROVE  /\ Items(s) \in Seq(Records \cup {BAD}) /\ Len(Items(s)) \in Nat
         /\ \A i \in 1..Len(Items(s)) : Items(s)[i] \in Records \cup {BAD}
<1>1. request.script \in [Sources -> Scripts]
  BY DEF EngineInv, EngineTypes
<1>2. Script(s) \in [chunks : Seq(Records \cup {BAD}), data : Seq(Records \cup {BAD}),
                     outcome : {"ok", "error", "cancelled"}]
  BY <1>1, EngineAssumption DEF Script
<1>3. Items(s) \in Seq(Records \cup {BAD})
  BY <1>2 DEF Items
<1> QED
  BY <1>3, Elements

\* The two ends of an item: the sink rejects it, or it is in the channel.
LEMMA EmitFacts ==
  ASSUME EngineInv, NEW s \in Sources, EmitRecord(s)
  PROVE  \E w :
    /\ Moves(s, w) /\ w.pc = worker[s].pc /\ w.count = worker[s].count + 1
    /\ worker[s].next \in 1..Len(Items(s)) /\ ~worker[s].parked
    /\ \/ /\ w.err /\ w.next = Len(Items(s)) + 1 /\ w.parked = worker[s].parked
          /\ UNCHANGED <<queue, armed, woken>>
       \/ /\ ~worker[s].err /\ ~w.err /\ (w.parked <=> Len(queue[s]) + 1 > EventBuffer)
          /\ \E e \in Event :
               /\ e.type = "record" /\ e.source = s
               /\ queue' = [queue EXCEPT ![s] = Append(@, e)]
          /\ woken' = (woken \/ s \in armed) /\ armed' = armed \ {s}
          /\ ChannelOK' /\ queue' \in [Sources -> Seq(Event)]
<1> DEFINE v == worker[s]
           n == Len(Items(s))
           x == Items(s)[worker[s].next]
           u == HandedOver(v)
           b == Len(queue[s]) + 1 > EventBuffer
           bad == Refused(v, n)
           sent == Parks(u, b)
<1>1. /\ Polled(s) /\ v.pc \in {"call", "final"} /\ ~v.parked /\ v.next <= n
      /\ UNCHANGED <<request, initial, pending, running, seen, out, driver, metrics>>
  BY DEF EmitRecord, Runs, workerUnchanged
<1>2. s \in ToSet(running) /\ driver' \in DriverRow /\ driver'.pc = driver.pc
  BY <1>1, PolledFacts DEF EngineInv, EngineTypes
<1>3. v \in WorkerRow /\ v.next \in Nat \ {0} /\ n \in Nat /\ b \in BOOLEAN
  BY ItemFacts DEF EngineInv, EngineTypes, WorkerRow
<1>4. v.next \in 1..n
  BY <1>1, <1>3
<1>5. x \in Records \cup {BAD}
  BY <1>4, ItemFacts
<1>6. /\ u \in WorkerRow
      /\ bad \in WorkerRow /\ bad.pc = v.pc /\ bad.count = v.count + 1 /\ bad.err
      /\ bad.parked = v.parked /\ bad.next = n + 1
      /\ sent \in WorkerRow /\ sent.pc = v.pc /\ sent.count = v.count + 1
      /\ sent.err = v.err /\ sent.parked = b
  <2> HIDE DEF n, b
  <2>1. v \in WorkerRow /\ n \in Nat /\ b \in BOOLEAN
    BY <1>3
  <2> HIDE DEF v
  <2>2. u \in WorkerRow
    BY <2>1, SinkFacts
  <2>3. bad \in WorkerRow /\ bad.pc = v.pc
    BY <2>1, SinkFacts
  <2>4. bad.err
    BY <2>1, SinkFacts
  <2>5. bad.count = v.count + 1 /\ bad.parked = v.parked /\ bad.next = n + 1
    BY <2>1, SinkFacts
  <2>6. sent \in WorkerRow /\ sent.pc = v.pc /\ sent.count = v.count + 1
    BY <2>1, SinkFacts
  <2>7. sent.err = v.err
    BY <2>1, SinkFacts
  <2>8. sent.parked = b
    BY <2>1, SinkFacts
  <2> QED
    BY <2>2, <2>3, <2>4, <2>5, <2>6, <2>7, <2>8
<1>7. IF Rejected(v, x)
      THEN worker' = [worker EXCEPT ![s] = bad] /\ UNCHANGED <<queue, armed, woken>>
      ELSE Send(s, u, Record(s, x))
  BY Zenon DEF EmitRecord, HandedOver, Refused
<1> HIDE DEF bad
<1>8. CASE Rejected(v, x)
  <2>1. Moves(s, bad)
    BY <1>1, <1>2, <1>6, <1>7, <1>8 DEF Moves, Started
  <2> QED
    BY <1>1, <1>4, <1>6, <1>7, <1>8, <2>1
<1>9. CASE ~Rejected(v, x)
  <2>1. /\ queue' = [queue EXCEPT ![s] = Append(@, Record(s, x))]
        /\ worker' = [worker EXCEPT ![s] = sent]
        /\ woken' = (woken \/ s \in armed) /\ armed' = armed \ {s}
    BY <1>7, <1>9 DEF Send, Parks
  <2>2. ~v.err
    BY <1>9 DEF Rejected
  <2>3. Record(s, x) \in Event /\ Record(s, x).type = "record" /\ Record(s, x).source = s
    BY <1>5 DEF Record, Event
  <2> HIDE DEF sent
  <2>4. Moves(s, sent)
    BY <1>1, <1>2, <1>6, <2>1 DEF Moves, Started
  <2>5. ChannelOK' /\ queue' \in [Sources -> Seq(Event)]
    <3>1. Moves(s, [u EXCEPT !.parked = Len(queue[s]) + 1 > EventBuffer])
      BY <2>4 DEF sent, Parks
    <3> HIDE DEF u
    <3> QED
      BY <1>1, <1>6, <2>1, <2>3, <3>1, SendKeepsChannels
  <2> HIDE DEF x
  <2>6. ~sent.err /\ (sent.parked <=> Len(queue[s]) + 1 > EventBuffer)
    BY <1>6, <2>2
  <2>7. sent.pc = worker[s].pc /\ sent.count = worker[s].count + 1
    BY <1>6
  <2>8. \E e \in Event : /\ e.type = "record" /\ e.source = s
                         /\ queue' = [queue EXCEPT ![s] = Append(@, e)]
    BY <2>1, <2>3
  <2> QED
    BY <1>1, <1>4, <2>1, <2>2, <2>4, <2>5, <2>6, <2>7, <2>8, Zenon
<1> QED
  BY <1>8, <1>9

\* An item goes to the sink.
LEMMA EmitRecordKeepsInv ==
  ASSUME EngineInv, NEW s \in Sources, EmitRecord(s)
  PROVE  EngineInv'
<1>1. UNCHANGED <<request, initial, pending, running, seen, out, driver, metrics>>
  BY DEF EmitRecord, workerUnchanged
<1>2. PICK w :
    /\ Moves(s, w) /\ w.pc = worker[s].pc /\ w.count = worker[s].count + 1
    /\ worker[s].next \in 1..Len(Items(s)) /\ ~worker[s].parked
    /\ \/ /\ w.err /\ w.next = Len(Items(s)) + 1 /\ w.parked = worker[s].parked
          /\ UNCHANGED <<queue, armed, woken>>
       \/ /\ ~worker[s].err /\ ~w.err /\ (w.parked <=> Len(queue[s]) + 1 > EventBuffer)
          /\ \E e \in Event :
               /\ e.type = "record" /\ e.source = s
               /\ queue' = [queue EXCEPT ![s] = Append(@, e)]
          /\ woken' = (woken \/ s \in armed) /\ armed' = armed \ {s}
          /\ ChannelOK' /\ queue' \in [Sources -> Seq(Event)]
  BY EmitFacts
<1>3. PlanOK' /\ worker' \in [Sources -> WorkerRow] /\ driver' \in DriverRow
  BY <1>2, MoveFacts DEF Moves
<1>4. ChannelOK' /\ queue' \in [Sources -> Seq(Event)]
  <2>1. CASE UNCHANGED queue /\ w.parked = worker[s].parked
    BY <1>2, <2>1, MoveKeepsChannels DEF EngineInv, EngineTypes
  <2> QED
    BY <1>2, <2>1
<1>5. armed' \subseteq Sources /\ woken' \in BOOLEAN
  BY <1>2 DEF EngineInv, EngineTypes
<1>6. GuardOK'
  <2>1. metrics[s] \in MeterRow /\ Balanced(metrics[s], w.pc)
    BY <1>2, BalanceFacts
  <2>2. metrics' = [metrics EXCEPT ![s] = metrics[s]]
    BY <1>1 DEF EngineInv, EngineTypes
  <2> QED
    BY <1>2, <2>1, <2>2, MoveKeepsGuards
<1> QED
  BY <1>1, <1>3, <1>4, <1>5, <1>6 DEF EngineInv, EngineTypes

\* One more failed or cancelled call in m than in v.
OneMore(m, v) ==
  /\ m.requests = v.requests /\ m.successes = v.successes
  /\ m.emitted = v.emitted /\ m.deduplicated = v.deduplicated
  /\ \/ m.failures = v.failures + 1 /\ m.cancelled = v.cancelled
     \/ m.failures = v.failures /\ m.cancelled = v.cancelled + 1

\* A failed call is counted, and its failure is in the channel.
LEMMA FailFacts ==
  ASSUME EngineInv, NEW s \in Sources, Fail(s)
  PROVE  \E w : \E m \in MeterRow :
    /\ Moves(s, w) /\ w.pc = "closing" /\ w.count = worker[s].count /\ w.err = worker[s].err
    /\ ~worker[s].parked /\ (w.parked <=> Len(queue[s]) + 1 > EventBuffer)
    /\ worker[s].pc \in {"call", "final"}
    /\ queue' = [queue EXCEPT ![s] = Append(@, Failed(s))] /\ Failed(s) \in Event
    /\ woken' = (woken \/ s \in armed) /\ armed' = armed \ {s}
    /\ ChannelOK' /\ queue' \in [Sources -> Seq(Event)]
    /\ OneMore(m, metrics[s]) /\ metrics' = [metrics EXCEPT ![s] = m]
<1> DEFINE u == [worker[s] EXCEPT !.pc = "closing"]
           w == Parks(u, Len(queue[s]) + 1 > EventBuffer)
<1>1. /\ Polled(s) /\ worker[s].pc \in {"call", "final"} /\ ~worker[s].parked
      /\ UNCHANGED <<request, initial, pending, running, seen, out, driver>>
      /\ Send(s, u, Failed(s))
  BY DEF Fail, Runs, workerUnchanged
<1>2. s \in ToSet(running) /\ driver' \in DriverRow /\ driver'.pc = driver.pc
  BY <1>1, PolledFacts DEF EngineInv, EngineTypes
<1>3. /\ worker[s] \in WorkerRow /\ u \in WorkerRow /\ u.pc = "closing"
      /\ u.count = worker[s].count /\ u.err = worker[s].err
  <2>1. worker[s] \in WorkerRow
    BY DEF EngineInv, EngineTypes
  <2>2. \A v \in WorkerRow :
          /\ [v EXCEPT !.pc = "closing"] \in WorkerRow
          /\ [v EXCEPT !.pc = "closing"].pc = "closing"
          /\ [v EXCEPT !.pc = "closing"].count = v.count
          /\ [v EXCEPT !.pc = "closing"].err = v.err
    BY DEF WorkerRow, WorkerPcs
  <2> QED
    BY <2>1, <2>2
<1>4. /\ queue' = [queue EXCEPT ![s] = Append(@, Failed(s))]
      /\ worker' = [worker EXCEPT ![s] = w]
      /\ woken' = (woken \/ s \in armed) /\ armed' = armed \ {s}
  BY <1>1 DEF Send, Parks
<1> HIDE DEF u
<1>5. /\ w \in WorkerRow /\ w.pc = u.pc /\ w.count = u.count /\ w.err = u.err
      /\ (w.parked <=> Len(queue[s]) + 1 > EventBuffer)
  <2> DEFINE b == Len(queue[s]) + 1 > EventBuffer
  <2>1. b \in BOOLEAN /\ u \in WorkerRow
    BY <1>3
  <2> HIDE DEF b
  <2>2. /\ Parks(u, b) \in WorkerRow /\ Parks(u, b).pc = u.pc /\ Parks(u, b).count = u.count
        /\ Parks(u, b).err = u.err /\ Parks(u, b).parked = b
    BY <2>1 DEF Parks, WorkerRow
  <2> QED
    BY <2>2 DEF b
<1> HIDE DEF w
<1>6. Moves(s, w)
  BY <1>1, <1>2, <1>3, <1>4, <1>5 DEF Moves, Started
<1>7. Failed(s) \in Event
  BY DEF Failed, Event
<1>8. ChannelOK' /\ queue' \in [Sources -> Seq(Event)]
  <2>1. Moves(s, [u EXCEPT !.parked = Len(queue[s]) + 1 > EventBuffer])
    BY <1>6 DEF w, Parks
  <2> QED
    BY <1>1, <1>3, <1>4, <1>7, <2>1, SendKeepsChannels
<1>9. \E m \in MeterRow : OneMore(m, metrics[s]) /\ metrics' = [metrics EXCEPT ![s] = m]
  <2> DEFINE m == IF worker[s].err \/ Script(s).outcome = "error"
                  THEN [metrics[s] EXCEPT !.failures = @ + 1]
                  ELSE [metrics[s] EXCEPT !.cancelled = @ + 1]
  <2>1. metrics' = [metrics EXCEPT ![s] = m]
    <3>1. metrics \in [Sources -> MeterRow]
      BY DEF EngineInv, EngineTypes
    <3>2. IF worker[s].err \/ Script(s).outcome = "error"
          THEN metrics' = [metrics EXCEPT ![s].failures = @ + 1]
          ELSE metrics' = [metrics EXCEPT ![s].cancelled = @ + 1]
      BY DEF Fail
    <3>3. CASE worker[s].err \/ Script(s).outcome = "error"
      BY <3>1, <3>2, <3>3
    <3>4. CASE ~(worker[s].err \/ Script(s).outcome = "error")
      BY <3>1, <3>2, <3>4
    <3> QED
      BY <3>3, <3>4
  <2>2. \A v \in MeterRow : /\ [v EXCEPT !.failures = @ + 1] \in MeterRow
                            /\ OneMore([v EXCEPT !.failures = @ + 1], v)
    BY DEF MeterRow, OneMore
  <2>3. \A v \in MeterRow : /\ [v EXCEPT !.cancelled = @ + 1] \in MeterRow
                            /\ OneMore([v EXCEPT !.cancelled = @ + 1], v)
    BY DEF MeterRow, OneMore
  <2>4. metrics[s] \in MeterRow
    BY DEF EngineInv, EngineTypes
  <2>5. m \in MeterRow /\ OneMore(m, metrics[s])
    BY <2>2, <2>3, <2>4
  <2> HIDE DEF m
  <2> QED
    BY <2>1, <2>5
<1>10. w.pc = "closing" /\ w.count = worker[s].count /\ w.err = worker[s].err
  BY <1>3, <1>5
<1>11. w.parked <=> Len(queue[s]) + 1 > EventBuffer
  BY <1>5
<1> QED
  BY <1>1, <1>4, <1>6, <1>7, <1>8, <1>9, <1>10, <1>11, Zenon

\* A call fails.
LEMMA FailKeepsInv ==
  ASSUME EngineInv, NEW s \in Sources, Fail(s)
  PROVE  EngineInv'
<1>1. UNCHANGED <<request, initial, pending, running, seen, out, driver>>
  BY DEF Fail, workerUnchanged
<1>2. PICK w : \E m \in MeterRow :
    /\ Moves(s, w) /\ w.pc = "closing" /\ w.count = worker[s].count /\ w.err = worker[s].err
    /\ ~worker[s].parked /\ (w.parked <=> Len(queue[s]) + 1 > EventBuffer)
    /\ worker[s].pc \in {"call", "final"}
    /\ queue' = [queue EXCEPT ![s] = Append(@, Failed(s))] /\ Failed(s) \in Event
    /\ woken' = (woken \/ s \in armed) /\ armed' = armed \ {s}
    /\ ChannelOK' /\ queue' \in [Sources -> Seq(Event)]
    /\ OneMore(m, metrics[s]) /\ metrics' = [metrics EXCEPT ![s] = m]
  BY FailFacts, Zenon
<1>0. PICK m \in MeterRow : OneMore(m, metrics[s]) /\ metrics' = [metrics EXCEPT ![s] = m]
  BY <1>2
<1>3. metrics[s] \in MeterRow /\ Balanced(metrics[s], worker[s].pc)
  BY BalanceFacts
<1>6. Balanced(m, "closing")
  <2>1. /\ metrics[s].requests \in Nat /\ metrics[s].successes \in Nat
        /\ metrics[s].failures \in Nat /\ metrics[s].cancelled \in Nat
    BY <1>3, MeterFacts
  <2>2. /\ metrics[s].requests <= 1
        /\ metrics[s].requests
             = metrics[s].successes + metrics[s].failures + metrics[s].cancelled + 1
    BY <1>2, <1>3 DEF Balanced
  <2>3. m.requests <= 1 /\ m.requests = m.successes + m.failures + m.cancelled + 0
    BY <1>0, <2>1, <2>2 DEF OneMore
  <2> QED
    BY <2>3 DEF Balanced
<1>7. GuardOK' /\ metrics' \in [Sources -> MeterRow]
  <2>1. Moves(s, w) /\ Balanced(m, w.pc)
    BY <1>2, <1>6
  <2> QED
    BY <1>0, <2>1, MoveKeepsGuards
<1>8. PlanOK' /\ worker' \in [Sources -> WorkerRow] /\ driver' \in DriverRow
  BY <1>2, MoveFacts DEF Moves
<1>9. armed' \subseteq Sources /\ woken' \in BOOLEAN
  BY <1>2 DEF EngineInv, EngineTypes
<1> QED
  BY <1>1, <1>2, <1>7, <1>8, <1>9 DEF EngineInv, EngineTypes

\* The engine's invariant holds at first.
LEMMA EngineBegins ==
  ASSUME EngineInit
  PROVE  EngineInv
<1>1. /\ request \in [strict : StrictModes, missing : MissingIds, script : [Sources -> Scripts]]
      /\ StrictModes \subseteq BOOLEAN /\ initial = Diagnostics /\ pending = Order
      /\ Order \in Seq(Sources) /\ MissingIds \subseteq Seq(STRING)
      /\ running = <<>> /\ worker = [s \in Sources |-> NewWorker("none")]
      /\ queue = [s \in Sources |-> <<>>] /\ armed = {} /\ out = <<>> /\ woken = FALSE
      /\ driver = [pc |-> "rest", at |-> 1, progressed |-> FALSE, cursor |-> 1]
      /\ metrics = [s \in Sources |-> NoMetrics]
  BY EngineAssumption DEF EngineInit
<1>2. initial \in Seq(Event)
  <2>1. request.missing \in Seq(STRING)
    BY <1>1
  <2>2. \A i \in 1..Len(request.missing) : Failed(request.missing[i]) \in Event
    BY <2>1, Elements DEF Failed, Event
  <2>3. Len(request.missing) \in Nat
    BY <2>1
  <2> QED
    BY <1>1, <2>2, <2>3 DEF Diagnostics
<1>3. NewWorker("none") \in WorkerRow /\ NoMetrics \in MeterRow /\ driver \in DriverRow
  BY <1>1 DEF NewWorker, WorkerRow, WorkerPcs, NoMetrics, MeterRow, DriverRow
<1>4. EngineTypes
  <2>1. request \in [strict : BOOLEAN, missing : MissingIds, script : [Sources -> Scripts]]
    BY <1>1
  <2>2. pending \in Seq(Sources) /\ running \in Seq(Sources) /\ out \in Seq(Event)
    BY <1>1
  <2>3. /\ worker \in [Sources -> WorkerRow] /\ queue \in [Sources -> Seq(Event)]
        /\ metrics \in [Sources -> MeterRow]
    BY <1>1, <1>3
  <2> QED
    BY <1>1, <1>2, <1>3, <2>1, <2>2, <2>3 DEF EngineTypes
<1>5. /\ \A s \in Sources : /\ worker[s].pc = "none" /\ ~worker[s].parked /\ queue[s] = <<>>
                            /\ metrics[s].requests = 0 /\ metrics[s].successes = 0
                            /\ metrics[s].failures = 0 /\ metrics[s].cancelled = 0
      /\ Len(<<>>) = 0 /\ ToSet(<<>>) = {}
  BY <1>1 DEF NewWorker, NoMetrics, ToSet
<1>6. PlanOK
  <2>1. \A i \in 1..Len(pending) : pending[i] \in Sources
    BY <1>1, Elements
  <2> QED
    BY <1>1, <1>5, <2>1, EngineAssumption DEF PlanOK, Distinct, Started, At
<1>7. ChannelOK
  BY <1>5, EngineAssumption DEF ChannelOK
<1>8. GuardOK
  BY <1>5 DEF GuardOK, GuardHeld
<1> QED
  BY <1>4, <1>6, <1>7, <1>8 DEF EngineInv

\* Every step of the engine keeps it.
LEMMA EngineSteps ==
  ASSUME EngineInv, [EngineNext]_engineVars
  PROVE  EngineInv'
<1>1. CASE UNCHANGED engineVars
  BY <1>1 DEF engineVars, EngineInv, EngineTypes, PlanOK, ChannelOK, GuardOK, GuardHeld, At,
              Distinct
<1>2. ASSUME NEW s \in Sources,
             DrainRecord(s) \/ DrainFailure(s) \/ DrainClosed(s) \/ WorkerStep(s)
               \/ UpstreamAnswers(s)
      PROVE  EngineInv'
  BY <1>2, DrainRecordKeepsInv, DrainFailureKeepsInv, DrainClosedKeepsInv, BeginCallKeepsInv,
     WaitKeepsInv, EmitRecordKeepsInv, SucceedKeepsInv, FailKeepsInv, PassKeepsInv
     DEF WorkerStep
<1>3. CASE PollNext \/ DrainInitial \/ DrainDry \/ Decide \/ WorkersPolled \/ Drop
  BY <1>3, PollKeepsInv, DrainInitialKeepsInv, DrainDryKeepsInv, DecideKeepsInv, PassKeepsInv,
     DropKeepsInv
<1> QED
  BY <1>1, <1>2, <1>3 DEF EngineNext, PollStep, DriverStep

\* The invariant of the engine, for the engine on its own.
LEMMA EngineKeepsInv == EngineSpec => []EngineInv
<1>1. EngineInit => EngineInv
  BY EngineBegins
<1>2. EngineInv /\ [EngineNext]_engineVars => EngineInv'
  BY EngineSteps
<1> QED
  BY <1>1, <1>2, PTL DEF EngineSpec

\* What a channel holds is bounded, and so is the number of workers.
LEMMA InvBounds ==
  ASSUME EngineInv
  PROVE  Backpressure
<1>1. EventBuffer \in Nat
  BY EngineAssumption
<1>2. ASSUME NEW s \in Sources
      PROVE  Len(queue[s]) <= EventBuffer + 1
  <2>1. Len(queue[s]) \in Nat
    BY Elements DEF EngineInv, EngineTypes
  <2>2. /\ worker[s].parked => Len(queue[s]) = EventBuffer + 1
        /\ ~worker[s].parked => Len(queue[s]) <= EventBuffer
    BY DEF EngineInv, ChannelOK
  <2> QED
    BY <1>1, <2>1, <2>2
<1> QED
  BY <1>2 DEF EngineInv, PlanOK, Backpressure

\* Once nothing runs, no guard is held.
LEMMA NoGuardLeft ==
  ASSUME EngineInv, running = <<>>, NEW s \in Sources
  PROVE  /\ worker[s].pc \in {"none", "done", "dropped"}
         /\ metrics[s].requests
              = metrics[s].successes + metrics[s].failures + metrics[s].cancelled
         /\ metrics[s].requests <= 1
<1>1. ToSet(running) = {}
  BY DEF ToSet
<1>2. worker[s].pc \in {"none", "done", "dropped"}
  BY <1>1 DEF EngineInv, EngineTypes, WorkerRow, WorkerPcs, PlanOK, Started
<1>3. metrics[s] \in MeterRow /\ Balanced(metrics[s], worker[s].pc)
  BY BalanceFacts
<1>4. /\ metrics[s].requests
           = metrics[s].successes + metrics[s].failures + metrics[s].cancelled + 0
      /\ metrics[s].requests <= 1
  BY <1>2, <1>3 DEF Balanced
<1> QED
  <2>1. /\ metrics[s].successes \in Nat /\ metrics[s].failures \in Nat
        /\ metrics[s].cancelled \in Nat
    BY <1>3, MeterFacts
  <2>2. metrics[s].requests
          = metrics[s].successes + metrics[s].failures + metrics[s].cancelled
    BY <1>4, <2>1
  <2> QED
    BY <1>2, <1>4, <2>2

-----------------------------------------------------------------------------
(* The theorems about the engine *)

\* However slow the consumer and however fast the sources, at most MaxActive workers
\* run and a channel holds at most one event over its buffer.
THEOREM MemoryIsBounded == EngineSpec => []Backpressure
<1>1. EngineInv => Backpressure
  BY InvBounds
<1> QED
  BY <1>1, EngineKeepsInv, PTL

\* When the stream is over, however it ended, every request that was counted has
\* exactly one outcome in the metrics.
THEOREM RequestsHaveOneOutcome == EngineSpec => []OneOutcomePerRequest
<1>1. EngineInv => OneOutcomePerRequest
  <2> SUFFICES ASSUME EngineInv, At("ended") \/ At("dropped"), NEW s \in Sources
               PROVE  /\ metrics[s].requests
                           = metrics[s].successes + metrics[s].failures + metrics[s].cancelled
                      /\ metrics[s].requests <= 1
    BY DEF OneOutcomePerRequest
  <2>1. running = <<>>
    BY DEF EngineInv, PlanOK
  <2> QED
    BY <2>1, NoGuardLeft
<1> QED
  BY <1>1, EngineKeepsInv, PTL

-----------------------------------------------------------------------------
(* The command that consumes the stream *)

\* One event at most is not printed yet, and only while the command holds it; when
\* the command has exited, nothing runs.
StreamInv ==
  /\ EngineInv
  /\ state.printed \in Nat
  /\ Waiting \/ (At("rest") /\ Len(out) = state.printed + 1)
  /\ exit # RUNNING => Waiting /\ running = <<>>

\* poll_next delivers one event and returns, or none and goes on.
LEMMA PollDelivers ==
  ASSUME EngineInv, PollStep
  PROVE  /\ ~At("rest")
         /\ out' = out \/ (Len(out') = Len(out) + 1 /\ driver'.pc = "rest")
<1>1. \A e : e \in Event => Len(Append(out, e)) = Len(out) + 1
  BY AppendFacts DEF EngineInv, EngineTypes
<1>2. driver \in DriverRow /\ out \in Seq(Event)
  BY DEF EngineInv, EngineTypes
<1>3. \A n \in Nat \ {0} : [driver EXCEPT !.pc = "rest", !.cursor = n].pc = "rest"
  BY <1>2 DEF DriverRow
<1>4. [driver EXCEPT !.pc = "rest"].pc = "rest"
  BY <1>2 DEF DriverRow
<1>5. CASE DrainInitial
  <2>1. Head(initial) \in Event /\ out' = Append(out, Head(initial)) /\ ~At("rest")
    BY <1>5, TailFacts DEF DrainInitial, Draining, At, EngineInv, EngineTypes
  <2>2. driver'.pc = "rest"
    BY <1>4, <1>5 DEF DrainInitial, Goto
  <2> QED
    BY <1>1, <2>1, <2>2
<1>6. ASSUME NEW s \in Sources, DrainRecord(s) \/ DrainFailure(s)
      PROVE  /\ ~At("rest")
             /\ out' = out \/ (Len(out') = Len(out) + 1 /\ driver'.pc = "rest")
  <2>1. Receiving(s) /\ queue[s] # <<>> /\ ~At("rest") /\ running # <<>>
    BY <1>6 DEF DrainRecord, DrainFailure, Receiving, Draining, At
  <2>2. Head(queue[s]) \in Event
    BY <2>1, TailFacts DEF EngineInv, EngineTypes
  <2>3. NextCursor \in Nat \ {0}
    BY <2>1, CurrentFacts
  <2>4. out' = out \/ (out' = Append(out, Head(queue[s])) /\ driver'.pc = "rest")
    <3>1. CASE DrainRecord(s)
      BY <1>3, <2>3, <3>1 DEF DrainRecord
    <3>2. CASE DrainFailure(s)
      BY <1>3, <1>4, <2>3, <3>2 DEF DrainFailure, Goto
    <3> QED
      BY <1>6, <3>1, <3>2
  <2> QED
    BY <1>1, <2>1, <2>2, <2>4
<1>7. ASSUME NEW s \in Sources, DrainClosed(s) \/ WorkerStep(s)
      PROVE  ~At("rest") /\ out' = out
  BY <1>7 DEF DrainClosed, Receiving, Draining, At, WorkerStep, BeginCall, AwaitUpstream,
              EmitRecord, BeginFinal, Succeed, Fail, Finish, SkipWorker, Runs, Polled,
              workerUnchanged
<1>8. CASE DrainDry \/ Decide \/ WorkersPolled
  BY <1>8 DEF DrainDry, Decide, WorkersPolled, At, workerUnchanged
<1> QED
  BY <1>5, <1>6, <1>7, <1>8 DEF PollStep, DriverStep

\* The command takes one event.
LEMMA TakeKeepsStream ==
  ASSUME StreamInv, TakeEvent
  PROVE  StreamInv'
<1>1. /\ exit = RUNNING /\ At("rest") /\ Len(out) = state.printed + 1 /\ state.printed \in Nat
      /\ EngineInv
  BY DEF StreamInv, TakeEvent
<1>2. state'.printed = state.printed + 1
  BY DEF TakeEvent, Observe
<1>3. CASE Drop /\ exit' = FailureExit
  <2>1. EngineInv' /\ running' = <<>> /\ out' = out
    BY <1>1, <1>3, DropKeepsInv DEF Drop, DropRunning
  <2> QED
    BY <1>1, <1>2, <2>1 DEF StreamInv, Waiting
<1>4. CASE UNCHANGED <<exit, engineVars>>
  <2>1. EngineInv'
    BY <1>1, <1>4, EngineSteps
  <2> QED
    BY <1>1, <1>2, <1>4, <2>1 DEF StreamInv, Waiting, engineVars
<1> QED
  BY <1>3, <1>4 DEF TakeEvent

\* Every step of the command keeps it.
LEMMA StreamSteps ==
  ASSUME StreamInv, [StreamNext]_streamVars
  PROVE  StreamInv'
<1>1. EngineInv /\ state.printed \in Nat
  BY DEF StreamInv
<1>2. CASE UNCHANGED streamVars
  <2>1. EngineInv'
    BY <1>1, <1>2, EngineSteps DEF streamVars
  <2> QED
    BY <1>2, <2>1 DEF streamVars, engineVars, StreamInv, Waiting, At
<1>3. CASE TakeEvent
  BY <1>3, TakeKeepsStream
<1>4. CASE EndOfStream
  <2>1. EngineInv' /\ UNCHANGED <<out, running, driver, state>> /\ At("ended")
    BY <1>1, <1>4, EngineSteps DEF EndOfStream, engineVars
  <2>2. running = <<>> /\ Waiting
    BY <1>1, <2>1 DEF EngineInv, PlanOK, StreamInv, At
  <2> QED
    BY <1>1, <2>1, <2>2 DEF StreamInv, Waiting
<1>5. CASE EngineRuns
  <2>1. EngineNext /\ exit' = RUNNING /\ state' = state /\ exit = RUNNING
    BY <1>5 DEF EngineRuns, EngineNext
  <2>2. EngineInv'
    BY <1>1, <2>1, EngineSteps
  <2>3. CASE Waiting /\ PollNext
    <3>1. out' = out
      BY <2>3 DEF PollNext
    <3> QED
      BY <1>1, <2>1, <2>2, <2>3, <3>1 DEF StreamInv, Waiting
  <2>4. CASE PollStep
    <3>1. /\ ~At("rest")
          /\ out' = out \/ (Len(out') = Len(out) + 1 /\ driver'.pc = "rest")
      BY <1>1, <2>4, PollDelivers
    <3>2. Waiting
      BY <3>1 DEF StreamInv
    <3>3. Waiting' \/ (At("rest")' /\ Len(out') = state'.printed + 1)
      BY <2>1, <3>1, <3>2 DEF Waiting, At
    <3> QED
      BY <1>1, <2>1, <2>2, <3>3 DEF StreamInv
  <2>5. CASE \E s \in Sources : UpstreamAnswers(s)
    <3>1. UNCHANGED <<out, driver>>
      BY <2>5 DEF UpstreamAnswers, workerUnchanged
    <3> QED
      BY <1>1, <2>1, <2>2, <3>1 DEF StreamInv, Waiting, At
  <2> QED
    BY <1>5, <2>3, <2>4, <2>5 DEF EngineRuns
<1> QED
  BY <1>2, <1>3, <1>4, <1>5 DEF StreamNext

\* At first nothing is printed, and there is nothing to print.
LEMMA StreamBegins ==
  ASSUME StreamInit
  PROVE  StreamInv
<1>1. EngineInv
  BY EngineBegins DEF StreamInit
<1>2. out = <<>> /\ Len(<<>>) = 0 /\ state.printed = 0 /\ exit = RUNNING
  BY DEF StreamInit, EngineInit
<1> QED
  BY <1>1, <1>2 DEF StreamInv, Waiting

\* Whatever its exit code, the command has printed everything the engine delivered,
\* leaves no worker running, and the metrics of every source add up.
THEOREM CommandLeavesNothing == StreamSpec => []NothingLeftBehind
<1>1. StreamInit => StreamInv
  BY StreamBegins
<1>2. StreamInv /\ [StreamNext]_streamVars => StreamInv'
  BY StreamSteps
<1>3. StreamInv => NothingLeftBehind
  BY NoGuardLeft DEF StreamInv, NothingLeftBehind
<1> QED
  BY <1>1, <1>2, <1>3, PTL DEF StreamSpec

-----------------------------------------------------------------------------
(* No wake-up is lost *)

\* Between two passes there is nothing to show.
LEMMA Elsewhere ==
  ASSUME driver'.pc \notin {"workers", "drain2", "asleep"}
  PROVE  PassOK' /\ NoLostWakeup'
BY DEF PassOK, Pass, NoLostWakeup, At

\* A task that is woken, or a source that has finished, makes poll_next loop.
LEMMA WillLoop ==
  ASSUME driver'.pc = "drain2" \/ driver'.pc = "drain", woken' \/ driver'.progressed,
         running' = <<>> => pending' = <<>>
  PROVE  PassOK' /\ NoLostWakeup'
BY DEF PassOK, Pass, NoLostWakeup, At

\* A worker that is polled takes a step.
LEMMA WorkerKeepsWake ==
  ASSUME EngineInv, WakeOK, NEW s \in Sources, NEW w, Polled(s), Moves(s, w), UNCHANGED seen,
         driver'.cursor = driver.cursor,
         driver.progressed => driver'.progressed,
         w.pc = "done" => driver'.progressed,
         \/ driver'.at = driver.at
         \/ driver'.at = driver.at + 1 /\ (w.parked \/ w.pc \in {"io", "done"}),
         woken => woken',
         \/ UNCHANGED <<queue, armed>>
         \/ /\ s \in armed => woken'
            /\ armed' = armed \ {s}
            /\ \A r \in Sources : r # s => queue'[r] = queue[r]
  PROVE  WakeOK'
<1>1. /\ driver.pc = "workers" /\ driver'.pc = "workers" /\ running' = running
      /\ pending' = pending /\ driver.at \in 1..Len(running) /\ s = running[driver.at]
      /\ running \in Seq(Sources)
  BY PolledFacts DEF Moves, EngineInv, EngineTypes
<1>2. worker'[s] = w /\ \A r \in Sources : r # s => worker'[r] = worker[r]
  BY MoveFacts
<1>3. CursorOK'
  BY <1>1 DEF WakeOK, CursorOK, At
<1>4. Pass' /\ running' = <<>> => pending' = <<>>
  BY <1>1 DEF WakeOK, PassOK, Pass, At
<1>5. ASSUME ~woken', NEW i \in 1..Len(running), i < driver'.at
      PROVE  worker'[running[i]].parked \/ worker'[running[i]].pc \in {"io", "done"}
  <2>1. running[i] \in Sources /\ Len(running) \in Nat
    BY <1>1, Elements
  <2>2. CASE i < driver.at
    <3>1. running[i] # s
      BY <1>1, <2>2 DEF EngineInv, PlanOK, Distinct
    <3>2. Settled(running[i])
      BY <1>1, <1>5, <2>2 DEF WakeOK, PassOK, At
    <3> QED
      BY <1>1, <1>2, <2>1, <3>1, <3>2 DEF Settled
  <2>3. CASE ~(i < driver.at)
    <3>1. i = driver.at /\ driver'.at = driver.at + 1
      BY <1>1, <1>5, <2>3
    <3>2. running[i] = s /\ (w.parked \/ w.pc \in {"io", "done"})
      BY <1>1, <3>1
    <3> QED
      BY <1>1, <1>2, <3>2 DEF Settled
  <2> QED
    BY <2>2, <2>3
<1>6. ASSUME ~woken', ~driver'.progressed, running # <<>>
      PROVE  /\ Current' = Current
             /\ worker'[Current].pc # "done"
             /\ seen = {} \/ (queue'[Current] = <<>> /\ Current \in armed')
  <2>1. Current \in Sources
    BY <1>6, CurrentFacts
  <2>2. /\ worker[Current].pc # "done"
        /\ seen = {} \/ (queue[Current] = <<>> /\ Current \in armed)
    BY <1>1, <1>6 DEF WakeOK, PassOK, Pass, At
  <2>3. Current' = Current
    BY <1>1 DEF Current, Normalize
  <2>4. worker'[Current].pc # "done"
    BY <1>2, <1>6, <2>1, <2>2
  <2>5. seen = {} \/ (queue'[Current] = <<>> /\ Current \in armed')
    BY <1>6, <2>1, <2>2
  <2> QED
    BY <2>3, <2>4, <2>5
<1>7. PassOK'
  <2>1. At("workers")' /\ ~At("drain2")'
    BY <1>1 DEF At
  <2>2. ~woken' =>
          \A i \in 1..Len(running') : i < driver'.at =>
            worker'[running'[i]].parked \/ worker'[running'[i]].pc \in {"io", "done"}
    BY <1>1, <1>5
  <2>3. ~woken' /\ ~driver'.progressed /\ running' # <<>> =>
          /\ worker'[Current'].pc # "done"
          /\ seen' = {} \/ (queue'[Current'] = <<>> /\ Current' \in armed')
    BY <1>1, <1>6
  <2> QED
    BY <1>4, <2>1, <2>2, <2>3, Zenon DEF PassOK, Settled
<1>8. NoLostWakeup'
  BY <1>1 DEF NoLostWakeup, At
<1> QED
  BY <1>3, <1>7, <1>8 DEF WakeOK

\* The steps of a worker, one by one.
LEMMA WorkerStepKeepsWake ==
  ASSUME EngineInv, WakeOK, NEW s \in Sources, WorkerStep(s)
  PROVE  WakeOK'
<1>1. Polled(s) /\ UNCHANGED <<request, initial, pending, running, seen, out>>
  BY DEF WorkerStep, BeginCall, AwaitUpstream, EmitRecord, BeginFinal, Succeed, Fail, Finish,
         SkipWorker, Runs, workerUnchanged
<1>2. /\ s \in ToSet(running) /\ driver \in DriverRow /\ worker \in [Sources -> WorkerRow]
      /\ worker[s] \in WorkerRow
  BY <1>1, PolledFacts DEF EngineInv, EngineTypes
<1>3. CASE BeginCall(s) \/ BeginFinal(s) \/ Succeed(s)
  <2>1. UNCHANGED <<driver, queue, armed, woken>>
    BY <1>3 DEF BeginCall, BeginFinal, Succeed
  <2>2. \E p \in {"call", "final", "closing"} :
          \/ worker' = [worker EXCEPT ![s].pc = p]
          \/ worker' = [worker EXCEPT ![s] = [@ EXCEPT !.pc = p, !.next = 1]]
    BY <1>3 DEF BeginCall, BeginFinal, Succeed
  <2>3. PICK p \in {"call", "final", "closing"} :
          \/ worker' = [worker EXCEPT ![s].pc = p]
          \/ worker' = [worker EXCEPT ![s] = [@ EXCEPT !.pc = p, !.next = 1]]
    BY <2>2
  <2>4. p \in Started
    BY DEF Started
  <2>5. PICK w : Moves(s, w) /\ w.pc = p /\ Same(w, worker[s])
    BY <1>1, <1>2, <2>1, <2>3, <2>4, PcMoves
  <2> QED
    BY <1>1, <2>1, <2>5, WorkerKeepsWake
<1>4. CASE AwaitUpstream(s)
  <2>1. /\ worker' = [worker EXCEPT ![s].pc = "io"] /\ UNCHANGED <<queue, armed, woken>>
        /\ driver' = [driver EXCEPT !.at = @ + 1]
    BY <1>4 DEF AwaitUpstream
  <2>2. /\ driver' \in DriverRow /\ driver'.pc = driver.pc /\ driver'.at = driver.at + 1
        /\ driver'.cursor = driver.cursor /\ driver'.progressed = driver.progressed
    BY <2>1, DriverPass DEF EngineInv
  <2>3. PICK w : Moves(s, w) /\ w.pc = "io" /\ Same(w, worker[s])
    BY <1>1, <1>2, <2>1, <2>2, PcMoves DEF Started
  <2> QED
    BY <1>1, <2>1, <2>2, <2>3, WorkerKeepsWake
<1>5. CASE Finish(s)
  <2>1. /\ worker' = [worker EXCEPT ![s].pc = "done"] /\ UNCHANGED queue
        /\ driver' = [driver EXCEPT !.at = @ + 1, !.progressed = TRUE]
        /\ woken' = (woken \/ s \in armed) /\ armed' = armed \ {s}
    BY <1>5 DEF Finish
  <2>2. /\ driver' \in DriverRow /\ driver'.pc = driver.pc /\ driver'.at = driver.at + 1
        /\ driver'.cursor = driver.cursor /\ driver'.progressed
    BY <2>1, DriverPass DEF EngineInv
  <2>3. PICK w : Moves(s, w) /\ w.pc = "done" /\ Same(w, worker[s])
    BY <1>1, <1>2, <2>1, <2>2, PcMoves DEF Started
  <2>4. (woken => woken') /\ (s \in armed => woken')
    BY <2>1
  <2> QED
    BY <1>1, <2>1, <2>2, <2>3, <2>4, WorkerKeepsWake
<1>6. CASE SkipWorker(s)
  <2>1. /\ worker[s].parked \/ worker[s].pc \in {"io", "done"}
        /\ UNCHANGED <<worker, queue, armed, woken>>
        /\ driver' = [driver EXCEPT !.at = @ + 1]
    BY <1>6 DEF SkipWorker
  <2>2. /\ driver' \in DriverRow /\ driver'.pc = driver.pc /\ driver'.at = driver.at + 1
        /\ driver'.cursor = driver.cursor /\ driver'.progressed = driver.progressed
    BY <2>1, DriverPass DEF EngineInv
  <2>5. PassOK' /\ CursorOK' /\ NoLostWakeup'
    <3>1. /\ driver.pc = "workers" /\ driver'.pc = "workers" /\ UNCHANGED <<running, pending>>
          /\ driver.at \in 1..Len(running) /\ s = running[driver.at]
      BY <1>1, <2>2, PolledFacts
    <3>2. Current' = Current
      BY <2>2, <3>1 DEF Current, Normalize
    <3>3. \A i \in 1..Len(running) : i < driver'.at => i < driver.at \/ i = driver.at
      BY <2>2, <3>1
    <3>4. ~woken => \A i \in 1..Len(running) : i < driver'.at => Settled(running[i])
      <4>1. Settled(s)
        BY <2>1 DEF Settled
      <4>2. ~woken => \A i \in 1..Len(running) : i < driver.at => Settled(running[i])
        BY <3>1 DEF WakeOK, PassOK, At
      <4> QED
        BY <3>1, <3>3, <4>1, <4>2
    <3>5. PassOK'
      <4>1. Pass /\ At("workers")' /\ ~At("drain2")'
        BY <3>1 DEF At, Pass
      <4>2. ~woken /\ ~driver.progressed /\ running # <<>> =>
              /\ worker[Current].pc # "done"
              /\ seen = {} \/ (queue[Current] = <<>> /\ Current \in armed)
        BY <4>1 DEF WakeOK, PassOK
      <4>3. running = <<>> => pending = <<>>
        BY <4>1 DEF WakeOK, PassOK
      <4> QED
        BY <1>1, <2>1, <2>2, <3>1, <3>2, <3>4, <4>1, <4>2, <4>3 DEF PassOK, Settled
    <3>6. CursorOK' /\ NoLostWakeup'
      BY <1>1, <2>2, <3>1 DEF WakeOK, CursorOK, NoLostWakeup, At
    <3> QED
      BY <3>5, <3>6
  <2> QED
    BY <2>5 DEF WakeOK
<1>7. CASE EmitRecord(s)
  <2>1. PICK w :
      /\ Moves(s, w) /\ w.pc = worker[s].pc /\ w.count = worker[s].count + 1
      /\ worker[s].next \in 1..Len(Items(s)) /\ ~worker[s].parked
      /\ \/ /\ w.err /\ w.next = Len(Items(s)) + 1 /\ w.parked = worker[s].parked
            /\ UNCHANGED <<queue, armed, woken>>
         \/ /\ ~worker[s].err /\ ~w.err /\ (w.parked <=> Len(queue[s]) + 1 > EventBuffer)
            /\ \E e \in Event :
                 /\ e.type = "record" /\ e.source = s
                 /\ queue' = [queue EXCEPT ![s] = Append(@, e)]
            /\ woken' = (woken \/ s \in armed) /\ armed' = armed \ {s}
            /\ ChannelOK' /\ queue' \in [Sources -> Seq(Event)]
    BY <1>7, EmitFacts
  <2>2. UNCHANGED driver /\ worker[s].pc \in {"call", "final"}
    BY <1>7 DEF EmitRecord, Runs
  <2>3. (woken => woken') /\ w.pc # "done"
    <3>1. w.pc # "done"
      BY <2>1, <2>2
    <3>2. woken' = woken \/ woken' = (woken \/ s \in armed)
      BY <2>1
    <3>3. woken => woken'
      BY <3>2
    <3> QED
      BY <3>1, <3>3
  <2>4. \/ UNCHANGED <<queue, armed>>
        \/ /\ s \in armed => woken'
           /\ armed' = armed \ {s}
           /\ \A r \in Sources : r # s => queue'[r] = queue[r]
    <3>1. queue \in [Sources -> Seq(Event)]
      BY DEF EngineInv, EngineTypes
    <3> QED
      BY <2>1, <3>1
  <2> QED
    BY <1>1, <2>1, <2>2, <2>3, <2>4, WorkerKeepsWake
<1>8. CASE Fail(s)
  <2>1. PICK w : \E m \in MeterRow :
      /\ Moves(s, w) /\ w.pc = "closing" /\ w.count = worker[s].count /\ w.err = worker[s].err
      /\ ~worker[s].parked /\ (w.parked <=> Len(queue[s]) + 1 > EventBuffer)
      /\ worker[s].pc \in {"call", "final"}
      /\ queue' = [queue EXCEPT ![s] = Append(@, Failed(s))] /\ Failed(s) \in Event
      /\ woken' = (woken \/ s \in armed) /\ armed' = armed \ {s}
      /\ ChannelOK' /\ queue' \in [Sources -> Seq(Event)]
      /\ OneMore(m, metrics[s]) /\ metrics' = [metrics EXCEPT ![s] = m]
    BY <1>8, FailFacts, Zenon
  <2>2. UNCHANGED driver
    BY <1>8 DEF Fail
  <2>3. (woken => woken') /\ (s \in armed => woken') /\ w.pc # "done" /\ Moves(s, w)
        /\ armed' = armed \ {s}
    BY <2>1
  <2>4. \A r \in Sources : r # s => queue'[r] = queue[r]
    <3>1. queue \in [Sources -> Seq(Event)]
      BY DEF EngineInv, EngineTypes
    <3> QED
      BY <2>1, <3>1
  <2> QED
    BY <1>1, <2>2, <2>3, <2>4, WorkerKeepsWake
<1> QED
  BY <1>3, <1>4, <1>5, <1>6, <1>7, <1>8 DEF WorkerStep

\* The upstream of a waiting source answers, and wakes the task.
LEMMA AnswerKeepsWake ==
  ASSUME EngineInv, WakeOK, NEW s \in Sources, UpstreamAnswers(s)
  PROVE  WakeOK'
<1>1. woken' = TRUE /\ UNCHANGED <<pending, running, driver, seen>>
  BY DEF UpstreamAnswers, workerUnchanged
<1> QED
  BY <1>1 DEF WakeOK, CursorOK, PassOK, NoLostWakeup, Pass, At

\* All workers are polled.
LEMMA PolledKeepsWake ==
  ASSUME EngineInv, WakeOK, WorkersPolled
  PROVE  WakeOK'
<1>1. /\ driver.pc = "workers" /\ driver.at > Len(running)
      /\ UNCHANGED <<pending, running, worker, queue, armed, woken, seen>>
  BY DEF WorkersPolled, workerUnchanged, At
<1>2. /\ driver'.pc = "drain2" /\ driver'.cursor = driver.cursor
      /\ driver'.progressed = driver.progressed
  BY DriverFacts DEF WorkersPolled, Goto, EngineInv
<1>3. /\ ~woken => \A i \in 1..Len(running) : i < driver.at => Settled(running[i])
      /\ running = <<>> => pending = <<>>
      /\ ~woken /\ ~driver.progressed /\ running # <<>> =>
           /\ worker[Current].pc # "done"
           /\ seen = {} \/ (queue[Current] = <<>> /\ Current \in armed)
  BY <1>1 DEF WakeOK, PassOK, Pass, At
<1>4. Len(running) \in Nat /\ driver.at \in Nat
  BY Elements DEF EngineInv, EngineTypes, DriverRow
<1>5. ~woken => \A i \in 1..Len(running) : Settled(running[i])
  BY <1>1, <1>3, <1>4
<1>6. Current' = Current
  BY <1>1, <1>2 DEF Current, Normalize
<1>7. PassOK'
  BY <1>1, <1>2, <1>3, <1>5, <1>6 DEF PassOK, Pass, At, Settled
<1>8. CursorOK' /\ NoLostWakeup'
  BY <1>1, <1>2 DEF WakeOK, CursorOK, NoLostWakeup, At
<1> QED
  BY <1>7, <1>8 DEF WakeOK

\* poll_next begins, or returns a diagnostic or a failure.
LEMMA ReturnKeepsWake ==
  ASSUME EngineInv, WakeOK,
         PollNext \/ DrainInitial \/ Drop \/ \E s \in Sources : DrainFailure(s)
  PROVE  WakeOK'
<1>1. CASE PollNext
  <2>1. driver'.pc = "drain" /\ driver'.cursor = driver.cursor
    BY <1>1, DriverFacts DEF PollNext, Goto, EngineInv
  <2>2. UNCHANGED <<running, pending, seen>> /\ ~At("dropped")
    BY <1>1 DEF PollNext, At
  <2>3. CursorOK'
    BY <2>1, <2>2 DEF WakeOK, CursorOK
  <2> QED
    BY <2>1, <2>3, Elsewhere DEF WakeOK
<1>2. CASE DrainInitial
  <2>1. driver'.pc = "rest" /\ driver'.cursor = driver.cursor
    BY <1>2, DriverFacts DEF DrainInitial, Goto, EngineInv
  <2>2. /\ \/ UNCHANGED <<running, pending>>
           \/ running' = <<>> /\ pending' = <<>>
        /\ UNCHANGED seen /\ ~At("dropped")
    BY <1>2 DEF DrainInitial, Stop, DropRunning, Draining, At
  <2>3. CursorOK'
    BY <2>1, <2>2 DEF WakeOK, CursorOK
  <2> QED
    BY <2>1, <2>3, Elsewhere DEF WakeOK
<1>3. CASE Drop
  <2>1. driver'.pc = "dropped" /\ running' = <<>>
    BY <1>3, DriverFacts DEF Drop, DropRunning, Goto, EngineInv
  <2>2. CursorOK'
    BY <2>1 DEF CursorOK, At
  <2> QED
    BY <2>1, <2>2, Elsewhere DEF WakeOK
<1>4. ASSUME NEW s \in Sources, DrainFailure(s)
      PROVE  WakeOK'
  <2>1. running # <<>> /\ running \in Seq(Sources)
    BY <1>4 DEF DrainFailure, Receiving, EngineInv, EngineTypes
  <2>2. NextCursor \in 1..Len(running) /\ Len(running) \in Nat
    BY <2>1, CurrentFacts
  <2>3. /\ driver'.pc = "rest"
        /\ \/ running' = <<>> /\ pending' = <<>>
           \/ running' = running /\ driver'.cursor = NextCursor
    <3>1. CASE request.strict
      <4>1. Goto("rest") /\ running' = <<>> /\ pending' = <<>>
        BY <1>4, <3>1 DEF DrainFailure, Stop, DropRunning
      <4> QED
        BY <4>1, DriverFacts DEF Goto, EngineInv
    <3>2. CASE ~request.strict
      <4> DEFINE n == NextCursor
      <4>1. driver' = [driver EXCEPT !.pc = "rest", !.cursor = n] /\ running' = running
        BY <1>4, <3>2 DEF DrainFailure
      <4> HIDE DEF n
      <4>2. driver'.pc = "rest" /\ driver'.cursor = n
        BY <4>1 DEF EngineInv, EngineTypes, DriverRow
      <4> QED
        BY <4>1, <4>2 DEF n
    <3> QED
      BY <3>1, <3>2
  <2>4. CursorOK'
    BY <2>1, <2>2, <2>3 DEF CursorOK
  <2> QED
    BY <2>3, <2>4, Elsewhere DEF WakeOK
<1> QED
  BY <1>1, <1>2, <1>3, <1>4

\* A record is delivered, or left out: then something has been seen before, and the
\* channel was not empty, so the task has been woken or a source has finished.
LEMMA RecordKeepsWake ==
  ASSUME EngineInv, WakeOK, NEW s \in Sources, DrainRecord(s)
  PROVE  WakeOK'
<1> DEFINE n == NextCursor
<1>1. /\ running # <<>> /\ s = Current /\ queue[s] # <<>> /\ UNCHANGED <<running, pending>>
      /\ driver.pc \in {"drain", "drain2"} /\ woken' = (woken \/ worker[s].parked)
  BY DEF DrainRecord, Receiving, Draining, At, WokenByRoom
<1>2. n \in 1..Len(running) /\ Len(running) \in Nat
  BY <1>1, CurrentFacts
<1>3. \/ driver' = [driver EXCEPT !.pc = "rest", !.cursor = n]
      \/ /\ driver' = [driver EXCEPT !.cursor = n] /\ UNCHANGED seen
         /\ DedupeKeys(s, Head(queue[s]).record) \cap seen # {}
  BY DEF DrainRecord
<1> HIDE DEF n
<1>4. /\ driver'.cursor = n /\ driver'.progressed = driver.progressed
      /\ \/ driver'.pc = "rest"
         \/ driver'.pc = driver.pc /\ seen # {}
  BY <1>3 DEF EngineInv, EngineTypes, DriverRow
<1>5. CursorOK'
  BY <1>1, <1>2, <1>4 DEF CursorOK
<1>6. CASE driver'.pc # "drain2"
  BY <1>1, <1>4, <1>5, <1>6, Elsewhere DEF WakeOK
<1>7. CASE driver'.pc = "drain2"
  <2>1. Pass /\ seen # {}
    BY <1>4, <1>7 DEF Pass, At
  <2>2. woken \/ driver.progressed
    BY <1>1, <2>1 DEF WakeOK, PassOK
  <2>3. woken' \/ driver'.progressed
    BY <1>1, <1>4, <2>2
  <2>4. PassOK' /\ NoLostWakeup'
    BY <1>1, <1>7, <2>3, WillLoop
  <2> QED
    BY <1>5, <2>4 DEF WakeOK
<1> QED
  BY <1>6, <1>7

\* The next sources start, after the ones in the list; nothing is planned when none runs.
LEMMA StartedList ==
  ASSUME EngineInv, NEW list \in Seq(Sources), Len(list) <= MaxActive,
         StartReadySources(list)
  PROVE  /\ running' \in Seq(Sources) /\ Len(list) \in Nat /\ Len(running') \in Nat
         /\ Len(list) <= Len(running')
         /\ \A i \in 1..Len(list) : running'[i] = list[i]
         /\ running' = <<>> => pending' = <<>> /\ list = <<>>
         /\ running' # <<>> /\ list = <<>> => pending # <<>>
         /\ \A s \in Sources : worker[s].pc # "none" => worker'[s] = worker[s]
<1>1. PICK k \in 0..Len(pending) :
           /\ running' \in Seq(Sources) /\ pending' \in Seq(Sources)
           /\ Len(running') = Len(list) + k /\ Len(running') <= MaxActive
           /\ \A i \in 1..Len(list) : running'[i] = list[i]
           /\ \A i \in 1..k : running'[i + Len(list)] = pending[i]
           /\ Len(pending') = Len(pending) - k
           /\ \A i \in 1..Len(pending') : pending'[i] = pending[i + k]
           /\ list = <<>> /\ pending # <<>> => k > 0
           /\ worker' \in [Sources -> WorkerRow]
           /\ \A i \in 1..k : worker'[pending[i]] = NewWorker("new")
           /\ \A s \in Sources : (\A i \in 1..k : s # pending[i]) => worker'[s] = worker[s]
  BY StartFacts DEF EngineInv
<1>2. /\ pending \in Seq(Sources) /\ Len(pending) \in Nat /\ (pending = <<>> <=> Len(pending) = 0)
      /\ \A i \in 1..Len(pending) : worker[pending[i]].pc = "none"
  BY Elements DEF EngineInv, EngineTypes, PlanOK
<1>3. Len(list) \in Nat /\ (list = <<>> <=> Len(list) = 0)
  BY Elements
<1>4. Len(running') \in Nat /\ (running' = <<>> <=> Len(running') = 0)
  BY <1>1, Elements
<1>5. Len(pending') \in Nat /\ (pending' = <<>> <=> Len(pending') = 0)
  BY <1>1, Elements
<1>6. Len(list) <= Len(running')
  BY <1>1, <1>3, <1>4
<1>7. running' = <<>> => pending' = <<>> /\ list = <<>>
  BY <1>1, <1>2, <1>3, <1>4, <1>5
<1>8. running' # <<>> /\ list = <<>> => pending # <<>>
  BY <1>1, <1>2, <1>3, <1>4
<1>9. \A i \in 1..k : worker[pending[i]].pc = "none"
  BY <1>1, <1>2
<1>10. \A s \in Sources : worker[s].pc # "none" => worker'[s] = worker[s]
  BY <1>1, <1>9
<1> QED
  BY <1>1, <1>3, <1>4, <1>6, <1>7, <1>8, <1>10

\* A source leaves: the pass in which it finished, or a wake-up, makes poll_next loop.
LEMMA ClosedKeepsWake ==
  ASSUME EngineInv, WakeOK, NEW s \in Sources, DrainClosed(s)
  PROVE  WakeOK'
<1> DEFINE at == Normalize(driver.cursor, running)
           rest == RemoveAt(running, at)
           n == Normalize(at, rest)
<1>1. /\ Receiving(s) /\ worker[s].pc = "done" /\ StartReadySources(rest)
      /\ driver' = [driver EXCEPT !.cursor = n] /\ UNCHANGED <<woken, seen>>
  BY DEF DrainClosed
<1>2. /\ rest \in Seq(Sources) /\ Len(rest) <= MaxActive /\ n \in Nat \ {0}
      /\ rest # <<>> => n \in 1..Len(rest)
      /\ rest = <<>> => n = 1
  <2>1. /\ rest \in Seq(Sources) /\ Len(rest) <= MaxActive /\ n \in Nat \ {0}
        /\ rest # <<>> => n \in 1..Len(rest)
        /\ at \in 1..Len(running) /\ Len(running) \in Nat
    BY <1>1, LeaverFacts, CurrentFacts DEF Receiving
  <2> HIDE DEF at, rest
  <2>2. rest = <<>> => n = 1
    BY <2>1 DEF Normalize
  <2> QED
    BY <2>1, <2>2
<1> HIDE DEF n, rest
<1>3. /\ Len(rest) \in Nat /\ Len(running') \in Nat /\ Len(rest) <= Len(running')
      /\ running' \in Seq(Sources) /\ (running' = <<>> => pending' = <<>>)
  BY <1>1, <1>2, StartedList
<1>4. /\ driver'.cursor = n /\ driver'.pc = driver.pc
      /\ driver'.progressed = driver.progressed
  BY <1>1 DEF EngineInv, EngineTypes, DriverRow
<1>5. CursorOK'
  <2>1. running' # <<>> => Len(running') >= 1
    BY <1>3, Elements
  <2>2. running' # <<>> => n <= Len(running')
    BY <1>2, <1>3, <2>1
  <2> QED
    BY <1>3, <1>4, <2>2 DEF CursorOK
<1>6. driver.pc \in {"drain", "drain2"} /\ running # <<>> /\ s = Current
  BY <1>1 DEF Receiving, Draining, At
<1>7. CASE driver.pc = "drain"
  BY <1>4, <1>5, <1>7, Elsewhere DEF WakeOK
<1>8. CASE driver.pc = "drain2"
  <2>1. woken \/ driver.progressed
    BY <1>1, <1>6, <1>8 DEF WakeOK, PassOK, Pass, At
  <2>2. woken' \/ driver'.progressed
    BY <1>1, <1>4, <2>1
  <2>3. PassOK' /\ NoLostWakeup'
    BY <1>3, <1>4, <1>8, <2>2, WillLoop
  <2> QED
    BY <1>5, <2>3 DEF WakeOK
<1> QED
  BY <1>6, <1>7, <1>8

\* A pass begins: the receiver in turn has nothing and has registered the waker.
LEMMA DryKeepsWake ==
  ASSUME EngineInv, WakeOK, DrainDry
  PROVE  WakeOK'
<1>1. /\ driver.pc = "drain" /\ NothingAvailable /\ Arm /\ StartReadySources(running)
      /\ driver' = [driver EXCEPT !.pc = "workers", !.at = 1, !.progressed = FALSE]
      /\ UNCHANGED <<queue, woken, seen>>
  BY DEF DrainDry, At
<1>2. driver'.pc = "workers" /\ driver'.at = 1 /\ driver'.cursor = driver.cursor
  BY <1>1, DriverPass DEF EngineInv
<1>3. running \in Seq(Sources) /\ Len(running) <= MaxActive
  BY DEF EngineInv, EngineTypes, PlanOK
<1>4. /\ running' \in Seq(Sources) /\ Len(running) \in Nat /\ Len(running') \in Nat
      /\ Len(running) <= Len(running')
      /\ \A i \in 1..Len(running) : running'[i] = running[i]
      /\ running' = <<>> => pending' = <<>> /\ running = <<>>
      /\ running' # <<>> /\ running = <<>> => pending # <<>>
      /\ \A s \in Sources : worker[s].pc # "none" => worker'[s] = worker[s]
  BY <1>1, <1>3, StartedList
<1>5. driver.cursor \in Nat \ {0} /\ (running' # <<>> => Len(running') >= 1)
  BY <1>4, Elements DEF EngineInv, EngineTypes, DriverRow
<1>6. CursorOK'
  <2>1. running # <<>> => driver.cursor <= Len(running)
    BY DEF WakeOK, CursorOK
  <2>2. running' # <<>> /\ running = <<>> => driver.cursor = 1
    BY <1>1, <1>4 DEF WakeOK, CursorOK, At
  <2>3. running' # <<>> => driver.cursor <= Len(running')
    BY <1>4, <1>5, <2>1, <2>2
  <2> QED
    BY <1>2, <1>4, <2>3 DEF CursorOK
<1>7. CASE running = <<>>
  <2>1. running' # <<>> => seen = {} /\ driver.cursor = 1
    BY <1>1, <1>4, <1>7 DEF WakeOK, CursorOK, At
  <2>2. running' # <<>> => worker'[Current'].pc # "done"
    <3> SUFFICES ASSUME running' # <<>>
                 PROVE  worker'[Current'].pc # "done"
      OBVIOUS
    <3>1. Current' = running'[1]
      BY <1>2, <1>5, <2>1 DEF Current, Normalize
    <3>2. running'[1] \in Sources /\ worker'[running'[1]].pc = "new"
      <4>1. PICK k \in 0..Len(pending) :
           /\ running' \in Seq(Sources) /\ pending' \in Seq(Sources)
           /\ Len(running') = Len(running) + k /\ Len(running') <= MaxActive
           /\ \A i \in 1..Len(running) : running'[i] = running[i]
           /\ \A i \in 1..k : running'[i + Len(running)] = pending[i]
           /\ Len(pending') = Len(pending) - k
           /\ \A i \in 1..Len(pending') : pending'[i] = pending[i + k]
           /\ running = <<>> /\ pending # <<>> => k > 0
           /\ worker' \in [Sources -> WorkerRow]
           /\ \A i \in 1..k : worker'[pending[i]] = NewWorker("new")
           /\ \A s \in Sources : (\A i \in 1..k : s # pending[i]) => worker'[s] = worker[s]
        BY <1>1, <1>3, StartFacts DEF EngineInv
      <4>2. Len(running) = 0 /\ 1 \in 1..k
        <5>1. Len(running) = 0 /\ Len(running') \in Nat /\ Len(running') >= 1
          BY <1>4, <1>5, <1>7
        <5> QED
          BY <4>1, <5>1
      <4>3. running'[1 + 0] = pending[1] /\ worker'[pending[1]] = NewWorker("new")
        BY <4>1, <4>2
      <4>4. running'[1] = pending[1] /\ 1 \in 1..Len(running')
        BY <1>4, <1>5, <4>3
      <4> QED
        BY <1>4, <4>3, <4>4, Elements DEF NewWorker
    <3> QED
      BY <3>1, <3>2
  <2>3. PassOK'
    BY <1>1, <1>2, <1>4, <2>1, <2>2 DEF PassOK, At
  <2> QED
    BY <1>2, <1>6, <2>3 DEF WakeOK, NoLostWakeup, At
<1>8. CASE running # <<>>
  <2>1. /\ Current \in Sources /\ Current \in ToSet(running)
        /\ queue[Current] = <<>> /\ worker[Current].pc # "done"
        /\ armed' = armed \cup {Current}
    BY <1>1, <1>8, CurrentFacts DEF NothingAvailable, Arm
  <2>2. driver.cursor \in 1..Len(running) /\ driver.cursor \in 1..Len(running')
    BY <1>4, <1>5, <1>8 DEF WakeOK, CursorOK
  <2>3. Current = running[driver.cursor] /\ Current' = running'[driver.cursor]
    BY <1>2, <1>4, <2>2 DEF Current, Normalize
  <2>4. Current' = Current
    BY <1>4, <2>2, <2>3
  <2>5. worker'[Current] = worker[Current]
    <3>1. worker[Current].pc \in Started
      BY <2>2, <2>3 DEF EngineInv, PlanOK
    <3> QED
      BY <1>4, <2>1, <3>1 DEF Started
  <2>6. PassOK'
    BY <1>1, <1>2, <1>4, <2>1, <2>4, <2>5 DEF PassOK, At
  <2> QED
    BY <1>2, <1>6, <2>6 DEF WakeOK, NoLostWakeup, At
<1> QED
  BY <1>7, <1>8

\* poll_next sleeps only when the source it waits for waits for its upstream.
LEMMA DecideKeepsWake ==
  ASSUME EngineInv, WakeOK, Decide
  PROVE  WakeOK'
<1>1. /\ driver.pc = "drain2" /\ NothingAvailable
      /\ UNCHANGED <<pending, running, worker, queue, woken, seen>>
  BY DEF Decide, At
<1>2. /\ driver'.cursor = driver.cursor
      /\ driver'.pc = IF driver.progressed THEN "drain"
                      ELSE IF IsComplete THEN "ended" ELSE "asleep"
  <2>1. CASE driver.progressed
    BY <2>1, DriverFacts DEF Decide, Goto, EngineInv
  <2>2. CASE ~driver.progressed /\ IsComplete
    BY <2>2, DriverFacts DEF Decide, Goto, EngineInv
  <2>3. CASE ~driver.progressed /\ ~IsComplete
    BY <2>3, DriverFacts DEF Decide, Goto, EngineInv
  <2> QED
    BY <2>1, <2>2, <2>3
<1>3. CursorOK'
  BY <1>1, <1>2 DEF WakeOK, CursorOK, At
<1>4. CASE driver'.pc # "asleep"
  BY <1>2, <1>3, <1>4, Elsewhere DEF WakeOK
<1>5. CASE driver'.pc = "asleep"
  <2>1. ~driver.progressed /\ ~IsComplete /\ initial = <<>>
    BY <1>1, <1>2, <1>5 DEF NothingAvailable
  <2>2. running # <<>>
    BY <1>1, <2>1 DEF WakeOK, PassOK, Pass, At, IsComplete
  <2>3. /\ Current \in Sources /\ Current \in ToSet(running)
        /\ queue[Current] = <<>> /\ worker[Current].pc # "done"
    BY <1>1, <2>2, CurrentFacts DEF NothingAvailable
  <2>4. ~worker[Current].parked
    <3>1. worker[Current].parked => Len(queue[Current]) = EventBuffer + 1
      BY <2>3 DEF EngineInv, ChannelOK
    <3>2. Len(queue[Current]) = 0 /\ EventBuffer \in Nat
      BY <2>3, EngineAssumption
    <3> QED
      BY <3>1, <3>2
  <2>5. ~woken => worker[Current].pc = "io"
    <3>1. ~woken => \A i \in 1..Len(running) : Settled(running[i])
      BY <1>1, <2>1 DEF WakeOK, PassOK, At
    <3>2. Normalize(driver.cursor, running) \in 1..Len(running)
      BY <2>2, CurrentFacts
    <3>3. ~woken => Settled(Current)
      BY <3>1, <3>2 DEF Current
    <3> QED
      BY <2>3, <2>4, <3>3 DEF Settled
  <2>6. NoLostWakeup'
    BY <1>1, <2>3, <2>5 DEF NoLostWakeup
  <2>7. PassOK'
    BY <1>5 DEF PassOK, Pass, At
  <2> QED
    BY <1>3, <2>6, <2>7 DEF WakeOK
<1> QED
  BY <1>4, <1>5

\* Whenever the task sleeps and no wake-up is on its way, some source is waiting for its
\* upstream, whose answer wakes the task: no late start, parked sender or closed
\* channel is ever forgotten.
THEOREM WakeupsAreNotLost == EngineSpec => []NoLostWakeup
<1>1. EngineInit => WakeOK
  BY DEF EngineInit, WakeOK, CursorOK, PassOK, Pass, NoLostWakeup, At
<1>2. EngineInv /\ WakeOK /\ [EngineNext]_engineVars => WakeOK'
  <2> SUFFICES ASSUME EngineInv, WakeOK, [EngineNext]_engineVars
               PROVE  WakeOK'
    OBVIOUS
  <2>1. CASE UNCHANGED engineVars
    BY <2>1 DEF engineVars, WakeOK, CursorOK, PassOK, Pass, NoLostWakeup, At, Settled, Current,
                Normalize
  <2>2. ASSUME NEW s \in Sources,
               DrainRecord(s) \/ DrainFailure(s) \/ DrainClosed(s) \/ WorkerStep(s)
                 \/ UpstreamAnswers(s)
        PROVE  WakeOK'
    BY <2>2, RecordKeepsWake, ReturnKeepsWake, ClosedKeepsWake, WorkerStepKeepsWake,
       AnswerKeepsWake
  <2>3. CASE PollNext \/ DrainInitial \/ DrainDry \/ Decide \/ WorkersPolled \/ Drop
    BY <2>3, ReturnKeepsWake, DryKeepsWake, DecideKeepsWake, PolledKeepsWake
  <2> QED
    BY <2>1, <2>2, <2>3 DEF EngineNext, PollStep, DriverStep
<1>3. WakeOK => NoLostWakeup
  BY DEF WakeOK
<1> QED
  BY <1>1, <1>2, <1>3, EngineKeepsInv, PTL DEF EngineSpec

-----------------------------------------------------------------------------
(* Nothing is lost between sink, channel and merge *)

\* A step that concerns one source.
LEMMA OneRowSent ==
  ASSUME SentOK, UNCHANGED request, At("dropped") => At("dropped")', NEW s \in Sources,
         \A r \in Sources : r # s => /\ worker'[r] = worker[r] /\ queue'[r] = queue[r]
                                     /\ metrics'[r] = metrics[r],
         FlowRow(s, request.script[s], worker'[s], queue'[s]),
         ~request.strict /\ ~At("dropped") => CountRow(metrics'[s], worker'[s], queue'[s])
  PROVE  SentOK'
<1>1. \A r \in Sources : FlowRow(r, request.script[r], worker'[r], queue'[r])
  BY DEF SentOK
<1>2. \A r \in Sources : ~request.strict /\ ~At("dropped") =>
        CountRow(metrics'[r], worker'[r], queue'[r])
  BY DEF SentOK
<1>3. ~At("dropped")' => ~At("dropped")
  OBVIOUS
<1> QED
  BY <1>1, <1>2, <1>3 DEF SentOK

\* What is known of a source before a step.
LEMMA SentFacts ==
  ASSUME EngineInv, SentOK, NEW s \in Sources
  PROVE  /\ worker[s] \in WorkerRow /\ metrics[s] \in MeterRow /\ queue[s] \in Seq(Event)
         /\ worker[s].count \in Nat /\ worker[s].err \in BOOLEAN /\ worker[s].next \in Nat
         /\ metrics[s].emitted \in Nat /\ metrics[s].deduplicated \in Nat
         /\ Len(queue[s]) \in Nat /\ (queue[s] = <<>> <=> Len(queue[s]) = 0)
         /\ \A i \in 1..Len(queue[s]) : queue[s][i] \in Event
         /\ FlowRow(s, request.script[s], worker[s], queue[s])
         /\ ~request.strict /\ ~At("dropped") => CountRow(metrics[s], worker[s], queue[s])
<1>1. worker[s] \in WorkerRow /\ metrics[s] \in MeterRow /\ queue[s] \in Seq(Event)
  BY DEF EngineInv, EngineTypes
<1>2. worker[s].count \in Nat /\ worker[s].err \in BOOLEAN /\ worker[s].next \in Nat
  BY <1>1 DEF WorkerRow
<1>3. metrics[s].emitted \in Nat /\ metrics[s].deduplicated \in Nat
  BY <1>1, MeterFacts
<1>4. /\ Len(queue[s]) \in Nat /\ (queue[s] = <<>> <=> Len(queue[s]) = 0)
      /\ \A i \in 1..Len(queue[s]) : queue[s][i] \in Event
  BY <1>1, Elements
<1> QED
  BY <1>1, <1>2, <1>3, <1>4 DEF SentOK

\* Steps that change no worker, channel or counter.
LEMMA QuietKeepsSent ==
  ASSUME SentOK, At("dropped") => At("dropped")', UNCHANGED <<request, worker, queue, metrics>>
  PROVE  SentOK'
BY DEF SentOK

\* A worker goes on, and sends nothing.
LEMMA SilentKeepsSent ==
  ASSUME EngineInv, SentOK, NEW s \in Sources, NEW w, Moves(s, w), Same(w, worker[s]),
         UNCHANGED <<request, queue>>,
         \A r \in Sources : r # s => metrics'[r] = metrics[r],
         metrics'[s].emitted = metrics[s].emitted,
         metrics'[s].deduplicated = metrics[s].deduplicated,
         w.pc \notin {"none", "new"},
         worker[s].pc \in {"closing", "done"} => w.pc \in {"closing", "done"},
         w.err /\ w.pc \in {"call", "io", "final"} =>
           /\ worker[s].pc \in {"call", "io", "final"} /\ w.next = worker[s].next
           /\ w.pc = "final" <=> worker[s].pc = "final"
  PROVE  SentOK'
<1>1. /\ worker'[s] = w /\ \A r \in Sources : r # s => worker'[r] = worker[r]
      /\ driver'.pc = driver.pc
  BY MoveFacts DEF Moves
<1>2. w.count = worker[s].count /\ w.err = worker[s].err
  BY DEF Same
<1>3. /\ FlowRow(s, request.script[s], worker[s], queue[s])
      /\ ~request.strict /\ ~At("dropped") => CountRow(metrics[s], worker[s], queue[s])
  BY SentFacts
<1>4. FlowRow(s, request.script[s], w, queue[s])
  BY <1>2, <1>3 DEF FlowRow
<1>5. ~request.strict /\ ~At("dropped") => CountRow(metrics'[s], w, queue[s])
  BY <1>2, <1>3 DEF CountRow, Refusals
<1> QED
  BY <1>1, <1>4, <1>5, OneRowSent DEF At

\* Dropping the running sources.
LEMMA DropKeepsSent ==
  ASSUME EngineInv, SentOK, DropRunning, UNCHANGED request, request.strict \/ At("dropped")'
  PROVE  SentOK'
<1>1. /\ queue' = [s \in Sources |-> <<>>] /\ Len(<<>>) = 0
      /\ worker \in [Sources -> WorkerRow]
  BY DEF DropRunning, EngineInv, EngineTypes
<1>2. \A s \in Sources : worker'[s] = worker[s] \/ worker'[s].pc = "dropped"
  <2>1. \A v \in WorkerRow : [v EXCEPT !.pc = "dropped", !.parked = FALSE].pc = "dropped"
    BY DEF WorkerRow
  <2>2. \A s \in Sources :
          \/ worker'[s] = worker[s]
          \/ worker'[s] = [worker[s] EXCEPT !.pc = "dropped", !.parked = FALSE]
    BY DEF DropRunning
  <2>3. \A s \in Sources : worker[s] \in WorkerRow
    BY <1>1
  <2> QED
    BY <2>1, <2>2, <2>3, Zenon
<1>3. ASSUME NEW s \in Sources
      PROVE  FlowRow(s, request.script[s], worker'[s], queue'[s])
  <2>1. queue'[s] = <<>> /\ FlowRow(s, request.script[s], worker[s], queue[s])
    BY <1>1 DEF SentOK
  <2>2. CASE worker'[s] = worker[s]
    BY <1>1, <2>1, <2>2 DEF FlowRow
  <2>3. CASE worker'[s].pc = "dropped"
    BY <1>1, <2>1, <2>3 DEF FlowRow
  <2> QED
    BY <1>2, <2>2, <2>3
<1> QED
  BY <1>3 DEF SentOK

\* Sources start.
LEMMA StartKeepsSent ==
  ASSUME EngineInv, SentOK, NEW list \in Seq(Sources), Len(list) <= MaxActive,
         StartReadySources(list), UNCHANGED <<request, queue, metrics>>,
         At("dropped") => At("dropped")'
  PROVE  SentOK'
<1>1. PICK k \in 0..Len(pending) :
           /\ running' \in Seq(Sources) /\ pending' \in Seq(Sources)
           /\ Len(running') = Len(list) + k /\ Len(running') <= MaxActive
           /\ \A i \in 1..Len(list) : running'[i] = list[i]
           /\ \A i \in 1..k : running'[i + Len(list)] = pending[i]
           /\ Len(pending') = Len(pending) - k
           /\ \A i \in 1..Len(pending') : pending'[i] = pending[i + k]
           /\ list = <<>> /\ pending # <<>> => k > 0
           /\ worker' \in [Sources -> WorkerRow]
           /\ \A i \in 1..k : worker'[pending[i]] = NewWorker("new")
           /\ \A s \in Sources : (\A i \in 1..k : s # pending[i]) => worker'[s] = worker[s]
  BY StartFacts DEF EngineInv
<1>2. \A i \in 1..k : worker[pending[i]].pc = "none"
  <2>1. \A i \in 1..k : i \in 1..Len(pending)
    BY Elements DEF EngineInv, EngineTypes
  <2> QED
    BY <2>1 DEF EngineInv, PlanOK
<1>3. \A s \in Sources : \/ worker[s].pc = "none" /\ worker'[s] = NewWorker("new")
                         \/ worker'[s] = worker[s]
  BY <1>1, <1>2
<1>4. NewWorker("new").pc = "new" /\ NewWorker("new").count = 0 /\ ~NewWorker("new").err
  BY DEF NewWorker
<1>5. ASSUME NEW s \in Sources, worker[s].pc = "none", worker'[s] = NewWorker("new")
      PROVE  /\ FlowRow(s, request.script[s], worker'[s], queue[s])
             /\ ~request.strict /\ ~At("dropped") => CountRow(metrics[s], worker'[s], queue[s])
  <2>1. /\ FlowRow(s, request.script[s], worker[s], queue[s])
        /\ ~request.strict /\ ~At("dropped") => CountRow(metrics[s], worker[s], queue[s])
    BY SentFacts
  <2>2. worker[s].count = 0 /\ ~worker[s].err /\ queue[s] = <<>> /\ Len(<<>>) = 0
    BY <1>5, <2>1 DEF FlowRow, EngineInv, ChannelOK
  <2>3. FlowRow(s, request.script[s], worker'[s], queue[s])
    BY <1>4, <1>5, <2>2 DEF FlowRow
  <2>4. ~request.strict /\ ~At("dropped") => CountRow(metrics[s], worker'[s], queue[s])
    BY <1>4, <1>5, <2>1, <2>2 DEF CountRow, Refusals
  <2> QED
    BY <2>3, <2>4
<1>6. \A s \in Sources : FlowRow(s, request.script[s], worker'[s], queue[s])
  BY <1>3, <1>5 DEF SentOK
<1>7. ~request.strict /\ ~At("dropped") =>
        \A s \in Sources : CountRow(metrics[s], worker'[s], queue[s])
  BY <1>3, <1>5 DEF SentOK
<1>8. ~At("dropped")' => ~At("dropped")
  OBVIOUS
<1> QED
  BY <1>6, <1>7, <1>8 DEF SentOK

\* What taking the first event does to the length of a channel and to its failures.
OneTaken(s, q) ==
  /\ Len(Tail(q)) \in Nat /\ Len(Tail(q)) + 1 = Len(q)
  /\ Head(q).source = s
  /\ Head(q).type = "record" => Failures(Tail(q)) = Failures(q)
  /\ Head(q).type = "failed" => Failures(Tail(q)) = 0 /\ Failures(q) = 1

\* Taking the first event of a channel.
LEMMA TakenRow ==
  ASSUME NEW s, NEW script, NEW w, NEW v, NEW q \in Seq(Event), q # <<>>,
         FlowRow(s, script, w, q), v.pc = w.pc, v.count = w.count, v.err = w.err,
         v.next = w.next
  PROVE  FlowRow(s, script, v, Tail(q)) /\ OneTaken(s, q)
<1>1. /\ Tail(q) \in Seq(Event) /\ Len(q) \in Nat \ {0} /\ Len(Tail(q)) = Len(q) - 1
      /\ Head(q) = q[1] /\ \A i \in 1..Len(Tail(q)) : Tail(q)[i] = q[i + 1]
  BY TailFacts
<1>2. Len(Tail(q)) \in Nat /\ Len(Tail(q)) + 1 = Len(q) /\ (Tail(q) = <<>> <=> Len(Tail(q)) = 0)
  <2> DEFINE r == Tail(q)
  <2>1. r \in Seq(Event)
    BY <1>1
  <2> HIDE DEF r
  <2>2. Len(r) \in Nat /\ (r = <<>> <=> Len(r) = 0)
    BY <2>1, Elements
  <2>3. Len(r) = Len(q) - 1
    BY <1>1 DEF r
  <2>4. Len(r) + 1 = Len(q)
    BY <1>1, <2>2, <2>3
  <2> QED
    BY <2>2, <2>4 DEF r
<1>3. \A i \in 1..Len(q) :
        /\ q[i].source = s /\ (i < Len(q) => q[i].type = "record")
        /\ q[i].type = "failed" => w.pc \in {"closing", "done"}
  BY DEF FlowRow
<1>4. \A i \in 1..Len(Tail(q)) : i + 1 \in 1..Len(q) /\ (i < Len(Tail(q)) => i + 1 < Len(q))
  BY <1>2
<1>5. \A i \in 1..Len(Tail(q)) :
        /\ Tail(q)[i].source = s /\ (i < Len(Tail(q)) => Tail(q)[i].type = "record")
        /\ Tail(q)[i].type = "failed" => v.pc \in {"closing", "done"}
  BY <1>1, <1>3, <1>4
<1>6. FlowRow(s, script, v, Tail(q))
  BY <1>5 DEF FlowRow
<1>7. 1 \in 1..Len(q) /\ Head(q).source = s
  BY <1>1, <1>3
<1>8. CASE Len(q) = 1
  <2>1. Tail(q) = <<>> /\ q[Len(q)] = Head(q)
    BY <1>1, <1>2, <1>8
  <2>2. Failures(Tail(q)) = 0 /\ Failures(q) = IF Head(q).type = "failed" THEN 1 ELSE 0
    BY <2>1 DEF Failures
  <2> QED
    BY <1>2, <1>6, <1>7, <2>2 DEF OneTaken
<1>9. CASE Len(q) # 1
  <2>1. Len(Tail(q)) \in 1..Len(Tail(q)) /\ Tail(q) # <<>> /\ 1 < Len(q)
    BY <1>1, <1>2, <1>9
  <2>2. Tail(q)[Len(Tail(q))] = q[Len(q)]
    BY <1>1, <1>2, <2>1
  <2>3. Head(q).type = "record"
    BY <1>1, <1>3, <1>7, <2>1
  <2>4. Failures(Tail(q)) = Failures(q)
    BY <2>1, <2>2 DEF Failures
  <2> QED
    BY <1>2, <1>6, <1>7, <2>3, <2>4 DEF OneTaken
<1> QED
  BY <1>8, <1>9

\* A channel that holds records only, and what an event adds to it.
RecordsOf(s, q) == \A i \in 1..Len(q) : q[i].source = s /\ q[i].type = "record"

OneAdded(s, q, e) ==
  /\ \A i \in 1..Len(Append(q, e)) :
       /\ Append(q, e)[i].source = s
       /\ i < Len(Append(q, e)) => Append(q, e)[i].type = "record"
       /\ Append(q, e)[i].type = "failed" => e.type = "failed"
  /\ Len(Append(q, e)) = Len(q) + 1 /\ Len(q) \in Nat
  /\ Failures(q) = 0
  /\ Failures(Append(q, e)) = IF e.type = "failed" THEN 1 ELSE 0

\* Adding an event to a channel that holds records only.
LEMMA AddedRow ==
  ASSUME NEW s, NEW q \in Seq(Event), NEW e \in Event, e.source = s, RecordsOf(s, q)
  PROVE  OneAdded(s, q, e)
<1>1. /\ Len(Append(q, e)) = Len(q) + 1 /\ Append(q, e) \in Seq(Event)
      /\ \A i \in 1..Len(q) : Append(q, e)[i] = q[i]
      /\ Append(q, e)[Len(q) + 1] = e
  BY AppendFacts
<1>2. Len(q) \in Nat /\ (q = <<>> <=> Len(q) = 0)
  BY Elements
<1>3. \A i \in 1..(Len(q) + 1) : i \in 1..Len(q) \/ (i = Len(q) + 1 /\ ~(i < Len(q) + 1))
  BY <1>2
<1>4. \A i \in 1..Len(Append(q, e)) :
        /\ Append(q, e)[i].source = s
        /\ i < Len(Append(q, e)) => Append(q, e)[i].type = "record"
        /\ Append(q, e)[i].type = "failed" => e.type = "failed"
  BY <1>1, <1>3 DEF RecordsOf
<1>5. Failures(q) = 0
  <2>1. q # <<>> => Len(q) \in 1..Len(q)
    BY <1>2
  <2> QED
    BY <2>1 DEF Failures, RecordsOf
<1>6. Failures(Append(q, e)) = IF e.type = "failed" THEN 1 ELSE 0
  <2>1. Append(q, e) # <<>>
    BY <1>1, <1>2, Elements
  <2> QED
    BY <1>1, <2>1 DEF Failures
<1> QED
  BY <1>1, <1>2, <1>4, <1>5, <1>6 DEF OneAdded

\* A worker that has not failed has only records in its channel.
LEMMA RecordsOnly ==
  ASSUME EngineInv, SentOK, NEW s \in Sources, worker[s].pc \notin {"closing", "done"}
  PROVE  \A i \in 1..Len(queue[s]) : queue[s][i].source = s /\ queue[s][i].type = "record"
<1>1. \A i \in 1..Len(queue[s]) : queue[s][i] \in Event
  BY SentFacts
<1>2. \A e \in Event : e.type = "record" \/ e.type = "failed"
  BY DEF Event
<1> QED
  BY <1>1, <1>2, SentFacts DEF FlowRow

\* The record of a pop.
LEMMA PoppedFacts ==
  ASSUME EngineInv, SentOK, NEW s \in Sources, queue' = Popped(s), worker' = Unparked(s),
         queue[s] # <<>>
  PROVE  /\ \A r \in Sources : r # s => worker'[r] = worker[r] /\ queue'[r] = queue[r]
         /\ queue'[s] = Tail(queue[s])
         /\ worker'[s].pc = worker[s].pc /\ worker'[s].count = worker[s].count
         /\ worker'[s].err = worker[s].err /\ worker'[s].next = worker[s].next
         /\ FlowRow(s, request.script[s], worker'[s], queue'[s])
         /\ Len(queue'[s]) \in Nat /\ Len(queue'[s]) + 1 = Len(queue[s])
         /\ Head(queue[s]).source = s
         /\ Head(queue[s]).type = "record" => Failures(queue'[s]) = Failures(queue[s])
         /\ Head(queue[s]).type = "failed" => Failures(queue'[s]) = 0 /\ Failures(queue[s]) = 1
<1>1. /\ queue \in [Sources -> Seq(Event)] /\ worker \in [Sources -> WorkerRow]
      /\ worker[s] \in WorkerRow /\ queue[s] \in Seq(Event)
      /\ FlowRow(s, request.script[s], worker[s], queue[s])
  BY SentFacts DEF EngineInv, EngineTypes
<1>2. \A v \in WorkerRow :
        /\ [v EXCEPT !.parked = FALSE].pc = v.pc /\ [v EXCEPT !.parked = FALSE].count = v.count
        /\ [v EXCEPT !.parked = FALSE].err = v.err /\ [v EXCEPT !.parked = FALSE].next = v.next
  BY DEF WorkerRow
<1>3. worker' = [worker EXCEPT ![s] = [worker[s] EXCEPT !.parked = FALSE]]
  BY <1>1 DEF Unparked
<1>4. /\ worker'[s] = [worker[s] EXCEPT !.parked = FALSE]
      /\ \A r \in Sources : r # s => worker'[r] = worker[r] /\ queue'[r] = queue[r]
      /\ queue'[s] = Tail(queue[s])
  BY <1>1, <1>3 DEF Popped
<1>5. /\ worker'[s].pc = worker[s].pc /\ worker'[s].count = worker[s].count
      /\ worker'[s].err = worker[s].err /\ worker'[s].next = worker[s].next
  BY <1>1, <1>2, <1>4, Zenon
<1> DEFINE v == worker'[s]
           w == worker[s]
           q == queue[s]
           script == request.script[s]
<1>6. /\ v.pc = w.pc /\ v.count = w.count /\ v.err = w.err /\ v.next = w.next
      /\ q \in Seq(Event) /\ q # <<>> /\ FlowRow(s, script, w, q)
  BY <1>1, <1>5
<1> HIDE DEF v, w, q, script
<1>7. FlowRow(s, script, v, Tail(q)) /\ OneTaken(s, q)
  BY <1>6, TakenRow
<1> QED
  BY <1>4, <1>5, <1>7 DEF v, q, script, OneTaken

\* A record leaves its channel, and is counted on one side or the other.
LEMMA RecordKeepsSent ==
  ASSUME EngineInv, SentOK, NEW s \in Sources, DrainRecord(s)
  PROVE  SentOK'
<1>1. /\ queue[s] # <<>> /\ Head(queue[s]).type = "record" /\ queue' = Popped(s)
      /\ worker' = Unparked(s) /\ UNCHANGED request /\ ~At("dropped")
      /\ \/ metrics' = [metrics EXCEPT ![s].emitted = @ + 1]
         \/ metrics' = [metrics EXCEPT ![s].deduplicated = @ + 1]
  BY DEF DrainRecord, Receiving, Draining, At
<1>2. /\ \A r \in Sources : r # s => worker'[r] = worker[r] /\ queue'[r] = queue[r]
      /\ worker'[s].count = worker[s].count /\ worker'[s].err = worker[s].err
      /\ FlowRow(s, request.script[s], worker'[s], queue'[s])
      /\ Len(queue'[s]) \in Nat /\ Len(queue'[s]) + 1 = Len(queue[s])
      /\ Failures(queue'[s]) = Failures(queue[s])
  BY <1>1, PoppedFacts
<1>3. /\ metrics \in [Sources -> MeterRow] /\ metrics[s] \in MeterRow
      /\ metrics[s].emitted \in Nat /\ metrics[s].deduplicated \in Nat
  BY SentFacts DEF EngineInv, EngineTypes
<1>4. /\ \A r \in Sources : r # s => metrics'[r] = metrics[r]
      /\ \/ /\ metrics'[s].emitted = metrics[s].emitted + 1
            /\ metrics'[s].deduplicated = metrics[s].deduplicated
         \/ /\ metrics'[s].emitted = metrics[s].emitted
            /\ metrics'[s].deduplicated = metrics[s].deduplicated + 1
  BY <1>1, <1>3 DEF MeterRow
<1>5. ~request.strict /\ ~At("dropped") => CountRow(metrics'[s], worker'[s], queue'[s])
  <2> SUFFICES ASSUME ~request.strict, ~At("dropped")
               PROVE  CountRow(metrics'[s], worker'[s], queue'[s])
    OBVIOUS
  <2>1. CountRow(metrics[s], worker[s], queue[s])
    BY SentFacts
  <2>2. Refusals(worker'[s]) = Refusals(worker[s]) /\ Refusals(worker[s]) \in Nat
    BY <1>2 DEF Refusals
  <2>3. Failures(queue[s]) \in Nat /\ worker[s].count \in Nat
    BY SentFacts DEF Failures
  <2>4. metrics'[s].emitted + metrics'[s].deduplicated + Len(queue'[s]) + Refusals(worker[s])
          = worker[s].count + Failures(queue[s])
    <3> DEFINE a == metrics[s].emitted
               d == metrics[s].deduplicated
               l == Len(queue[s])
               k == Len(queue'[s])
               x == Refusals(worker[s])
               c == worker[s].count
               f == Failures(queue[s])
    <3>1. /\ a \in Nat /\ d \in Nat /\ k \in Nat /\ x \in Nat /\ c \in Nat /\ f \in Nat
          /\ k + 1 = l
      BY <1>2, <1>3, <2>2, <2>3
    <3>2. a + d + l + x = c + f
      BY <2>1 DEF CountRow
    <3>3. \/ metrics'[s].emitted = a + 1 /\ metrics'[s].deduplicated = d
          \/ metrics'[s].emitted = a /\ metrics'[s].deduplicated = d + 1
      BY <1>4
    <3> HIDE DEF a, d, l, k, x, c, f
    <3>4. metrics'[s].emitted + metrics'[s].deduplicated + k + x = c + f
      BY <3>1, <3>2, <3>3
    <3> QED
      BY <3>4 DEF k, x, c, f
  <2> QED
    BY <1>2, <2>2, <2>4 DEF CountRow
<1> QED
  BY <1>1, <1>2, <1>4, <1>5, OneRowSent

\* A failure leaves its channel.
LEMMA FailureKeepsSent ==
  ASSUME EngineInv, SentOK, NEW s \in Sources, DrainFailure(s)
  PROVE  SentOK'
<1>1. /\ queue[s] # <<>> /\ Head(queue[s]).type = "failed" /\ UNCHANGED request
      /\ ~At("dropped")
  BY DEF DrainFailure, Receiving, Draining, At
<1>2. CASE request.strict
  BY <1>1, <1>2, DropKeepsSent DEF DrainFailure, Stop
<1>3. CASE ~request.strict
  <2>1. queue' = Popped(s) /\ worker' = Unparked(s) /\ UNCHANGED metrics
    BY <1>3 DEF DrainFailure
  <2>2. /\ \A r \in Sources : r # s => worker'[r] = worker[r] /\ queue'[r] = queue[r]
        /\ worker'[s].count = worker[s].count /\ worker'[s].err = worker[s].err
        /\ FlowRow(s, request.script[s], worker'[s], queue'[s])
        /\ Len(queue'[s]) \in Nat /\ Len(queue'[s]) + 1 = Len(queue[s])
        /\ Failures(queue'[s]) = 0 /\ Failures(queue[s]) = 1
    BY <1>1, <2>1, PoppedFacts
  <2>3. CountRow(metrics'[s], worker'[s], queue'[s])
    <3>1. CountRow(metrics[s], worker[s], queue[s])
      BY <1>1, <1>3, SentFacts
    <3>2. Refusals(worker'[s]) = Refusals(worker[s]) /\ Refusals(worker[s]) \in Nat
      BY <2>2 DEF Refusals
    <3>3. /\ metrics[s].emitted \in Nat /\ metrics[s].deduplicated \in Nat
          /\ worker[s].count \in Nat
      BY SentFacts
    <3>4. metrics[s].emitted + metrics[s].deduplicated + Len(queue'[s]) + Refusals(worker[s])
            = worker[s].count + 0
      <4> DEFINE a == metrics[s].emitted
                 d == metrics[s].deduplicated
                 l == Len(queue[s])
                 k == Len(queue'[s])
                 x == Refusals(worker[s])
                 c == worker[s].count
      <4>1. /\ a \in Nat /\ d \in Nat /\ k \in Nat /\ x \in Nat /\ c \in Nat /\ k + 1 = l
        BY <2>2, <3>2, <3>3
      <4>2. a + d + l + x = c + 1
        BY <2>2, <3>1 DEF CountRow
      <4> HIDE DEF a, d, l, k, x, c
      <4>3. a + d + k + x = c + 0
        BY <4>1, <4>2
      <4> QED
        BY <4>3 DEF a, d, k, x, c
    <3> QED
      BY <2>1, <2>2, <3>2, <3>4 DEF CountRow
  <2> QED
    BY <1>1, <2>1, <2>2, <2>3, OneRowSent
<1> QED
  BY <1>2, <1>3

\* An item is rejected, and counted as such, or sent.
LEMMA EmitKeepsSent ==
  ASSUME EngineInv, SentOK, NEW s \in Sources, EmitRecord(s)
  PROVE  SentOK'
<1>1. PICK w :
    /\ Moves(s, w) /\ w.pc = worker[s].pc /\ w.count = worker[s].count + 1
    /\ worker[s].next \in 1..Len(Items(s)) /\ ~worker[s].parked
    /\ \/ /\ w.err /\ w.next = Len(Items(s)) + 1 /\ w.parked = worker[s].parked
          /\ UNCHANGED <<queue, armed, woken>>
       \/ /\ ~worker[s].err /\ ~w.err /\ (w.parked <=> Len(queue[s]) + 1 > EventBuffer)
          /\ \E e \in Event :
               /\ e.type = "record" /\ e.source = s
               /\ queue' = [queue EXCEPT ![s] = Append(@, e)]
          /\ woken' = (woken \/ s \in armed) /\ armed' = armed \ {s}
          /\ ChannelOK' /\ queue' \in [Sources -> Seq(Event)]
  BY EmitFacts
<1>2. /\ worker[s].pc \in {"call", "final"}
      /\ UNCHANGED <<request, driver, metrics>>
  BY DEF EmitRecord, Runs, workerUnchanged
<1>3. /\ worker'[s] = w /\ \A r \in Sources : r # s => worker'[r] = worker[r]
      /\ w \in WorkerRow
  BY <1>1, MoveFacts DEF Moves
<1>4. Items(s) = (IF worker[s].pc = "final" THEN request.script[s].data
                  ELSE request.script[s].chunks)
  BY DEF Items, Script
<1>5. Len(Items(s)) \in Nat /\ worker[s].next \in Nat
  BY ItemFacts, SentFacts
<1>6. ~worker[s].err
  <2>1. FlowRow(s, request.script[s], worker[s], queue[s])
    BY SentFacts
  <2>2. worker[s].err => worker[s].next > Len(Items(s))
    BY <1>2, <1>4, <2>1 DEF FlowRow
  <2> QED
    BY <1>1, <1>5, <2>2
<1>7. \A i \in 1..Len(queue[s]) : queue[s][i].source = s /\ queue[s][i].type = "record"
  BY <1>2, RecordsOnly
<1>8. /\ metrics[s].emitted \in Nat /\ metrics[s].deduplicated \in Nat
      /\ worker[s].count \in Nat /\ Len(queue[s]) \in Nat /\ queue[s] \in Seq(Event)
      /\ queue \in [Sources -> Seq(Event)]
  BY SentFacts DEF EngineInv, EngineTypes
<1>9. Failures(queue[s]) = 0
  <2>1. queue[s] # <<>> => Len(queue[s]) \in 1..Len(queue[s])
    BY <1>8, SentFacts
  <2> QED
    BY <1>7, <2>1 DEF Failures
<1>10. ~request.strict /\ ~At("dropped") =>
         metrics[s].emitted + metrics[s].deduplicated + Len(queue[s]) + 0
           = worker[s].count + 0
  BY <1>6, <1>9, SentFacts DEF CountRow, Refusals
<1>11. CASE w.err /\ w.next = Len(Items(s)) + 1 /\ UNCHANGED queue
  <2>1. FlowRow(s, request.script[s], w, queue[s])
    <3>1. w.next > Len(Items(s))
      BY <1>5, <1>11
    <3> QED
      BY <1>1, <1>2, <1>4, <1>7, <3>1 DEF FlowRow
  <2>2. ~request.strict /\ ~At("dropped") => CountRow(metrics[s], w, queue[s])
    <3>1. ~request.strict /\ ~At("dropped") =>
            metrics[s].emitted + metrics[s].deduplicated + Len(queue[s]) + 1
              = (worker[s].count + 1) + 0
      BY <1>8, <1>10
    <3> QED
      BY <1>1, <1>9, <1>11, <3>1 DEF CountRow, Refusals
  <2> QED
    BY <1>2, <1>3, <1>11, <2>1, <2>2, OneRowSent DEF At
<1>12. ASSUME ~w.err, NEW e \in Event, e.type = "record", e.source = s,
              queue' = [queue EXCEPT ![s] = Append(@, e)]
       PROVE  SentOK'
  <2>1. queue'[s] = Append(queue[s], e) /\ \A r \in Sources : r # s => queue'[r] = queue[r]
    BY <1>8, <1>12
  <2>2. /\ \A i \in 1..Len(queue'[s]) :
             /\ queue'[s][i].source = s
             /\ i < Len(queue'[s]) => queue'[s][i].type = "record"
             /\ queue'[s][i].type = "failed" => e.type = "failed"
        /\ Len(queue'[s]) = Len(queue[s]) + 1
        /\ Failures(queue'[s]) = 0
    <3> DEFINE q == queue[s]
    <3>1. q \in Seq(Event) /\ e \in Event /\ e.source = s /\ RecordsOf(s, q)
      BY <1>7, <1>8, <1>12 DEF RecordsOf
    <3> HIDE DEF q
    <3>2. OneAdded(s, q, e)
      BY <3>1, AddedRow
    <3>3. Failures(Append(q, e)) = 0
      BY <1>12, <3>2 DEF OneAdded
    <3> QED
      BY <2>1, <3>2, <3>3 DEF q, OneAdded
  <2>3. FlowRow(s, request.script[s], w, queue'[s])
    BY <1>1, <1>2, <1>12, <2>2 DEF FlowRow
  <2>4. ~request.strict /\ ~At("dropped") => CountRow(metrics[s], w, queue'[s])
    <3>1. ~request.strict /\ ~At("dropped") =>
            metrics[s].emitted + metrics[s].deduplicated + (Len(queue[s]) + 1) + 0
              = (worker[s].count + 1) + 0
      <4> DEFINE a == metrics[s].emitted
                 d == metrics[s].deduplicated
                 l == Len(queue[s])
                 c == worker[s].count
      <4>1. a \in Nat /\ d \in Nat /\ l \in Nat /\ c \in Nat
        BY <1>8
      <4>2. ~request.strict /\ ~At("dropped") => a + d + l + 0 = c + 0
        BY <1>10
      <4> HIDE DEF a, d, l, c
      <4>3. ~request.strict /\ ~At("dropped") => a + d + (l + 1) + 0 = (c + 1) + 0
        BY <4>1, <4>2
      <4> QED
        BY <4>3 DEF a, d, l, c
    <3> QED
      BY <1>1, <1>12, <2>2, <3>1 DEF CountRow, Refusals
  <2> QED
    BY <1>2, <1>3, <2>1, <2>3, <2>4, OneRowSent DEF At
<1> QED
  BY <1>1, <1>11, <1>12

\* A failed call sends its failure.
LEMMA FailKeepsSent ==
  ASSUME EngineInv, SentOK, NEW s \in Sources, Fail(s)
  PROVE  SentOK'
<1>1. PICK w : \E m \in MeterRow :
    /\ Moves(s, w) /\ w.pc = "closing" /\ w.count = worker[s].count /\ w.err = worker[s].err
    /\ ~worker[s].parked /\ (w.parked <=> Len(queue[s]) + 1 > EventBuffer)
    /\ worker[s].pc \in {"call", "final"}
    /\ queue' = [queue EXCEPT ![s] = Append(@, Failed(s))] /\ Failed(s) \in Event
    /\ woken' = (woken \/ s \in armed) /\ armed' = armed \ {s}
    /\ ChannelOK' /\ queue' \in [Sources -> Seq(Event)]
    /\ OneMore(m, metrics[s]) /\ metrics' = [metrics EXCEPT ![s] = m]
  BY FailFacts, Zenon
<1>2. PICK m \in MeterRow : OneMore(m, metrics[s]) /\ metrics' = [metrics EXCEPT ![s] = m]
  BY <1>1
<1>3. UNCHANGED <<request, driver>>
  BY DEF Fail, workerUnchanged
<1>4. worker'[s] = w /\ \A r \in Sources : r # s => worker'[r] = worker[r]
  BY <1>1, MoveFacts
<1>5. /\ metrics'[s] = m /\ \A r \in Sources : r # s => metrics'[r] = metrics[r]
      /\ m.emitted = metrics[s].emitted /\ m.deduplicated = metrics[s].deduplicated
  BY <1>2 DEF EngineInv, EngineTypes, OneMore
<1>6. /\ metrics[s].emitted \in Nat /\ metrics[s].deduplicated \in Nat
      /\ worker[s].count \in Nat /\ Len(queue[s]) \in Nat /\ queue[s] \in Seq(Event)
      /\ queue \in [Sources -> Seq(Event)]
  BY SentFacts DEF EngineInv, EngineTypes
<1>7. \A i \in 1..Len(queue[s]) : queue[s][i].source = s /\ queue[s][i].type = "record"
  BY <1>1, RecordsOnly
<1>8. queue'[s] = Append(queue[s], Failed(s)) /\ \A r \in Sources : r # s => queue'[r] = queue[r]
  BY <1>1, <1>6
<1>9. /\ \A i \in 1..Len(queue'[s]) :
           /\ queue'[s][i].source = s
           /\ i < Len(queue'[s]) => queue'[s][i].type = "record"
      /\ Len(queue'[s]) = Len(queue[s]) + 1
      /\ Failures(queue[s]) = 0 /\ Failures(queue'[s]) = 1
  <2> DEFINE q == queue[s]
             e == Failed(s)
  <2>1. /\ q \in Seq(Event) /\ RecordsOf(s, q)
        /\ e \in Event /\ e.source = s /\ e.type = "failed"
    BY <1>1, <1>6, <1>7 DEF Failed, RecordsOf
  <2> HIDE DEF q, e
  <2>2. OneAdded(s, q, e)
    BY <2>1, AddedRow
  <2>3. Failures(Append(q, e)) = 1
    BY <2>1, <2>2 DEF OneAdded
  <2> QED
    BY <1>8, <2>2, <2>3 DEF q, e, OneAdded
<1>10. FlowRow(s, request.script[s], w, queue'[s])
  BY <1>1, <1>9 DEF FlowRow
<1>11. ~request.strict /\ ~At("dropped") => CountRow(m, w, queue'[s])
  <2> SUFFICES ASSUME ~request.strict, ~At("dropped")
               PROVE  CountRow(m, w, queue'[s])
    OBVIOUS
  <2>1. CountRow(metrics[s], worker[s], queue[s])
    BY SentFacts
  <2>2. Refusals(w) = Refusals(worker[s]) /\ Refusals(worker[s]) \in Nat
    BY <1>1 DEF Refusals
  <2>3. metrics[s].emitted + metrics[s].deduplicated + Len(queue[s]) + Refusals(worker[s])
          = worker[s].count + 0
    BY <1>9, <2>1 DEF CountRow
  <2>4. metrics[s].emitted + metrics[s].deduplicated + (Len(queue[s]) + 1) + Refusals(worker[s])
          = worker[s].count + 1
    <3> DEFINE a == metrics[s].emitted
               d == metrics[s].deduplicated
               l == Len(queue[s])
               x == Refusals(worker[s])
               c == worker[s].count
    <3>1. a \in Nat /\ d \in Nat /\ l \in Nat /\ c \in Nat /\ x \in Nat
      BY <1>6, <2>2
    <3>2. a + d + l + x = c + 0
      BY <2>3
    <3> HIDE DEF a, d, l, c, x
    <3>3. a + d + (l + 1) + x = c + 1
      BY <3>1, <3>2
    <3> QED
      BY <3>3 DEF a, d, l, c, x
  <2> QED
    BY <1>1, <1>5, <1>9, <2>2, <2>4 DEF CountRow
<1> QED
  BY <1>3, <1>4, <1>5, <1>8, <1>10, <1>11, OneRowSent DEF At

\* The other steps of a worker send nothing.
LEMMA WorkerKeepsSent ==
  ASSUME EngineInv, SentOK, NEW s \in Sources, WorkerStep(s) \/ UpstreamAnswers(s)
  PROVE  SentOK'
<1>1. CASE EmitRecord(s) \/ Fail(s)
  BY <1>1, EmitKeepsSent, FailKeepsSent
<1>2. CASE SkipWorker(s)
  <2>1. UNCHANGED <<request, worker, queue, metrics>> /\ ~At("dropped")
    BY <1>2 DEF SkipWorker, Polled, At, workerUnchanged
  <2> QED
    BY <2>1, QuietKeepsSent
<1>3. CASE BeginCall(s) \/ AwaitUpstream(s) \/ BeginFinal(s) \/ Succeed(s) \/ Finish(s)
             \/ UpstreamAnswers(s)
  <2>1. /\ UNCHANGED <<request, pending, running, queue>>
        /\ \A r \in Sources : r # s => metrics'[r] = metrics[r]
        /\ metrics'[s].emitted = metrics[s].emitted
        /\ metrics'[s].deduplicated = metrics[s].deduplicated
    <3>1. metrics \in [Sources -> MeterRow]
      BY DEF EngineInv, EngineTypes
    <3>2. \/ UNCHANGED metrics
          \/ metrics' = [metrics EXCEPT ![s].requests = @ + 1]
          \/ metrics' = [metrics EXCEPT ![s].successes = @ + 1]
      BY <1>3 DEF BeginCall, AwaitUpstream, BeginFinal, Succeed, Finish, UpstreamAnswers
    <3>3. /\ \A r \in Sources : r # s => metrics'[r] = metrics[r]
          /\ metrics'[s].emitted = metrics[s].emitted
          /\ metrics'[s].deduplicated = metrics[s].deduplicated
      BY <3>1, <3>2 DEF MeterRow
    <3> QED
      BY <1>3, <3>3 DEF BeginCall, AwaitUpstream, BeginFinal, Succeed, Finish, UpstreamAnswers,
                        workerUnchanged
  <2>2. s \in ToSet(running) /\ driver' \in DriverRow /\ driver'.pc = driver.pc
    <3>1. s \in ToSet(running)
      <4>1. CASE Polled(s)
        BY <4>1, PolledFacts
      <4>2. CASE UpstreamAnswers(s)
        BY <4>2 DEF UpstreamAnswers, EngineInv, PlanOK, Started
      <4> QED
        BY <1>3, <4>1, <4>2 DEF BeginCall, AwaitUpstream, BeginFinal, Succeed, Finish, Runs
    <3>2. \/ driver' = driver
          \/ driver' = [driver EXCEPT !.at = @ + 1]
          \/ driver' = [driver EXCEPT !.at = @ + 1, !.progressed = TRUE]
      BY <1>3 DEF BeginCall, AwaitUpstream, BeginFinal, Succeed, Finish, UpstreamAnswers
    <3>3. driver' \in DriverRow /\ driver'.pc = driver.pc
      BY <3>2, DriverPass DEF EngineInv
    <3> QED
      BY <3>1, <3>3
  <2>3. worker[s] \in WorkerRow /\ worker \in [Sources -> WorkerRow]
    BY DEF EngineInv, EngineTypes
  <2>4. \A v \in WorkerRow : \A p : [v EXCEPT !.pc = p].next = v.next
    BY DEF WorkerRow
  <2>5. \A v \in WorkerRow : \A p : [v EXCEPT !.pc = p, !.rested = TRUE].next = v.next
    BY DEF WorkerRow
  <2>6. CASE AwaitUpstream(s) \/ UpstreamAnswers(s)
    <3>1. /\ worker[s].pc \in {"call", "io"}
          /\ \/ worker' = [worker EXCEPT ![s].pc = "io"]
             \/ worker' = [worker EXCEPT ![s].pc = "call", ![s].rested = TRUE]
      BY <2>6 DEF AwaitUpstream, UpstreamAnswers, Runs
    <3>2. PICK w : Moves(s, w) /\ w.pc \in {"io", "call"} /\ Same(w, worker[s])
      BY <2>1, <2>2, <3>1, PcMoves DEF Started
    <3>3. worker'[s] = w
      BY <3>2, MoveFacts
    <3>4. worker'[s].next = worker[s].next
      BY <2>3, <3>1 DEF WorkerRow
    <3> QED
      BY <2>1, <3>1, <3>2, <3>3, <3>4, SilentKeepsSent
  <2>7. CASE BeginCall(s) \/ BeginFinal(s)
    <3>1. /\ worker[s].pc \in {"new", "call"} /\ ~worker[s].err
          /\ \/ worker' = [worker EXCEPT ![s].pc = "call"]
             \/ worker' = [worker EXCEPT ![s] = [@ EXCEPT !.pc = "final", !.next = 1]]
      <4>1. worker[s].pc = "new" => ~worker[s].err
        BY SentFacts DEF FlowRow
      <4> QED
        BY <2>7, <4>1 DEF BeginCall, BeginFinal, Runs
    <3>2. PICK w : Moves(s, w) /\ w.pc \in {"call", "final"} /\ Same(w, worker[s])
      BY <2>1, <2>2, <3>1, PcMoves DEF Started
    <3>3. ~w.err
      BY <3>1, <3>2 DEF Same
    <3> QED
      BY <2>1, <3>1, <3>2, <3>3, SilentKeepsSent
  <2>8. CASE Succeed(s) \/ Finish(s)
    <3>1. \/ worker' = [worker EXCEPT ![s].pc = "closing"]
          \/ worker' = [worker EXCEPT ![s].pc = "done"]
      BY <2>8 DEF Succeed, Finish
    <3>2. PICK w : Moves(s, w) /\ w.pc \in {"closing", "done"} /\ Same(w, worker[s])
      BY <2>1, <2>2, <3>1, PcMoves DEF Started
    <3> QED
      BY <2>1, <3>2, SilentKeepsSent
  <2> QED
    BY <1>3, <2>6, <2>7, <2>8
<1> QED
  BY <1>1, <1>2, <1>3 DEF WorkerStep

\* The steps of the driver.
LEMMA DriverKeepsSent ==
  ASSUME EngineInv, SentOK,
         PollNext \/ DrainInitial \/ DrainDry \/ Decide \/ WorkersPolled \/ Drop
           \/ \E s \in Sources : DrainClosed(s)
  PROVE  SentOK'
<1>1. CASE PollNext \/ Decide \/ WorkersPolled
  <2>1. UNCHANGED <<request, worker, queue, metrics>> /\ ~At("dropped")
    BY <1>1 DEF PollNext, Decide, WorkersPolled, At, workerUnchanged
  <2> QED
    BY <2>1, QuietKeepsSent
<1>2. CASE DrainInitial
  <2>1. ~At("dropped") /\ UNCHANGED request
    BY <1>2 DEF DrainInitial, Draining, At
  <2>2. CASE request.strict
    BY <1>2, <2>1, <2>2, DropKeepsSent DEF DrainInitial, Stop
  <2>3. CASE ~request.strict
    <3>1. UNCHANGED <<worker, queue, metrics>>
      BY <1>2, <2>3 DEF DrainInitial
    <3> QED
      BY <2>1, <3>1, QuietKeepsSent
  <2> QED
    BY <2>2, <2>3
<1>3. CASE Drop
  <2>1. DropRunning /\ UNCHANGED request /\ driver'.pc = "dropped"
    BY <1>3, DriverFacts DEF Drop, Goto, EngineInv
  <2> QED
    BY <2>1, DropKeepsSent DEF At
<1>4. CASE DrainDry
  <2>1. /\ StartReadySources(running) /\ UNCHANGED <<request, queue, metrics>>
        /\ ~At("dropped") /\ running \in Seq(Sources) /\ Len(running) <= MaxActive
    BY <1>4 DEF DrainDry, At, EngineInv, EngineTypes, PlanOK
  <2> QED
    BY <2>1, StartKeepsSent
<1>5. ASSUME NEW s \in Sources, DrainClosed(s)
      PROVE  SentOK'
  <2> DEFINE at == Normalize(driver.cursor, running)
             rest == RemoveAt(running, at)
  <2>1. /\ Receiving(s) /\ StartReadySources(rest) /\ UNCHANGED <<request, queue, metrics>>
        /\ ~At("dropped")
    BY <1>5 DEF DrainClosed, Receiving, Draining, At
  <2>2. rest \in Seq(Sources) /\ Len(rest) <= MaxActive
    BY <2>1, LeaverFacts
  <2> HIDE DEF rest
  <2> QED
    BY <2>1, <2>2, StartKeepsSent
<1> QED
  BY <1>1, <1>2, <1>3, <1>4, <1>5

\* Every step keeps it.
LEMMA StepKeepsSent ==
  ASSUME EngineInv, SentOK, [EngineNext]_engineVars
  PROVE  SentOK'
<1>1. CASE UNCHANGED engineVars
  BY <1>1, QuietKeepsSent DEF engineVars, At
<1>2. ASSUME NEW s \in Sources,
             DrainRecord(s) \/ DrainFailure(s) \/ DrainClosed(s) \/ WorkerStep(s)
               \/ UpstreamAnswers(s)
      PROVE  SentOK'
  BY <1>2, RecordKeepsSent, FailureKeepsSent, DriverKeepsSent, WorkerKeepsSent
<1>3. CASE PollNext \/ DrainInitial \/ DrainDry \/ Decide \/ WorkersPolled \/ Drop
  BY <1>3, DriverKeepsSent
<1> QED
  BY <1>1, <1>2, <1>3 DEF EngineNext, PollStep, DriverStep

\* At first nothing is counted.
LEMMA SentBegins ==
  ASSUME EngineInit
  PROVE  SentOK
<1>1. \A s \in Sources :
        /\ queue[s] = <<>> /\ worker[s].pc = "none" /\ worker[s].count = 0 /\ ~worker[s].err
        /\ metrics[s].emitted = 0 /\ metrics[s].deduplicated = 0
  BY DEF EngineInit, NewWorker, NoMetrics
<1>2. Len(<<>>) = 0
  OBVIOUS
<1> QED
  BY <1>1, <1>2 DEF SentOK, FlowRow, CountRow, Refusals, Failures

\* When a search that is not strict has ended, every record within the budget of its
\* source was delivered or left out as a duplicate, although channels block and
\* sources close while events are in them.
THEOREM RecordsAreNotLost == EngineSpec => []NothingLost
<1>1. EngineInit => SentOK
  BY SentBegins
<1>2. EngineInv /\ SentOK /\ [EngineNext]_engineVars => SentOK'
  BY StepKeepsSent
<1>3. EngineInv /\ SentOK => NothingLost
  <2> SUFFICES ASSUME EngineInv, SentOK, At("ended"), ~request.strict, NEW s \in Sources
               PROVE  metrics[s].emitted + metrics[s].deduplicated
                        = worker[s].count - (IF worker[s].err THEN 1 ELSE 0)
    BY DEF NothingLost
  <2>1. queue[s] = <<>> /\ ~At("dropped")
    <3>1. running = <<>> /\ ToSet(<<>>) = {}
      BY DEF EngineInv, PlanOK, ToSet
    <3> QED
      BY <3>1 DEF EngineInv, ChannelOK, At
  <2>2. Len(queue[s]) = 0 /\ Failures(queue[s]) = 0
    BY <2>1 DEF Failures
  <2>3. CountRow(metrics[s], worker[s], queue[s])
    BY <2>1, SentFacts
  <2>4. /\ metrics[s].emitted \in Nat /\ metrics[s].deduplicated \in Nat
        /\ worker[s].count \in Nat /\ Refusals(worker[s]) \in Nat
    BY SentFacts DEF Refusals
  <2>5. metrics[s].emitted + metrics[s].deduplicated + 0 + Refusals(worker[s])
          = worker[s].count + 0
    BY <2>2, <2>3 DEF CountRow
  <2>6. metrics[s].emitted + metrics[s].deduplicated = worker[s].count - Refusals(worker[s])
    BY <2>4, <2>5
  <2> QED
    BY <2>6 DEF Refusals
<1> QED
  BY <1>1, <1>2, <1>3, EngineKeepsInv, PTL DEF EngineSpec

-----------------------------------------------------------------------------
(* The consumer hears of every failure *)

\* A step after which the consumer is told of the same failures, and as many are counted.
LEMMA SameTold ==
  ASSUME ToldOK, UNCHANGED request, At("dropped") => At("dropped")',
         \A i \in 1..Len(initial') :
           initial'[i].type = "failed" /\ initial'[i].source \notin Sources,
         \A s \in Sources :
           /\ Told(s, out', queue'[s]) <=> Told(s, out, queue[s])
           /\ metrics'[s].failures = metrics[s].failures
           /\ metrics'[s].cancelled = metrics[s].cancelled
  PROVE  ToldOK'
BY DEF ToldOK

\* What is counted of a source: at most one failure, and none while its guard is held.
LEMMA OneFailure ==
  ASSUME EngineInv, NEW s \in Sources
  PROVE  /\ metrics[s].failures \in Nat /\ metrics[s].cancelled \in Nat
         /\ metrics[s].failures + metrics[s].cancelled <= 1
         /\ worker[s].pc \in {"call", "io", "final"} =>
              metrics[s].failures = 0 /\ metrics[s].cancelled = 0
<1> DEFINE r == metrics[s].requests
           o == metrics[s].successes
           f == metrics[s].failures
           c == metrics[s].cancelled
<1>1. r \in Nat /\ o \in Nat /\ f \in Nat /\ c \in Nat /\ Balanced(metrics[s], worker[s].pc)
  BY BalanceFacts, MeterFacts
<1>2. r <= 1
  BY <1>1 DEF Balanced
<1>3. worker[s].pc \in {"call", "io", "final"} => r = o + f + c + 1
  BY <1>1 DEF Balanced
<1>4. worker[s].pc \notin {"call", "io", "final"} => r = o + f + c + 0
  BY <1>1 DEF Balanced
<1> HIDE DEF r, o, f, c
<1>5. f + c <= 1
  BY <1>1, <1>2, <1>3, <1>4
<1>6. worker[s].pc \in {"call", "io", "final"} => f = 0 /\ c = 0
  BY <1>1, <1>2, <1>3
<1> QED
  BY <1>1, <1>5, <1>6 DEF f, c

\* A search that stops or is dropped tells nothing more; what was told stays counted.
LEMMA StopKeepsTold ==
  ASSUME EngineInv, ToldOK, DropRunning, metrics' = CancelGuards(metrics), UNCHANGED request,
         request.strict \/ At("dropped")',
         \A i \in 1..Len(initial') :
           initial'[i].type = "failed" /\ initial'[i].source \notin Sources,
         \A s \in Sources : Failed(s) \in ToSet(out') => Told(s, out, queue[s])
  PROVE  ToldOK'
<1>1. (\A s \in Sources : queue'[s] = <<>>) /\ ToSet(<<>>) = {}
  <2>1. queue' = [s \in Sources |-> <<>>]
    BY DEF DropRunning
  <2>2. ToSet(<<>>) = {}
    BY DEF ToSet
  <2> QED
    BY <2>1, <2>2
<1>2. ASSUME NEW s \in Sources, Told(s, out', queue'[s])
      PROVE  metrics'[s].failures + metrics'[s].cancelled = 1
  <2>1. Told(s, out, queue[s])
    BY <1>1, <1>2 DEF Told
  <2>2. metrics[s].failures + metrics[s].cancelled = 1
    BY <2>1 DEF ToldOK
  <2>3. ~GuardHeld(s)
    <3>1. worker[s].pc \in {"call", "io", "final"} =>
            metrics[s].failures = 0 /\ metrics[s].cancelled = 0
      BY OneFailure
    <3>2. 0 + 0 # 1
      OBVIOUS
    <3>3. worker[s].pc \notin {"call", "io", "final"}
      BY <2>2, <3>1, <3>2
    <3> QED
      BY <3>3 DEF GuardHeld
  <2>4. metrics'[s] = metrics[s]
    BY <2>3 DEF CancelGuards
  <2> QED
    BY <2>2, <2>4
<1> QED
  BY <1>2 DEF ToldOK

\* Records are not failures, and a failure names its source.
LEMMA EventFacts ==
  ASSUME NEW e \in Event
  PROVE  /\ e.type = "record" => \A s : e # Failed(s)
         /\ e.type = "failed" => \A s : e = Failed(s) <=> e.source = s
<1>1. \A s : Failed(s).type = "failed" /\ Failed(s).source = s
  BY DEF Failed
<1>2. e.type = "record" => \A s : e # Failed(s)
  BY <1>1
<1>3. e.type = "failed" => e = Failed(e.source)
  BY DEF Event, Failed
<1> QED
  BY <1>1, <1>2, <1>3

\* A diagnostic of the plan is not about a source that runs.
LEMMA InitialKeepsTold ==
  ASSUME EngineInv, ToldOK, DrainInitial
  PROVE  ToldOK'
<1>1. /\ initial # <<>> /\ initial' = Tail(initial) /\ out' = Append(out, Head(initial))
      /\ UNCHANGED request /\ ~At("dropped") /\ initial \in Seq(Event) /\ out \in Seq(Event)
  BY DEF DrainInitial, Draining, At, EngineInv, EngineTypes
<1>2. /\ Len(initial) \in Nat \ {0} /\ Len(Tail(initial)) = Len(initial) - 1
      /\ Head(initial) = initial[1] /\ Head(initial) \in Event
      /\ \A i \in 1..Len(Tail(initial)) : Tail(initial)[i] = initial[i + 1]
  BY <1>1, TailFacts
<1>3. \A i \in 1..Len(Tail(initial)) : i + 1 \in 1..Len(initial)
  BY <1>2
<1>4. \A i \in 1..Len(initial') :
        initial'[i].type = "failed" /\ initial'[i].source \notin Sources
  BY <1>1, <1>2, <1>3 DEF ToldOK
<1>5. Head(initial).type = "failed" /\ Head(initial).source \notin Sources
  <2>1. 1 \in 1..Len(initial)
    BY <1>2
  <2> QED
    BY <1>2, <2>1 DEF ToldOK
<1>6. ToSet(out') = ToSet(out) \cup {Head(initial)}
  BY <1>1, <1>2, AppendFacts
<1>7. \A s \in Sources : Failed(s) \in ToSet(out') <=> Failed(s) \in ToSet(out)
  BY <1>2, <1>5, <1>6, EventFacts
<1>8. CASE request.strict
  <2>1. DropRunning /\ metrics' = CancelGuards(metrics)
    BY <1>8 DEF DrainInitial, Stop
  <2> QED
    BY <1>1, <1>4, <1>7, <1>8, <2>1, StopKeepsTold DEF Told
<1>9. CASE ~request.strict
  <2>1. UNCHANGED <<queue, metrics>>
    BY <1>9 DEF DrainInitial
  <2> QED
    BY <1>1, <1>4, <1>7, <2>1, SameTold DEF Told
<1> QED
  BY <1>8, <1>9

\* A record is delivered or left out.
LEMMA RecordKeepsTold ==
  ASSUME EngineInv, SentOK, ToldOK, NEW s \in Sources, DrainRecord(s)
  PROVE  ToldOK'
<1>1. /\ queue[s] # <<>> /\ Head(queue[s]).type = "record" /\ queue' = Popped(s)
      /\ worker' = Unparked(s) /\ UNCHANGED <<request, initial>> /\ ~At("dropped")
      /\ \/ metrics' = [metrics EXCEPT ![s].emitted = @ + 1]
         \/ metrics' = [metrics EXCEPT ![s].deduplicated = @ + 1]
      /\ out' = out \/ out' = Append(out, Head(queue[s]))
  BY DEF DrainRecord, Receiving, Draining, At
<1>2. /\ queue[s] \in Seq(Event) /\ out \in Seq(Event) /\ metrics \in [Sources -> MeterRow]
  BY DEF EngineInv, EngineTypes
<1>3. Head(queue[s]) \in Event /\ ToSet(queue[s]) = ToSet(Tail(queue[s])) \cup {Head(queue[s])}
  BY <1>1, <1>2, TailFacts
<1>4. \A r : Head(queue[s]) # Failed(r)
  BY <1>1, <1>3, EventFacts
<1>5. ToSet(out') = ToSet(out) \/ ToSet(out') = ToSet(out) \cup {Head(queue[s])}
  <2> DEFINE e == Head(queue[s])
  <2>1. e \in Event /\ (out' = out \/ out' = Append(out, e))
    BY <1>1, <1>3
  <2> HIDE DEF e
  <2>2. ToSet(Append(out, e)) = ToSet(out) \cup {e}
    BY <1>2, <2>1, AppendFacts
  <2>3. ToSet(out') = ToSet(out) \/ ToSet(out') = ToSet(out) \cup {e}
    BY <2>1, <2>2
  <2> QED
    BY <2>3 DEF e
<1>6. queue'[s] = Tail(queue[s]) /\ \A r \in Sources : r # s => queue'[r] = queue[r]
  BY <1>1, PoppedFacts
<1>7. \A r \in Sources : Told(r, out', queue'[r]) <=> Told(r, out, queue[r])
  BY <1>3, <1>4, <1>5, <1>6 DEF Told
<1>8. \A r \in Sources : /\ metrics'[r].failures = metrics[r].failures
                         /\ metrics'[r].cancelled = metrics[r].cancelled
  <2>1. \A r \in Sources : r # s => metrics'[r] = metrics[r]
    BY <1>1, <1>2
  <2>2. \/ metrics'[s] = [metrics[s] EXCEPT !.emitted = @ + 1]
        \/ metrics'[s] = [metrics[s] EXCEPT !.deduplicated = @ + 1]
    BY <1>1, <1>2
  <2>3. \A m \in MeterRow :
          /\ [m EXCEPT !.emitted = @ + 1].failures = m.failures
          /\ [m EXCEPT !.emitted = @ + 1].cancelled = m.cancelled
          /\ [m EXCEPT !.deduplicated = @ + 1].failures = m.failures
          /\ [m EXCEPT !.deduplicated = @ + 1].cancelled = m.cancelled
    BY DEF MeterRow
  <2>4. metrics[s] \in MeterRow
    BY <1>2
  <2>5. metrics'[s].failures = metrics[s].failures /\ metrics'[s].cancelled = metrics[s].cancelled
    BY <2>2, <2>3, <2>4
  <2> QED
    BY <2>1, <2>5
<1>9. \A i \in 1..Len(initial') :
        initial'[i].type = "failed" /\ initial'[i].source \notin Sources
  BY <1>1 DEF ToldOK
<1> QED
  BY <1>1, <1>7, <1>8, <1>9, SameTold

\* A failure goes from its channel to the consumer.
LEMMA FailureKeepsTold ==
  ASSUME EngineInv, SentOK, ToldOK, NEW s \in Sources, DrainFailure(s)
  PROVE  ToldOK'
<1>1. /\ queue[s] # <<>> /\ Head(queue[s]).type = "failed" /\ UNCHANGED <<request, initial>>
      /\ ~At("dropped") /\ out' = Append(out, Head(queue[s]))
  BY DEF DrainFailure, Receiving, Draining, At
<1>2. queue[s] \in Seq(Event) /\ out \in Seq(Event)
  BY DEF EngineInv, EngineTypes
<1>3. /\ Head(queue[s]) \in Event /\ ToSet(queue[s]) = ToSet(Tail(queue[s])) \cup {Head(queue[s])}
      /\ Head(queue[s]) = queue[s][1] /\ Len(queue[s]) \in Nat \ {0}
  BY <1>1, <1>2, TailFacts
<1>4. Head(queue[s]).source = s
  <2>1. 1 \in 1..Len(queue[s])
    BY <1>3
  <2> QED
    BY <1>3, <2>1, SentFacts DEF FlowRow
<1>5. \A r : Head(queue[s]) = Failed(r) <=> r = s
  BY <1>1, <1>3, <1>4, EventFacts
<1>6. ToSet(out') = ToSet(out) \cup {Head(queue[s])}
  BY <1>1, <1>2, <1>3, AppendFacts
<1>7. \A i \in 1..Len(initial') :
        initial'[i].type = "failed" /\ initial'[i].source \notin Sources
  BY <1>1 DEF ToldOK
<1>8. CASE request.strict
  <2>1. DropRunning /\ metrics' = CancelGuards(metrics)
    BY <1>8 DEF DrainFailure, Stop
  <2>2. \A r \in Sources : Failed(r) \in ToSet(out') => Told(r, out, queue[r])
    BY <1>3, <1>5, <1>6 DEF Told
  <2> QED
    BY <1>1, <1>7, <1>8, <2>1, <2>2, StopKeepsTold
<1>9. CASE ~request.strict
  <2>1. queue' = Popped(s) /\ worker' = Unparked(s) /\ UNCHANGED metrics
    BY <1>9 DEF DrainFailure
  <2>2. queue'[s] = Tail(queue[s]) /\ \A r \in Sources : r # s => queue'[r] = queue[r]
    BY <1>1, <2>1, PoppedFacts
  <2>3. \A r \in Sources : Told(r, out', queue'[r]) <=> Told(r, out, queue[r])
    BY <1>3, <1>5, <1>6, <2>2 DEF Told
  <2> QED
    BY <1>1, <1>7, <2>1, <2>3, SameTold
<1> QED
  BY <1>8, <1>9

\* A worker takes a step: it tells of a failure when it counts one.
LEMMA WorkerKeepsTold ==
  ASSUME EngineInv, SentOK, ToldOK, NEW s \in Sources, WorkerStep(s) \/ UpstreamAnswers(s)
  PROVE  ToldOK'
<1>1. UNCHANGED <<request, initial, out>> /\ (At("dropped") => At("dropped")')
  BY DEF WorkerStep, BeginCall, AwaitUpstream, EmitRecord, BeginFinal, Succeed, Fail, Finish,
         SkipWorker, UpstreamAnswers, Runs, Polled, At, workerUnchanged
<1>2. \A i \in 1..Len(initial') :
        initial'[i].type = "failed" /\ initial'[i].source \notin Sources
  BY <1>1 DEF ToldOK
<1>3. /\ metrics \in [Sources -> MeterRow] /\ queue \in [Sources -> Seq(Event)]
      /\ queue[s] \in Seq(Event)
  BY DEF EngineInv, EngineTypes
<1>4. CASE EmitRecord(s)
  <2>1. \/ UNCHANGED queue
        \/ \E e \in Event : e.type = "record" /\ queue' = [queue EXCEPT ![s] = Append(@, e)]
    BY <1>4, EmitFacts
  <2>2. ASSUME NEW e \in Event, e.type = "record", queue' = [queue EXCEPT ![s] = Append(@, e)]
        PROVE  \A r \in Sources : Failed(r) \in ToSet(queue'[r]) <=> Failed(r) \in ToSet(queue[r])
    <3>1. queue'[s] = Append(queue[s], e) /\ \A r \in Sources : r # s => queue'[r] = queue[r]
      BY <1>3, <2>2
    <3>2. ToSet(Append(queue[s], e)) = ToSet(queue[s]) \cup {e}
      BY <1>3, AppendFacts
    <3>3. \A r : e # Failed(r)
      BY <2>2, EventFacts
    <3>4. Failed(s) \in ToSet(queue'[s]) <=> Failed(s) \in ToSet(queue[s])
      BY <3>1, <3>2, <3>3
    <3>5. \A r \in Sources : r # s => ToSet(queue'[r]) = ToSet(queue[r])
      BY <3>1
    <3> QED
      BY <3>4, <3>5
  <2>3. \A r \in Sources : Told(r, out', queue'[r]) <=> Told(r, out, queue[r])
    BY <1>1, <2>1, <2>2 DEF Told
  <2>4. UNCHANGED metrics
    BY <1>4 DEF EmitRecord
  <2> QED
    BY <1>1, <1>2, <2>3, <2>4, SameTold
<1>5. CASE Fail(s)
  <2>1. PICK w : \E m \in MeterRow :
      /\ Moves(s, w) /\ w.pc = "closing" /\ w.count = worker[s].count /\ w.err = worker[s].err
      /\ ~worker[s].parked /\ (w.parked <=> Len(queue[s]) + 1 > EventBuffer)
      /\ worker[s].pc \in {"call", "final"}
      /\ queue' = [queue EXCEPT ![s] = Append(@, Failed(s))] /\ Failed(s) \in Event
      /\ woken' = (woken \/ s \in armed) /\ armed' = armed \ {s}
      /\ ChannelOK' /\ queue' \in [Sources -> Seq(Event)]
      /\ OneMore(m, metrics[s]) /\ metrics' = [metrics EXCEPT ![s] = m]
    BY <1>5, FailFacts, Zenon
  <2>2. PICK m \in MeterRow : OneMore(m, metrics[s]) /\ metrics' = [metrics EXCEPT ![s] = m]
    BY <2>1
  <2>3. metrics'[s] = m /\ \A r \in Sources : r # s => metrics'[r] = metrics[r]
    BY <1>3, <2>2
  <2>4. queue'[s] = Append(queue[s], Failed(s)) /\ \A r \in Sources : r # s => queue'[r] = queue[r]
    BY <1>3, <2>1
  <2>5. ToSet(queue'[s]) = ToSet(queue[s]) \cup {Failed(s)}
    <3> DEFINE q == queue[s]
               e == Failed(s)
    <3>1. q \in Seq(Event) /\ e \in Event
      BY <1>3, <2>1
    <3> HIDE DEF q, e
    <3>2. ToSet(Append(q, e)) = ToSet(q) \cup {e}
      BY <3>1, AppendFacts
    <3> QED
      BY <2>4, <3>2 DEF q, e
  <2>6. m.failures + m.cancelled = 1
    <3>1. metrics[s].failures = 0 /\ metrics[s].cancelled = 0
      BY <2>1, OneFailure
    <3> QED
      BY <2>2, <3>1 DEF OneMore
  <2>7. Told(s, out', queue'[s])
    BY <2>5 DEF Told
  <2>8. \A r \in Sources : r # s =>
          /\ Told(r, out', queue'[r]) => metrics'[r].failures + metrics'[r].cancelled = 1
          /\ ~request.strict /\ ~At("dropped") /\ metrics'[r].failures + metrics'[r].cancelled > 0
               => Told(r, out', queue'[r])
    BY <1>1, <2>3, <2>4 DEF ToldOK
  <2>9. ~At("dropped")' => ~At("dropped")
    BY <1>1
  <2> QED
    BY <1>1, <1>2, <2>3, <2>6, <2>7, <2>8, <2>9 DEF ToldOK
<1>6. CASE BeginCall(s) \/ AwaitUpstream(s) \/ BeginFinal(s) \/ Succeed(s) \/ Finish(s)
             \/ SkipWorker(s) \/ UpstreamAnswers(s)
  <2>1. UNCHANGED queue
    BY <1>6 DEF BeginCall, AwaitUpstream, BeginFinal, Succeed, Finish, SkipWorker,
                UpstreamAnswers
  <2>2. \/ UNCHANGED metrics
        \/ metrics' = [metrics EXCEPT ![s].requests = @ + 1]
        \/ metrics' = [metrics EXCEPT ![s].successes = @ + 1]
    BY <1>6 DEF BeginCall, AwaitUpstream, BeginFinal, Succeed, Finish, SkipWorker,
                UpstreamAnswers
  <2>3. \A r \in Sources : /\ metrics'[r].failures = metrics[r].failures
                           /\ metrics'[r].cancelled = metrics[r].cancelled
    <3>1. \A r \in Sources : r # s => metrics'[r] = metrics[r]
      BY <1>3, <2>2
    <3>2. \/ metrics'[s] = metrics[s]
          \/ metrics'[s] = [metrics[s] EXCEPT !.requests = @ + 1]
          \/ metrics'[s] = [metrics[s] EXCEPT !.successes = @ + 1]
      BY <1>3, <2>2
    <3>3. \A m \in MeterRow :
            /\ [m EXCEPT !.requests = @ + 1].failures = m.failures
            /\ [m EXCEPT !.requests = @ + 1].cancelled = m.cancelled
            /\ [m EXCEPT !.successes = @ + 1].failures = m.failures
            /\ [m EXCEPT !.successes = @ + 1].cancelled = m.cancelled
      BY DEF MeterRow
    <3>4. metrics[s] \in MeterRow
      BY <1>3
    <3>5. metrics'[s].failures = metrics[s].failures /\ metrics'[s].cancelled = metrics[s].cancelled
      BY <3>2, <3>3, <3>4
    <3> QED
      BY <3>1, <3>5
  <2> QED
    BY <1>1, <1>2, <2>1, <2>3, SameTold
<1> QED
  BY <1>4, <1>5, <1>6 DEF WorkerStep

\* Every step keeps it.
LEMMA StepKeepsTold ==
  ASSUME EngineInv, SentOK, ToldOK, [EngineNext]_engineVars
  PROVE  ToldOK'
<1>1. CASE UNCHANGED engineVars \/ PollNext \/ DrainDry \/ Decide \/ WorkersPolled
             \/ \E s \in Sources : DrainClosed(s)
  <2>1. UNCHANGED <<request, initial, queue, metrics, out>>
    BY <1>1 DEF engineVars, PollNext, DrainDry, Decide, WorkersPolled, DrainClosed,
                workerUnchanged
  <2>2. At("dropped") => At("dropped")'
    BY <1>1 DEF engineVars, PollNext, DrainDry, Decide, WorkersPolled, DrainClosed, Receiving,
                Draining, At
  <2>3. \A i \in 1..Len(initial') :
          initial'[i].type = "failed" /\ initial'[i].source \notin Sources
    BY <2>1 DEF ToldOK
  <2> QED
    BY <2>1, <2>2, <2>3, SameTold
<1>2. ASSUME NEW s \in Sources,
             DrainRecord(s) \/ DrainFailure(s) \/ WorkerStep(s) \/ UpstreamAnswers(s)
      PROVE  ToldOK'
  BY <1>2, RecordKeepsTold, FailureKeepsTold, WorkerKeepsTold
<1>3. CASE DrainInitial
  BY <1>3, InitialKeepsTold
<1>4. CASE Drop
  <2>1. /\ DropRunning /\ metrics' = CancelGuards(metrics) /\ driver'.pc = "dropped"
        /\ UNCHANGED <<request, initial, out>>
    BY <1>4, DriverFacts DEF Drop, Goto, EngineInv
  <2>2. \A i \in 1..Len(initial') :
          initial'[i].type = "failed" /\ initial'[i].source \notin Sources
    BY <2>1 DEF ToldOK
  <2> QED
    BY <2>1, <2>2, StopKeepsTold DEF At, Told
<1> QED
  BY <1>1, <1>2, <1>3, <1>4 DEF EngineNext, PollStep, DriverStep

\* At first nothing is told.
LEMMA ToldBegins ==
  ASSUME EngineInit
  PROVE  ToldOK
<1>1. /\ out = <<>> /\ initial = Diagnostics /\ ToSet(<<>>) = {}
      /\ request.missing \in MissingIds /\ MissingIds \subseteq Seq(STRING)
  BY EngineAssumption DEF EngineInit, ToSet
<1>2. \A s \in Sources :
        queue[s] = <<>> /\ metrics[s].failures = 0 /\ metrics[s].cancelled = 0
  BY DEF EngineInit, NoMetrics
<1>3. Len(request.missing) \in Nat
  BY <1>1, Elements
<1>4. /\ Len(initial) = Len(request.missing)
      /\ \A i \in 1..Len(initial) : initial[i] = Failed(request.missing[i])
  BY <1>1, <1>3 DEF Diagnostics
<1>5. \A i \in 1..Len(request.missing) : request.missing[i] \notin Sources
  BY <1>1, EngineAssumption
<1>6. \A x : Failed(x).type = "failed" /\ Failed(x).source = x
  BY DEF Failed
<1>7. \A i \in 1..Len(initial) : initial[i].type = "failed" /\ initial[i].source \notin Sources
  BY <1>4, <1>5, <1>6
<1> QED
  BY <1>1, <1>2, <1>7 DEF ToldOK, Told

\* When a stream has ended, a failure in the metrics of a source is one the consumer
\* was told of, and the other way round; a strict search may count calls it cancelled
\* itself.
THEOREM FailuresAreReported == EngineSpec => []FailuresReported
<1>1. EngineInit => SentOK /\ ToldOK
  BY SentBegins, ToldBegins
<1>2. EngineInv /\ SentOK /\ ToldOK /\ [EngineNext]_engineVars => SentOK' /\ ToldOK'
  BY StepKeepsSent, StepKeepsTold
<1>3. EngineInv /\ ToldOK => FailuresReported
  <2> SUFFICES ASSUME EngineInv, ToldOK, At("ended"), NEW s \in Sources
               PROVE  /\ Failed(s) \in ToSet(out) => metrics[s].failures + metrics[s].cancelled = 1
                      /\ ~request.strict /\ metrics[s].failures + metrics[s].cancelled > 0 =>
                           Failed(s) \in ToSet(out)
    BY DEF FailuresReported
  <2>1. ToSet(queue[s]) = {} /\ ~At("dropped")
    <3>1. running = <<>> /\ ToSet(<<>>) = {}
      BY DEF EngineInv, PlanOK, ToSet
    <3> QED
      BY <3>1 DEF EngineInv, ChannelOK, At
  <2> QED
    BY <2>1 DEF ToldOK, Told
<1> QED
  BY <1>1, <1>2, <1>3, EngineKeepsInv, PTL DEF EngineSpec

-----------------------------------------------------------------------------
(* The exit code *)

\* A list has at most as many elements as places.
LEMMA ElementsCount ==
  ASSUME NEW S, NEW q \in Seq(S)
  PROVE  /\ IsFiniteSet(ToSet(q)) /\ Cardinality(ToSet(q)) \in Nat
         /\ Cardinality(ToSet(q)) <= Len(q)
<1>1. Len(q) \in Nat /\ DOMAIN q = 1..Len(q) /\ ToSet(q) = {q[i] : i \in 1..Len(q)}
  BY Elements
<1>2. q \in [1..Len(q) -> ToSet(q)] /\ \A x \in ToSet(q) : \E i \in 1..Len(q) : q[i] = x
  BY <1>1
<1>3. q \in Surjection(1..Len(q), ToSet(q))
  BY <1>2 DEF Surjection
<1>4. IsFiniteSet(1..Len(q)) /\ Cardinality(1..Len(q)) = IF 1 > Len(q) THEN 0 ELSE Len(q) - 1 + 1
  BY <1>1, FS_Interval
<1>5. Cardinality(1..Len(q)) = Len(q)
  BY <1>1, <1>4
<1>6. IsFiniteSet(ToSet(q)) /\ Cardinality(ToSet(q)) <= Cardinality(1..Len(q))
  BY <1>3, <1>4, FS_Surjection
<1>7. Cardinality(ToSet(q)) \in Nat
  BY <1>6, FS_CardinalityType
<1> QED
  BY <1>5, <1>6, <1>7

\* No more sources fail than were selected.
LEMMA FailedAreSelected ==
  ASSUME EngineInv, HeardOK
  PROVE  /\ Cardinality(SourcesFailed) \in Nat /\ ExpectedSources \in Nat
         /\ Cardinality(SourcesFailed) <= ExpectedSources
<1> DEFINE A == ToSet(Order)
           B == ToSet(request.missing)
<1>1. Order \in Seq(Sources) /\ request.missing \in Seq(STRING)
  BY EngineAssumption DEF EngineInv, EngineTypes
<1>2. IsFiniteSet(A) /\ Cardinality(A) \in Nat /\ Cardinality(A) <= Len(Order) /\ Len(Order) \in Nat
  BY <1>1, ElementsCount
<1>3. /\ IsFiniteSet(B) /\ Cardinality(B) \in Nat /\ Cardinality(B) <= Len(request.missing)
      /\ Len(request.missing) \in Nat
  BY <1>1, ElementsCount
<1>4. SourcesFailed \in SUBSET (A \cup B)
  BY DEF SourcesFailed, HeardOK, Selected
<1> HIDE DEF A, B
<1>5. /\ IsFiniteSet(A \cup B)
      /\ Cardinality(A \cup B) = Cardinality(A) + Cardinality(B) - Cardinality(A \cap B)
  BY <1>2, <1>3, FS_Union
<1>6. Cardinality(A \cap B) \in Nat /\ Cardinality(A \cup B) \in Nat
  <2>1. A \cap B \in SUBSET A
    OBVIOUS
  <2>2. IsFiniteSet(A \cap B)
    BY <1>2, <2>1, FS_Subset
  <2> QED
    BY <1>5, <2>2, FS_CardinalityType
<1>7. IsFiniteSet(SourcesFailed) /\ Cardinality(SourcesFailed) <= Cardinality(A \cup B)
  BY <1>4, <1>5, FS_Subset
<1>8. Cardinality(SourcesFailed) \in Nat
  BY <1>7, FS_CardinalityType
<1>9. ExpectedSources = Len(Order) + Len(request.missing)
  BY DEF ExpectedSources
<1> QED
  BY <1>2, <1>3, <1>5, <1>6, <1>7, <1>8, <1>9

\* Sources that start are sources of the plan.
LEMMA StartKeepsPlan ==
  ASSUME EngineInv, HeardOK, NEW list \in Seq(Sources), Len(list) <= MaxActive,
         StartReadySources(list), ToSet(list) \subseteq ToSet(running)
  PROVE  ToSet(pending') \subseteq ToSet(Order) /\ ToSet(running') \subseteq ToSet(Order)
<1>1. PICK k \in 0..Len(pending) :
           /\ running' \in Seq(Sources) /\ pending' \in Seq(Sources)
           /\ Len(running') = Len(list) + k /\ Len(running') <= MaxActive
           /\ \A i \in 1..Len(list) : running'[i] = list[i]
           /\ \A i \in 1..k : running'[i + Len(list)] = pending[i]
           /\ Len(pending') = Len(pending) - k
           /\ \A i \in 1..Len(pending') : pending'[i] = pending[i + k]
           /\ list = <<>> /\ pending # <<>> => k > 0
           /\ worker' \in [Sources -> WorkerRow]
           /\ \A i \in 1..k : worker'[pending[i]] = NewWorker("new")
           /\ \A s \in Sources : (\A i \in 1..k : s # pending[i]) => worker'[s] = worker[s]
  BY StartFacts DEF EngineInv
<1>2. /\ Len(pending) \in Nat /\ Len(list) \in Nat
      /\ \A i \in 1..Len(pending) : pending[i] \in ToSet(Order)
      /\ \A i \in 1..Len(list) : list[i] \in ToSet(Order)
  BY Elements DEF EngineInv, EngineTypes, HeardOK
<1>3. /\ ToSet(pending') = {pending'[i] : i \in 1..Len(pending')}
      /\ ToSet(running') = {running'[i] : i \in 1..Len(running')}
  BY <1>1, Elements
<1>4. \A i \in 1..Len(pending') : pending'[i] \in ToSet(Order)
  <2>1. \A i \in 1..Len(pending') : i + k \in 1..Len(pending)
    BY <1>1, <1>2
  <2> QED
    BY <1>1, <1>2, <2>1
<1>5. \A i \in 1..Len(running') : running'[i] \in ToSet(Order)
  <2> SUFFICES ASSUME NEW i \in 1..Len(running')
               PROVE  running'[i] \in ToSet(Order)
    OBVIOUS
  <2>1. CASE i <= Len(list)
    <3>1. i \in 1..Len(list)
      BY <1>1, <1>2, <2>1
    <3> QED
      BY <1>1, <1>2, <3>1
  <2>2. CASE ~(i <= Len(list))
    <3> DEFINE j == i - Len(list)
    <3>1. j \in 1..k /\ j \in 1..Len(pending) /\ i = j + Len(list)
      BY <1>1, <1>2, <2>2
    <3> HIDE DEF j
    <3> QED
      BY <1>1, <1>2, <3>1
  <2> QED
    BY <2>1, <2>2
<1> QED
  BY <1>3, <1>4, <1>5

\* What a step delivers: nothing, or one event, and a failure of a selected source.
LEMMA Delivers ==
  ASSUME EngineInv, SentOK, HeardOK, [EngineNext]_engineVars
  PROVE  /\ UNCHANGED request
         /\ \/ out' = out
            \/ \E e \in Event : out' = Append(out, e) /\ (e.type = "failed" => e.source \in Selected)
<1>1. CASE UNCHANGED engineVars \/ PollNext \/ DrainDry \/ Decide \/ WorkersPolled \/ Drop
             \/ \E s \in Sources : DrainClosed(s) \/ WorkerStep(s) \/ UpstreamAnswers(s)
  BY <1>1 DEF engineVars, PollNext, DrainDry, Decide, WorkersPolled, Drop, DrainClosed,
              WorkerStep, BeginCall, AwaitUpstream, EmitRecord, BeginFinal, Succeed, Fail,
              Finish, SkipWorker, UpstreamAnswers, workerUnchanged
<1>2. CASE DrainInitial
  <2>1. /\ initial # <<>> /\ initial \in Seq(Event) /\ out' = Append(out, Head(initial))
        /\ UNCHANGED request
    BY <1>2 DEF DrainInitial, EngineInv, EngineTypes
  <2>2. Head(initial) \in Event /\ Head(initial) \in ToSet(initial)
    BY <2>1, TailFacts
  <2> QED
    BY <2>1, <2>2 DEF HeardOK, Selected
<1>3. ASSUME NEW s \in Sources, DrainRecord(s) \/ DrainFailure(s)
      PROVE  /\ UNCHANGED request
             /\ \/ out' = out
                \/ \E e \in Event :
                     out' = Append(out, e) /\ (e.type = "failed" => e.source \in Selected)
  <2>1. /\ queue[s] # <<>> /\ queue[s] \in Seq(Event) /\ UNCHANGED request
        /\ out' = out \/ out' = Append(out, Head(queue[s]))
    BY <1>3 DEF DrainRecord, DrainFailure, EngineInv, EngineTypes
  <2>2. /\ Head(queue[s]) \in Event /\ Head(queue[s]) = queue[s][1]
        /\ Len(queue[s]) \in Nat \ {0}
    BY <2>1, TailFacts
  <2>3. Head(queue[s]).source = s
    <3>1. 1 \in 1..Len(queue[s])
      BY <2>2
    <3> QED
      BY <2>2, <3>1, SentFacts DEF FlowRow
  <2>4. s \in ToSet(Order)
    BY <2>1 DEF EngineInv, ChannelOK, HeardOK
  <2> QED
    BY <2>1, <2>2, <2>3, <2>4 DEF Selected
<1> QED
  BY <1>1, <1>2, <1>3 DEF EngineNext, PollStep, DriverStep

\* Every step keeps the plan and what was heard.
LEMMA StepKeepsHeard ==
  ASSUME EngineInv, SentOK, HeardOK, [EngineNext]_engineVars
  PROVE  HeardOK'
<1>1. UNCHANGED request /\ Selected' = Selected
  BY Delivers DEF Selected
<1>2. \A e \in ToSet(out') : e.type = "failed" => e.source \in Selected
  <2>1. out \in Seq(Event)
    BY DEF EngineInv, EngineTypes
  <2>2. CASE out' = out
    BY <2>2 DEF HeardOK
  <2>3. ASSUME NEW e \in Event, out' = Append(out, e), e.type = "failed" => e.source \in Selected
        PROVE  \A f \in ToSet(out') : f.type = "failed" => f.source \in Selected
    <3>1. ToSet(Append(out, e)) = ToSet(out) \cup {e}
      BY <2>1, AppendFacts
    <3> QED
      BY <2>3, <3>1 DEF HeardOK
  <2> QED
    BY <2>2, <2>3, Delivers
<1>3. \A e \in ToSet(initial') : e.source \in ToSet(request.missing)
  <2>1. initial' = initial \/ (initial # <<>> /\ initial' = Tail(initial))
    BY DEF EngineNext, PollStep, DriverStep, engineVars, PollNext, DrainInitial, DrainRecord,
           DrainFailure, DrainDry, Decide, WorkersPolled, Drop, DrainClosed, WorkerStep,
           BeginCall, AwaitUpstream, EmitRecord, BeginFinal, Succeed, Fail, Finish, SkipWorker,
           UpstreamAnswers, workerUnchanged
  <2>2. initial # <<>> => ToSet(initial) = ToSet(Tail(initial)) \cup {Head(initial)}
    BY TailFacts DEF EngineInv, EngineTypes
  <2> QED
    BY <2>1, <2>2 DEF HeardOK
<1>4. ToSet(pending') \subseteq ToSet(Order) /\ ToSet(running') \subseteq ToSet(Order)
  <2>1. CASE UNCHANGED <<pending, running>>
    BY <2>1 DEF HeardOK
  <2>2. CASE pending' \in {pending, <<>>} /\ running' = <<>>
    <3>1. ToSet(<<>>) = {}
      BY DEF ToSet
    <3> QED
      BY <2>2, <3>1 DEF HeardOK
  <2>3. CASE DrainDry
    <3>1. /\ StartReadySources(running) /\ running \in Seq(Sources) /\ Len(running) <= MaxActive
      BY <2>3 DEF DrainDry, EngineInv, EngineTypes, PlanOK
    <3> QED
      BY <3>1, StartKeepsPlan
  <2>4. ASSUME NEW s \in Sources, DrainClosed(s)
        PROVE  ToSet(pending') \subseteq ToSet(Order) /\ ToSet(running') \subseteq ToSet(Order)
    <3> DEFINE at == Normalize(driver.cursor, running)
               rest == RemoveAt(running, at)
    <3>1. Receiving(s) /\ StartReadySources(rest)
      BY <2>4 DEF DrainClosed
    <3>2. rest \in Seq(Sources) /\ Len(rest) <= MaxActive /\ ToSet(rest) \subseteq ToSet(running)
      BY <3>1, LeaverFacts
    <3> HIDE DEF rest
    <3> QED
      BY <3>1, <3>2, StartKeepsPlan
  <2>5. CASE UNCHANGED engineVars \/ PollNext \/ Decide \/ WorkersPolled
               \/ \E s \in Sources : DrainRecord(s) \/ WorkerStep(s) \/ UpstreamAnswers(s)
    <3>1. UNCHANGED <<pending, running>>
      BY <2>5 DEF engineVars, PollNext, Decide, WorkersPolled, DrainRecord,
              WorkerStep, BeginCall, AwaitUpstream, EmitRecord, BeginFinal, Succeed, Fail,
              Finish, SkipWorker, UpstreamAnswers, workerUnchanged
    <3> QED
      BY <2>1, <3>1
  <2>6. CASE DrainInitial \/ Drop \/ \E s \in Sources : DrainFailure(s)
    <3>1. \/ UNCHANGED <<pending, running>>
          \/ pending' \in {pending, <<>>} /\ running' = <<>>
      BY <2>6 DEF DrainInitial, DrainFailure, Drop, Stop, DropRunning
    <3> QED
      BY <2>1, <2>2, <3>1
  <2> QED
    BY <2>3, <2>4, <2>5, <2>6 DEF EngineNext, PollStep, DriverStep
<1> QED
  BY <1>1, <1>2, <1>3, <1>4 DEF HeardOK

\* At first the plan is the order of the sources, and nothing was heard.
LEMMA HeardBegins ==
  ASSUME EngineInit
  PROVE  HeardOK
<1>1. /\ pending = Order /\ running = <<>> /\ out = <<>> /\ initial = Diagnostics
      /\ request.missing \in Seq(STRING)
  BY EngineAssumption DEF EngineInit
<1>2. ToSet(<<>>) = {}
  BY DEF ToSet
<1>3. /\ Len(request.missing) \in Nat
      /\ \A i \in 1..Len(request.missing) : request.missing[i] \in ToSet(request.missing)
  BY <1>1, Elements
<1>4. \A x : Failed(x).source = x
  BY DEF Failed
<1>5. DOMAIN initial = 1..Len(request.missing)
      /\ \A i \in 1..Len(request.missing) : initial[i] = Failed(request.missing[i])
  BY <1>1 DEF Diagnostics
<1>6. \A e \in ToSet(initial) : e.source \in ToSet(request.missing)
  BY <1>3, <1>4, <1>5 DEF ToSet
<1> QED
  BY <1>1, <1>2, <1>6 DEF HeardOK

\* The command takes one event into its state.
LEMMA TakeKeepsCode ==
  ASSUME StreamInv, CodeOK, TakeEvent
  PROVE  CodeOK'
<1> DEFINE n == state.printed
           e == out[n + 1]
<1>1. /\ n \in Nat /\ Len(out) = n + 1 /\ exit = RUNNING /\ out \in Seq(Event) /\ state \in StateRow
  BY DEF StreamInv, TakeEvent, CodeOK, EngineInv, EngineTypes
<1>2. e \in Event
  BY <1>1
<1>3. out' = out /\ request' = request
  BY DEF TakeEvent, Drop, engineVars
<1>4. state' = Observe(e)
  BY DEF TakeEvent
<1>5. e.source \in Sources \cup STRING /\ e.type \in {"record", "failed"}
  BY <1>2 DEF Event
<1> HIDE DEF e
<1>6. /\ state'.saw_record = (state.saw_record \/ e.type = "record")
      /\ state'.failed_sources
           = IF e.type = "failed" THEN state.failed_sources \cup {e.source}
             ELSE state.failed_sources
      /\ state'.printed = n + 1
      /\ state' \in StateRow
  <2>1. state' = [state EXCEPT
                    !.saw_record = @ \/ e.type = "record",
                    !.failed_sources = IF e.type = "failed" THEN @ \cup {e.source} ELSE @,
                    !.printed = @ + 1]
    BY <1>4 DEF Observe
  <2> DEFINE b == state.saw_record \/ e.type = "record"
             f == IF e.type = "failed" THEN state.failed_sources \cup {e.source}
                  ELSE state.failed_sources
  <2>2. state' = [state EXCEPT !.saw_record = b, !.failed_sources = f, !.printed = n + 1]
    BY <2>1
  <2>3. b \in BOOLEAN /\ f \in SUBSET (Sources \cup STRING) /\ n + 1 \in Nat
    <3>1. state.failed_sources \in SUBSET (Sources \cup STRING)
      BY <1>1 DEF StateRow
    <3> QED
      BY <1>1, <1>5, <3>1
  <2> HIDE DEF b, f, n
  <2>4. state'.saw_record = b /\ state'.failed_sources = f /\ state'.printed = n + 1
        /\ state' \in StateRow
    BY <1>1, <2>2, <2>3 DEF StateRow
  <2> QED
    BY <2>4 DEF b, f
<1>7. 1..(n + 1) = 1..n \cup {n + 1} /\ out[n + 1] = e
  BY <1>1 DEF e
<1> HIDE DEF n
<1>8. state'.saw_record <=> \E i \in 1..state'.printed : out'[i].type = "record"
  <2>1. state.saw_record <=> \E i \in 1..n : out[i].type = "record"
    BY DEF CodeOK, n
  <2>2. (\E i \in 1..(n + 1) : out[i].type = "record") <=> state.saw_record \/ e.type = "record"
    BY <1>7, <2>1
  <2> QED
    BY <1>3, <1>6, <2>2
<1>9. \A x : x \in state'.failed_sources <=>
          \E i \in 1..state'.printed : out'[i].type = "failed" /\ out'[i].source = x
  <2>1. \A x : x \in state.failed_sources <=>
            \E i \in 1..n : out[i].type = "failed" /\ out[i].source = x
    BY DEF CodeOK, n
  <2>2. \A x : (\E i \in 1..(n + 1) : out[i].type = "failed" /\ out[i].source = x)
              <=> x \in state.failed_sources \/ (e.type = "failed" /\ e.source = x)
    BY <1>7, <2>1
  <2> QED
    BY <1>3, <1>6, <2>2
<1>10. ASSUME ~request.strict
       PROVE  exit' \in {RUNNING, 0, 1} /\ (Terminal(state)' <=> exit' = 1)
  <2>1. Terminal(state)' <=> Terminal(state')
    BY <1>3 DEF Terminal, ExpectedSources
  <2>2. IF Terminal(state') THEN exit' = 1 ELSE exit' = RUNNING
    BY <1>1, <1>4, <1>10 DEF TakeEvent, FailureExit, e, n
  <2> QED
    BY <2>1, <2>2 DEF RUNNING
<1> QED
  BY <1>3, <1>6, <1>8, <1>9, <1>10 DEF CodeOK

\* Every step of the command keeps it.
LEMMA StreamKeepsCode ==
  ASSUME StreamInv, SentOK, HeardOK, CodeOK, [StreamNext]_streamVars
  PROVE  SentOK' /\ HeardOK' /\ CodeOK'
<1>1. EngineInv /\ state.printed \in Nat /\ state.printed <= Len(out) /\ out \in Seq(Event)
  BY DEF StreamInv, Waiting, EngineInv, EngineTypes
<1>2. [EngineNext]_engineVars
  BY DEF StreamNext, EngineRuns, TakeEvent, EndOfStream, EngineNext, streamVars
<1>3. SentOK' /\ HeardOK'
  BY <1>1, <1>2, StepKeepsSent, StepKeepsHeard
<1>4. CASE TakeEvent
  BY <1>3, <1>4, TakeKeepsCode
<1>5. CASE EngineRuns \/ EndOfStream \/ UNCHANGED streamVars
  <2>1. /\ UNCHANGED request
        /\ out' = out \/ \E e \in Event : out' = Append(out, e)
    BY <1>1, <1>2, Delivers
  <2>2. \A i \in 1..state.printed : out'[i] = out[i]
    <3>1. \A e \in Event : \A i \in 1..Len(out) : Append(out, e)[i] = out[i]
      BY <1>1, AppendFacts
    <3>2. \A i \in 1..state.printed : i \in 1..Len(out)
      BY <1>1
    <3> QED
      BY <2>1, <3>1, <3>2
  <2>3. UNCHANGED state /\ (exit' = exit \/ (exit = RUNNING /\ exit' = 0))
    BY <1>5 DEF EngineRuns, EndOfStream, streamVars
  <2>4. Terminal(state)' <=> Terminal(state)
    BY <2>1, <2>3 DEF Terminal, ExpectedSources
  <2>5. ~request.strict => exit' \in {RUNNING, 0, 1} /\ (Terminal(state) <=> exit' = 1)
    BY <2>3 DEF CodeOK, RUNNING
  <2> QED
    <3>1. state' \in StateRow
      BY <2>3 DEF CodeOK
    <3>2. state'.saw_record <=> \E i \in 1..state'.printed : out'[i].type = "record"
      BY <2>2, <2>3 DEF CodeOK
    <3>3. \A x : x \in state'.failed_sources <=>
              \E i \in 1..state'.printed : out'[i].type = "failed" /\ out'[i].source = x
      BY <2>2, <2>3 DEF CodeOK
    <3>4. CodeOK'
      BY <2>1, <2>4, <2>5, <3>1, <3>2, <3>3 DEF CodeOK
    <3> QED
      BY <1>3, <3>4
<1> QED
  BY <1>3, <1>4, <1>5 DEF StreamNext

\* Before the first event no failure is total.
LEMMA CodeBegins ==
  ASSUME StreamInit
  PROVE  CodeOK
<1>1. state = [saw_record |-> FALSE, failed_sources |-> {}, printed |-> 0] /\ exit = RUNNING
  BY DEF StreamInit
<1>2. /\ state \in StateRow /\ ~state.saw_record /\ state.failed_sources = {}
      /\ state.printed = 0
  BY <1>1 DEF StateRow
<1>3. 1..0 = {} /\ Cardinality({}) = 0
  BY FS_EmptySet
<1>4. ExpectedSources \in Nat
  <2>1. Order \in Seq(Sources) /\ request.missing \in Seq(STRING)
    BY EngineAssumption DEF StreamInit, EngineInit
  <2> QED
    BY <2>1 DEF ExpectedSources
<1>5. ~request.strict => ~Terminal(state)
  BY <1>2, <1>3, <1>4 DEF Terminal
<1> QED
  BY <1>1, <1>2, <1>3, <1>5 DEF CodeOK, RUNNING

\* Without --strict the command exits 1 exactly when every selected source failed and
\* nothing was found, however failures and records interleave: it stops at the first
\* moment at which this is so, and no later event could have changed it.
THEOREM ExitCodeIsRight == StreamSpec => []TotalFailureExit
<1>1. StreamInit => SentOK /\ HeardOK /\ CodeOK
  BY SentBegins, HeardBegins, CodeBegins DEF StreamInit
<1>2. StreamInv /\ SentOK /\ HeardOK /\ CodeOK /\ [StreamNext]_streamVars
        => SentOK' /\ HeardOK' /\ CodeOK'
  BY StreamKeepsCode
<1>3. StreamInv /\ HeardOK /\ CodeOK => TotalFailureExit
  <2> SUFFICES ASSUME StreamInv, HeardOK, CodeOK, exit # RUNNING, ~request.strict
               PROVE  exit = IF /\ Cardinality(SourcesFailed) = ExpectedSources
                                /\ ExpectedSources > 0
                                /\ RecordsPrinted = {}
                             THEN 1 ELSE 0
    BY DEF TotalFailureExit
  <2>1. state.printed = Len(out) /\ out \in Seq(Event) /\ EngineInv
    BY DEF StreamInv, Waiting, EngineInv, EngineTypes
  <2>2. ToSet(out) = {out[i] : i \in 1..state.printed}
    BY <2>1, Elements
  <2>3. state.failed_sources = SourcesFailed
    <3>1. \A x : x \in SourcesFailed <=>
              \E i \in 1..state.printed : out[i].type = "failed" /\ out[i].source = x
      BY <2>2 DEF SourcesFailed
    <3>2. \A x : x \in state.failed_sources <=> x \in SourcesFailed
      BY <3>1 DEF CodeOK
    <3> QED
      BY <3>2
  <2>4. state.saw_record <=> RecordsPrinted # {}
    BY <2>2 DEF RecordsPrinted, CodeOK
  <2>5. /\ Cardinality(SourcesFailed) \in Nat /\ ExpectedSources \in Nat
        /\ Cardinality(SourcesFailed) <= ExpectedSources
    BY <2>1, FailedAreSelected
  <2>6. exit \in {0, 1} /\ (Terminal(state) <=> exit = 1)
    BY DEF CodeOK
  <2>7. Terminal(state) <=>
          /\ RecordsPrinted = {} /\ ExpectedSources > 0
          /\ Cardinality(SourcesFailed) = ExpectedSources
    BY <2>3, <2>4, <2>5 DEF Terminal
  <2> QED
    BY <2>6, <2>7
<1>4. StreamInit => StreamInv
  BY StreamBegins
<1>5. StreamInv /\ [StreamNext]_streamVars => StreamInv'
  BY StreamSteps
<1> QED
  BY <1>1, <1>2, <1>3, <1>4, <1>5, PTL DEF StreamSpec

=============================================================================
