---------------------------- MODULE Cloud_proofs ----------------------------
(***************************************************************************)
(* Proofs about the managed worker: for every number of cron invocations   *)
(* and queue consumers, any messages repeated, dropped or out of date, any *)
(* lost answer of the store and any invocation that ends half way.  The    *)
(* last section is about D1, the worker's store.                           *)
(***************************************************************************)
EXTENDS CloudScheduler, D1Store, WatchStore_proofs, FiniteSetTheorems

-----------------------------------------------------------------------------
(* What an invocation holds at each point *)

PcSet ==
  {"idle", "claim", "enqueue", "start", "load", "search", "complete",
   "deliver", "claimDelivery", "send", "settle"}

\* A consumer at work on the watch of its message.
Consuming == {"start", "load", "search", "complete"}

\* An invocation that knows a watch and the owner it was claimed under.
Working == Consuming \cup {"enqueue"}

ActorRow ==
  [pc : PcSet, now : Times, config : Configs \cup {NULL}, count : Nat,
   watch : WatchIds \cup {NULL}, owner : Owners \cup {NULL},
   seen : SUBSET RecordIds, ok : BOOLEAN, dwatch : WatchIds \cup {NULL},
   drun : RunIds \cup {NULL}, token : Owners \cup {NULL}]

\* Invocation q at time t, when the owners in u have been drawn.
ActorOK(q, t, u) ==
  /\ q.now <= t
  /\ q.pc # "idle" => q.config \in Configs
  /\ q.pc \in Working => q.watch \in WatchIds /\ q.owner \in u
  /\ q.pc \in {"send", "settle"} =>
       q.dwatch \in WatchIds /\ q.drun \in RunIds /\ q.token \in Owners

ActorsOK ==
  /\ clock \in Times
  /\ used \subseteq Owners
  /\ queue \subseteq [watch : WatchIds, owner : used]
  /\ actor \in [Actors -> ActorRow]
  /\ \A a \in Actors : ActorOK(actor[a], clock, used)

\* Invocation a alone has changed, to r.
Becomes(a, r) ==
  /\ r \in ActorRow
  /\ actor' \in [Actors -> ActorRow]
  /\ actor'[a] = r
  /\ \A b \in Actors : b # a => actor'[b] = actor[b]

\* A time is a number, and so is every instant up to the bound.
LEMMA TimesFacts ==
  /\ 0 \in Times
  /\ \A t \in Times : t \in Nat
  /\ \A t \in Nat, s \in Times : t <= s => t \in Times
BY CloudAssumption

\* An invocation that has not begun holds nothing.
LEMMA IdleFacts == Idle \in ActorRow /\ Idle.pc = "idle" /\ Idle.now = 0
BY TimesFacts DEF Idle, ActorRow, PcSet

\* Replacing one row.
LEMMA RowBecomes ==
  ASSUME ActorsOK, NEW a \in Actors, NEW r \in ActorRow, actor' = [actor EXCEPT ![a] = r]
  PROVE  Becomes(a, r)
BY DEF ActorsOK, Becomes

\* An invocation ends, whatever the reason.
LEMMA EndFacts ==
  ASSUME ActorsOK, NEW a \in Actors, End(a)
  PROVE  Becomes(a, Idle)
BY IdleFacts, RowBecomes DEF End

\* An invocation goes on to its next call with what it has.
LEMMA GotoFacts ==
  ASSUME ActorsOK, NEW a \in Actors, NEW pc \in PcSet, Goto(a, pc)
  PROVE  \E r : /\ Becomes(a, r) /\ r.pc = pc /\ r.now = actor[a].now
                /\ r.config = actor[a].config /\ r.watch = actor[a].watch
                /\ r.owner = actor[a].owner
<1> DEFINE r == [actor[a] EXCEPT !.pc = pc]
<1>1. /\ r \in ActorRow /\ r.pc = pc /\ r.now = actor[a].now
      /\ r.config = actor[a].config /\ r.watch = actor[a].watch
      /\ r.owner = actor[a].owner
  BY DEF ActorsOK, ActorRow
<1>2. actor' = [actor EXCEPT ![a] = r]
  BY DEF Goto
<1> HIDE DEF r
<1> QED
  BY <1>1, <1>2, RowBecomes

\* What an invocation passes to the store is what the contract quantifies over.
LEMMA CallArguments ==
  ASSUME ActorsOK, NEW a \in Actors
  PROVE  /\ actor[a].now \in Times /\ actor[a].now <= clock
         /\ actor[a].seen \in SUBSET RecordIds /\ actor[a].ok \in BOOLEAN
         /\ ~At(a, "idle") => actor[a].config \in Configs
         /\ actor[a].pc \in Working =>
              /\ actor[a].watch \in WatchIds /\ actor[a].owner \in used
              /\ actor[a].owner \in Owners /\ actor[a].owner \in RunIds
         /\ actor[a].pc \in {"send", "settle"} =>
              /\ actor[a].dwatch \in WatchIds /\ actor[a].drun \in RunIds
              /\ actor[a].token \in Owners
<1>1. actor[a] \in ActorRow /\ ActorOK(actor[a], clock, used)
  BY DEF ActorsOK
<1>2. actor[a].now \in Times /\ actor[a].seen \in SUBSET RecordIds /\ actor[a].ok \in BOOLEAN
  BY <1>1 DEF ActorRow
<1>3. \A o \in used : o \in Owners /\ o \in RunIds
  BY CloudAssumption DEF ActorsOK
<1> QED
  BY <1>1, <1>2, <1>3 DEF ActorOK, At

\* What the steps do to the invocation that takes them.
LEMMA CronStartsFacts ==
  ASSUME ActorsOK, NEW k \in Actors, CronStarts(k)
  PROVE  \E r : Becomes(k, r) /\ r.pc = "claim" /\ r.now = clock /\ r.config \in Configs
<1>1. PICK c \in Configs :
        actor' = [actor EXCEPT ![k].pc = "claim", ![k].now = clock, ![k].config = c]
  BY DEF CronStarts
<1> DEFINE r == [actor[k] EXCEPT !.pc = "claim", !.now = clock, !.config = c]
<1>2. r \in ActorRow /\ r.pc = "claim" /\ r.now = clock /\ r.config = c
  BY DEF ActorsOK, ActorRow, PcSet
<1>3. actor' = [actor EXCEPT ![k] = r]
  BY <1>1
<1> HIDE DEF r
<1> QED
  BY <1>2, <1>3, RowBecomes

\* A claim leaves the invocation with the watch and the owner drawn, or ends it.
LEMMA CronClaimsFacts ==
  ASSUME TypeOK, ActorsOK, NEW k \in Actors, CronClaims(k)
  PROVE  \E x \in watches, o \in Owners \ used, r \in ActorRow :
           /\ ClaimDueWatch(x, actor[k].now, o, LeaseSeconds)
           /\ used' = used \cup {o}
           /\ Becomes(k, r)
           /\ \/ r = Idle
              \/ /\ r.pc = "enqueue" /\ r.now = actor[k].now /\ r.config = actor[k].config
                 /\ r.watch = x.id /\ r.owner = o
<1>1. PICK x \in watches, o \in Owners \ used :
           /\ ClaimDueWatch(x, actor[k].now, o, LeaseSeconds)
           /\ used' = used \cup {o}
           /\ \/ actor' = [actor EXCEPT ![k].pc = "enqueue", ![k].watch = x.id, ![k].owner = o]
              \/ End(k)
  BY DEF CronClaims
<1>2. CASE End(k)
  BY <1>1, <1>2, EndFacts, IdleFacts
<1>3. CASE actor' = [actor EXCEPT ![k].pc = "enqueue", ![k].watch = x.id, ![k].owner = o]
  <2> DEFINE r == [actor[k] EXCEPT !.pc = "enqueue", !.watch = x.id, !.owner = o]
  <2>1. x.id \in WatchIds
    BY DEF TypeOK, WatchRow
  <2>2. /\ r \in ActorRow /\ r.pc = "enqueue" /\ r.now = actor[k].now
        /\ r.config = actor[k].config /\ r.watch = x.id /\ r.owner = o
    BY <2>1 DEF ActorsOK, ActorRow, PcSet
  <2>3. actor' = [actor EXCEPT ![k] = r]
    BY <1>3
  <2> HIDE DEF r
  <2>4. Becomes(k, r)
    BY <2>2, <2>3, RowBecomes
  <2> QED
    BY <1>1, <2>2, <2>4
<1> QED
  BY <1>1, <1>2, <1>3

\* A cron that has sent its message goes on to the next claim, with its time and webhook.
LEMMA CronEnqueuesFacts ==
  ASSUME ActorsOK, NEW k \in Actors, CronEnqueues(k)
  PROVE  \E r : /\ Becomes(k, r) /\ r.pc = "claim" /\ r.now = actor[k].now
                /\ r.config = actor[k].config
<1> DEFINE n == actor[k].count + 1
           r == [actor[k] EXCEPT !.pc = "claim", !.count = n,
                                 !.watch = NULL, !.owner = NULL]
<1>0. actor[k] \in ActorRow /\ n \in Nat
  BY DEF ActorsOK, ActorRow
<1>2. actor' = [actor EXCEPT ![k] = r]
  BY DEF CronEnqueues, ActorsOK
<1> HIDE DEF n
<1>1. r \in ActorRow /\ r.pc = "claim" /\ r.now = actor[k].now /\ r.config = actor[k].config
  BY <1>0 DEF ActorRow, PcSet
<1> HIDE DEF r
<1> QED
  BY <1>1, <1>2, RowBecomes

\* A message carries a watch and an owner that was drawn for it.
LEMMA ReceiveFacts ==
  ASSUME ActorsOK, NEW c \in Actors, Receive(c)
  PROVE  \E r : /\ Becomes(c, r) /\ r.pc = "start" /\ r.now = clock /\ r.config \in Configs
                /\ r.watch \in WatchIds /\ r.owner \in used
<1>1. PICK m \in queue, h \in Configs :
        actor' = [actor EXCEPT ![c].pc = "start", ![c].now = clock, ![c].config = h,
                               ![c].watch = m.watch, ![c].owner = m.owner]
  BY DEF Receive
<1> DEFINE r == [actor[c] EXCEPT !.pc = "start", !.now = clock, !.config = h,
                                 !.watch = m.watch, !.owner = m.owner]
<1>2. m.watch \in WatchIds /\ m.owner \in used /\ m.owner \in Owners
  BY DEF ActorsOK
<1>3. /\ r \in ActorRow /\ r.pc = "start" /\ r.now = clock /\ r.config = h
      /\ r.watch = m.watch /\ r.owner = m.owner
  BY <1>2 DEF ActorsOK, ActorRow, PcSet
<1>4. actor' = [actor EXCEPT ![c] = r]
  BY <1>1
<1> HIDE DEF r
<1> QED
  BY <1>2, <1>3, <1>4, RowBecomes

\* A search takes time: the completion passes the time it ended, for the same watch and owner.
LEMMA SearchesFacts ==
  ASSUME ActorsOK, NEW c \in Actors, Searches(c)
  PROVE  \E r : /\ Becomes(c, r) /\ r.pc = "complete" /\ r.now = clock
                /\ r.config = actor[c].config /\ r.watch = actor[c].watch
                /\ r.owner = actor[c].owner
<1>1. PICK seen \in SUBSET RecordIds, ok \in BOOLEAN :
        actor' = [actor EXCEPT ![c].pc = "complete", ![c].seen = seen, ![c].ok = ok,
                               ![c].now = clock]
  BY DEF Searches
<1> DEFINE r == [actor[c] EXCEPT !.pc = "complete", !.seen = seen, !.ok = ok, !.now = clock]
<1>2. /\ r \in ActorRow /\ r.pc = "complete" /\ r.now = clock
      /\ r.config = actor[c].config /\ r.watch = actor[c].watch
      /\ r.owner = actor[c].owner
  BY DEF ActorsOK, ActorRow, PcSet
<1>3. actor' = [actor EXCEPT ![c] = r]
  BY <1>1
<1> HIDE DEF r
<1> QED
  BY <1>2, <1>3, RowBecomes

\* An invocation that turns to deliveries either has no webhook and ends or goes on to a claim.
LEMMA DeliversFacts ==
  ASSUME ActorsOK, NEW a \in Actors, Delivers(a)
  PROVE  \/ End(a)
         \/ \E r : /\ Becomes(a, r) /\ r.pc = "claimDelivery" /\ r.now \in {clock, actor[a].now}
                   /\ r.config = actor[a].config
<1> SUFFICES ASSUME ~End(a)
             PROVE  \E r : /\ Becomes(a, r) /\ r.pc = "claimDelivery"
                           /\ r.now \in {clock, actor[a].now}
                           /\ r.config = actor[a].config
  OBVIOUS
<1> DEFINE t == IF a \in Consumers THEN clock ELSE actor[a].now
           r == [actor[a] EXCEPT !.pc = "claimDelivery", !.now = t]
<1>0. actor[a] \in ActorRow /\ t \in Times /\ t \in {clock, actor[a].now}
  BY DEF ActorsOK, ActorRow
<1>1. actor' = [actor EXCEPT ![a] = r]
  BY DEF Delivers, ActorsOK, Ack
<1> HIDE DEF t
<1>2. r \in ActorRow /\ r.pc = "claimDelivery" /\ r.now = t /\ r.config = actor[a].config
  BY <1>0 DEF ActorRow, PcSet
<1> HIDE DEF r
<1> QED
  BY <1>0, <1>1, <1>2, RowBecomes

\* A claim of a delivery hands over the row that was claimed, or its answer is lost.
LEMMA ClaimsDeliveryFacts ==
  ASSUME TypeOK, ActorsOK, NEW a \in Actors, ClaimsDelivery(a)
  PROVE  \E d \in deliveries, o \in Owners \ used, r \in ActorRow :
           /\ ClaimPendingDelivery(d, actor[a].now, o, DeliveryLease)
           /\ used' = used \cup {o}
           /\ Becomes(a, r)
           /\ \/ r = Idle
              \/ /\ r.now = clock /\ r.config = actor[a].config
                 /\ r.dwatch = d.watch /\ r.drun = d.run /\ r.token = o
                 /\ \/ r.pc = "send" /\ d.attempts + 1 <= MaxAttempts
                    \/ r.pc = "settle"
<1>1. PICK d \in deliveries, o \in Owners \ used :
           /\ ClaimPendingDelivery(d, actor[a].now, o, DeliveryLease)
           /\ used' = used \cup {o}
           /\ \/ /\ actor' = [actor EXCEPT
                   ![a].pc = IF MaySend(d.attempts + 1, d.target, actor[a].config)
                             THEN "send" ELSE "settle",
                   ![a].dwatch = d.watch, ![a].drun = d.run, ![a].token = o,
                   ![a].ok = FALSE, ![a].now = clock]
                 /\ UNCHANGED queue
              \/ Faulty /\ Retry(a)
  BY Zenon DEF ClaimsDelivery
<1>2. CASE End(a)
  BY <1>1, <1>2, EndFacts, IdleFacts
<1>3. CASE ~End(a)
  <2> DEFINE pc == IF MaySend(d.attempts + 1, d.target, actor[a].config)
                   THEN "send" ELSE "settle"
             r == [actor[a] EXCEPT !.pc = pc, !.dwatch = d.watch, !.drun = d.run,
                                   !.token = o, !.ok = FALSE, !.now = clock]
  <2>1. pc \in PcSet /\ (pc = "settle" \/ (pc = "send" /\ d.attempts + 1 <= MaxAttempts))
    BY DEF PcSet, MaySend
  <2>2. d.watch \in WatchIds /\ d.run \in RunIds
    BY DEF TypeOK, DeliveryRow
  <2>3. actor' = [actor EXCEPT ![a] = r]
    BY <1>1, <1>3 DEF Retry
  <2> HIDE DEF pc
  <2>4. /\ r \in ActorRow /\ r.pc = pc /\ r.now = clock /\ r.config = actor[a].config
        /\ r.dwatch = d.watch /\ r.drun = d.run /\ r.token = o
    BY <2>1, <2>2 DEF ActorsOK, ActorRow
  <2> HIDE DEF r
  <2>5. Becomes(a, r)
    BY <2>3, <2>4, RowBecomes
  <2> QED
    BY <1>1, <2>1, <2>4, <2>5
<1> QED
  BY <1>2, <1>3

\* An attempt keeps the row and the token it was made with.
LEMMA SendsFacts ==
  ASSUME ActorsOK, NEW a \in Actors, Sends(a) \/ Oversized(a)
  PROVE  \E r : /\ Becomes(a, r) /\ r.pc = "settle" /\ r.now = clock
                /\ r.config = actor[a].config /\ r.dwatch = actor[a].dwatch
                /\ r.drun = actor[a].drun /\ r.token = actor[a].token
<1>1. \/ actor' = [actor EXCEPT ![a].pc = "settle", ![a].now = clock]
      \/ \E ok \in BOOLEAN :
           actor' = [actor EXCEPT ![a].pc = "settle", ![a].ok = ok, ![a].now = clock]
  BY DEF Sends, Oversized
<1>2. CASE actor' = [actor EXCEPT ![a].pc = "settle", ![a].now = clock]
  <2> DEFINE r == [actor[a] EXCEPT !.pc = "settle", !.now = clock]
  <2>1. /\ r \in ActorRow /\ r.pc = "settle" /\ r.now = clock
        /\ r.config = actor[a].config /\ r.dwatch = actor[a].dwatch
        /\ r.drun = actor[a].drun /\ r.token = actor[a].token
    BY DEF ActorsOK, ActorRow, PcSet
  <2>2. actor' = [actor EXCEPT ![a] = r]
    BY <1>2
  <2> HIDE DEF r
  <2> QED
    BY <2>1, <2>2, RowBecomes
<1>3. ASSUME NEW ok \in BOOLEAN,
             actor' = [actor EXCEPT ![a].pc = "settle", ![a].ok = ok, ![a].now = clock]
      PROVE  \E r : /\ Becomes(a, r) /\ r.pc = "settle" /\ r.now = clock
                    /\ r.config = actor[a].config /\ r.dwatch = actor[a].dwatch
                    /\ r.drun = actor[a].drun /\ r.token = actor[a].token
  <2> DEFINE r == [actor[a] EXCEPT !.pc = "settle", !.ok = ok, !.now = clock]
  <2>1. /\ r \in ActorRow /\ r.pc = "settle" /\ r.now = clock
        /\ r.config = actor[a].config /\ r.dwatch = actor[a].dwatch
        /\ r.drun = actor[a].drun /\ r.token = actor[a].token
    BY DEF ActorsOK, ActorRow, PcSet
  <2>2. actor' = [actor EXCEPT ![a] = r]
    BY <1>3
  <2> HIDE DEF r
  <2> QED
    BY <2>1, <2>2, RowBecomes
<1> QED
  BY <1>1, <1>2, <1>3

\* A completed run is followed by a delivery, or its answer is lost.
LEMMA CompletesFacts ==
  ASSUME ActorsOK, NEW c \in Actors, Completes(c)
  PROVE  \E r : /\ Becomes(c, r) /\ r.pc \in {"deliver", "idle"} /\ ActorOK(r, clock, used)
                /\ queue' \subseteq queue
<1>1. ActorOK(Idle, clock, used)
  BY IdleFacts, TimesFacts DEF ActorOK, Working, Consuming, ActorsOK
<1>2. CASE End(c) /\ queue' \subseteq queue
  BY <1>1, <1>2, EndFacts, IdleFacts
<1>3. CASE Goto(c, "deliver") /\ UNCHANGED queue
  <2>1. PICK r : /\ Becomes(c, r) /\ r.pc = "deliver" /\ r.now = actor[c].now
                 /\ r.config = actor[c].config
    BY <1>3, GotoFacts DEF PcSet
  <2>2. ActorOK(r, clock, used)
    BY <2>1, CallArguments DEF ActorOK, Working, Consuming, Completes, At
  <2> QED
    BY <1>3, <2>1, <2>2
<1> QED
  BY <1>2, <1>3 DEF Completes, Retry

-----------------------------------------------------------------------------
(* Kinds of steps *)

\* One invocation goes on, or ends; it changes neither watches nor outbox, takes on
\* no other watch, and neither makes nor gives up an attempt at a webhook.
Routine ==
  /\ \E a \in Actors, r \in ActorRow :
       /\ Becomes(a, r) /\ ActorOK(r, clock, used)
       /\ ~At(a, "send") /\ r.pc \notin {"send", "settle"}
       /\ r.pc \in Consuming =>
            /\ actor[a].pc \in Consuming /\ actor[a].now <= r.now
            /\ r.watch = actor[a].watch /\ r.owner = actor[a].owner
  /\ queue' \subseteq [watch : WatchIds, owner : used]
  /\ UNCHANGED <<watches, watchRecords, deliveries, clock, used, sent, detached>>

\* The steps of an invocation that are of this kind.
LEMMA RoutineSteps ==
  ASSUME ActorsOK, NEW a \in Actors,
         \/ CronStarts(a) \/ CronClaimsDone(a) \/ CronEnqueues(a) \/ EnqueueFails(a)
         \/ Insert(a) \/ Load(a) \/ Searches(a) \/ CompletionRefused(a)
         \/ Delivers(a) \/ NothingPending(a) \/ SettleRefused(a) \/ CallFails(a)
  PROVE  Routine
<1> USE DEF At
<1> DEFINE Goes(r) ==
      /\ Becomes(a, r) /\ ActorOK(r, clock, used)
      /\ r.pc \notin {"send", "settle"}
      /\ r.pc \in Consuming =>
           /\ actor[a].pc \in Consuming /\ actor[a].now <= r.now
           /\ r.watch = actor[a].watch /\ r.owner = actor[a].owner
<1>0. /\ clock \in Nat /\ actor[a].now \in Nat /\ actor[a].now <= clock
      /\ actor[a].now <= actor[a].now /\ clock <= clock
  BY CallArguments, TimesFacts DEF ActorsOK
<1>1. /\ ~At(a, "send")
      /\ UNCHANGED <<watches, watchRecords, deliveries, clock, used, sent, detached>>
  BY DEF CronStarts, CronClaimsDone, CronEnqueues, EnqueueFails, Insert, Load, Searches,
         CompletionRefused, Delivers, NothingPending, SettleRefused, CallFails,
         StartWatchRun, storeVars, history
<1>2. queue' \subseteq [watch : WatchIds, owner : used]
  <2>1. CASE queue' \subseteq queue
    BY <2>1 DEF ActorsOK
  <2>2. CASE CronEnqueues(a) \/ EnqueueFails(a)
    <3>1. actor[a].watch \in WatchIds /\ actor[a].owner \in used
      BY <2>2, CallArguments DEF CronEnqueues, EnqueueFails, Working
    <3>2. MessageOf(a) \in [watch : WatchIds, owner : used]
      BY <3>1 DEF MessageOf
    <3> QED
      BY <2>2, <3>2 DEF CronEnqueues, EnqueueFails, ActorsOK
  <2> QED
    BY <2>1, <2>2
       DEF CronStarts, CronClaimsDone, Insert, Load, Searches, CompletionRefused, Delivers,
           NothingPending, SettleRefused, CallFails, Ack, Retry, OnConflict
<1>3. ASSUME End(a)
      PROVE  Goes(Idle)
  <2>1. ActorOK(Idle, clock, used)
    BY <1>0, IdleFacts DEF ActorOK, Working, Consuming
  <2> QED
    BY <1>3, <2>1, EndFacts, IdleFacts DEF Consuming
<1>4. ASSUME NEW pc \in {"load", "search", "deliver"}, Goto(a, pc), actor[a].pc # "idle",
             pc # "deliver" => actor[a].pc \in Consuming
      PROVE  \E r : Goes(r)
  <2>1. PICK r : /\ Becomes(a, r) /\ r.pc = pc /\ r.now = actor[a].now
                 /\ r.config = actor[a].config /\ r.watch = actor[a].watch
                 /\ r.owner = actor[a].owner
    BY <1>4, GotoFacts DEF PcSet
  <2>2. ActorOK(r, clock, used)
    BY <1>0, <1>4, <2>1, CallArguments DEF ActorOK, Working, Consuming
  <2>3. Goes(r)
    BY <1>0, <1>4, <2>1, <2>2 DEF Consuming
  <2> QED
    BY <2>3
<1>5. ASSUME CronStarts(a)
      PROVE  \E r : Goes(r)
  <2>1. PICK r : Becomes(a, r) /\ r.pc = "claim" /\ r.now = clock /\ r.config \in Configs
    BY <1>5, CronStartsFacts
  <2>2. Goes(r)
    BY <1>0, <2>1 DEF ActorOK, Working, Consuming
  <2> QED
    BY <2>2
<1>6. ASSUME CronEnqueues(a)
      PROVE  \E r : Goes(r)
  <2>1. PICK r : /\ Becomes(a, r) /\ r.pc = "claim" /\ r.now = actor[a].now
                 /\ r.config = actor[a].config
    BY <1>6, CronEnqueuesFacts
  <2>2. r.config \in Configs
    BY <1>6, <2>1, CallArguments DEF CronEnqueues
  <2>3. Goes(r)
    BY <1>0, <2>1, <2>2 DEF ActorOK, Working, Consuming
  <2> QED
    BY <2>3
<1>7. ASSUME Searches(a)
      PROVE  \E r : Goes(r)
  <2>1. PICK r : /\ Becomes(a, r) /\ r.pc = "complete" /\ r.now = clock
                 /\ r.config = actor[a].config /\ r.watch = actor[a].watch
                 /\ r.owner = actor[a].owner
    BY <1>7, SearchesFacts
  <2>2. /\ actor[a].pc \in Consuming /\ actor[a].pc \in Working
        /\ r.config \in Configs /\ r.watch \in WatchIds /\ r.owner \in used
    BY <1>7, <2>1, CallArguments DEF Searches, Working, Consuming
  <2>3. Goes(r)
    BY <1>0, <2>1, <2>2 DEF ActorOK, Working
  <2> QED
    BY <2>3
<1>8. ASSUME Delivers(a), ~End(a)
      PROVE  \E r : Goes(r)
  <2>1. PICK r : /\ Becomes(a, r) /\ r.pc = "claimDelivery" /\ r.now \in {clock, actor[a].now}
                 /\ r.config = actor[a].config
    BY <1>8, DeliversFacts
  <2>2. r.config \in Configs
    BY <1>8, <2>1, CallArguments DEF Delivers
  <2>3. Goes(r)
    BY <1>0, <2>1, <2>2 DEF ActorOK, Working, Consuming
  <2> QED
    BY <2>3
<1>9. CASE Insert(a) /\ ~End(a)
  <2>1. Goto(a, "load") /\ actor[a].pc \in Consuming /\ actor[a].pc # "idle"
    BY <1>9 DEF Insert, Retry, Consuming
  <2> QED
    BY <1>1, <1>2, <1>4, <2>1 DEF Routine, Becomes
<1>10. CASE Load(a) /\ ~End(a)
  <2>1. /\ Goto(a, "search") \/ Goto(a, "deliver")
        /\ actor[a].pc \in Consuming /\ actor[a].pc # "idle"
    BY <1>10 DEF Load, OnConflict, Ack, Consuming
  <2> QED
    BY <1>1, <1>2, <1>4, <2>1 DEF Routine, Becomes
<1>11. CASE CronClaimsDone(a)
  <2>1. Goto(a, "deliver") /\ actor[a].pc # "idle"
    BY <1>11 DEF CronClaimsDone
  <2> QED
    BY <1>1, <1>2, <1>4, <2>1 DEF Routine, Becomes
<1>12. CASE End(a)
  BY <1>1, <1>2, <1>3, <1>12 DEF Routine, Becomes
<1>13. CASE CronStarts(a) \/ CronEnqueues(a) \/ Searches(a) \/ (Delivers(a) /\ ~End(a))
  BY <1>1, <1>2, <1>5, <1>6, <1>7, <1>8, <1>13 DEF Routine, Becomes
<1> QED
  BY <1>9, <1>10, <1>11, <1>12, <1>13
     DEF EnqueueFails, CompletionRefused, NothingPending, SettleRefused, CallFails, Ack, Retry,
         OnConflict

\* All steps: those that matter to watches, outbox and requests, and the others.
LEMMA StepKinds ==
  ActorsOK /\ CloudNext =>
    \/ Routine
    \/ AddWatch \/ RemoveWatch \/ Advance
    \/ \E a \in Actors : \/ CronClaims(a) \/ Receive(a) \/ Completes(a) \/ ClaimsDelivery(a)
                         \/ Sends(a) \/ Oversized(a) \/ Settles(a) \/ Dies(a)
<1> SUFFICES ASSUME ActorsOK, CloudNext, ~AddWatch, ~RemoveWatch, ~Advance,
                    \A a \in Actors : /\ ~CronClaims(a) /\ ~Receive(a) /\ ~Completes(a)
                                      /\ ~ClaimsDelivery(a) /\ ~Sends(a) /\ ~Oversized(a)
                                      /\ ~Settles(a) /\ ~Dies(a)
             PROVE  Routine
  OBVIOUS
<1>1. PICK a \in Actors :
        \/ CronStarts(a) \/ CronClaimsDone(a) \/ CronEnqueues(a) \/ EnqueueFails(a)
        \/ Insert(a) \/ Load(a) \/ Searches(a) \/ CompletionRefused(a)
        \/ Delivers(a) \/ NothingPending(a) \/ SettleRefused(a) \/ CallFails(a)
  BY Zenon DEF CloudNext, CronSteps, ConsumerSteps, DeliverSteps, Actors
<1> QED
  BY <1>1, RoutineSteps

-----------------------------------------------------------------------------
(* The worker uses the store as its contract says *)

\* Every step of the worker is a step of the store or leaves it alone.
LEMMA StoreStep ==
  TypeOK /\ ActorsOK /\ [CloudNext]_cloudVars => [Next]_storeVars
<1> SUFFICES ASSUME TypeOK, ActorsOK, CloudNext
             PROVE  [Next]_storeVars
  BY DEF cloudVars, storeVars
<1> USE CloudAssumption
<1>1. ASSUME NEW a \in Actors, CronClaims(a)
      PROVE  Next
  <2>1. PICK x \in watches, o \in Owners : ClaimDueWatch(x, actor[a].now, o, LeaseSeconds)
    BY <1>1 DEF CronClaims
  <2> QED
    BY <2>1, CallArguments DEF Next, WatchStep
<1>2. ASSUME NEW a \in Actors, Insert(a)
      PROVE  [Next]_storeVars
  <2>1. /\ actor[a].now \in Times /\ actor[a].watch \in WatchIds
        /\ actor[a].owner \in Owners /\ actor[a].owner \in RunIds
    BY <1>2, CallArguments DEF Insert, At, Working, Consuming
  <2>2. \/ StartWatchRun(actor[a].watch, actor[a].owner, actor[a].owner, actor[a].now)
        \/ UNCHANGED storeVars
    BY <1>2 DEF Insert
  <2> QED
    BY <2>1, <2>2 DEF Next, RunStep
<1>3. ASSUME NEW a \in Actors, Completes(a)
      PROVE  Next
  <2>1. /\ actor[a].now \in Times /\ actor[a].watch \in WatchIds
        /\ actor[a].owner \in Owners /\ actor[a].owner \in RunIds
        /\ actor[a].seen \in SUBSET RecordIds /\ actor[a].config \in Configs
    BY <1>3, CallArguments DEF Completes, At, Working, Consuming
  <2>2. PICK s \in Outcomes :
          CompleteWatchRun(actor[a].watch, actor[a].owner, actor[a].owner, actor[a].now,
                           actor[a].seen, s, actor[a].config)
    BY <1>3 DEF Completes, Outcomes
  <2> QED
    BY <2>1, <2>2 DEF Next, RunStep
<1>4. ASSUME NEW a \in Actors, ClaimsDelivery(a)
      PROVE  Next
  <2>1. PICK d \in deliveries, o \in Owners :
          ClaimPendingDelivery(d, actor[a].now, o, DeliveryLease)
    BY <1>4, ClaimsDeliveryFacts
  <2> QED
    BY <2>1, CallArguments DEF Next, DeliveryStep
<1>5. ASSUME NEW a \in Actors, Settles(a)
      PROVE  Next
  <2>1. /\ actor[a].now \in Times /\ actor[a].token \in Owners
        /\ actor[a].dwatch \in WatchIds /\ actor[a].drun \in RunIds
        /\ actor[a].ok \in BOOLEAN
    BY <1>5, CallArguments DEF Settles, At
  <2> QED
    BY <1>5, <2>1 DEF Settles, Next, DeliveryStep
<1>6. ASSUME AddWatch
      PROVE  Next
  BY <1>6 DEF AddWatch, ActorsOK, Next, WatchStep
<1>7. ASSUME RemoveWatch
      PROVE  Next
  <2>1. PICK x \in watches : DeleteWatch(x.id)
    BY <1>7 DEF RemoveWatch
  <2>2. x.id \in WatchIds
    BY DEF TypeOK, WatchRow
  <2> QED
    BY <2>1, <2>2 DEF Next, WatchStep
<1>8. ASSUME NEW a \in Actors, DeliverSteps(a)
      PROVE  [Next]_storeVars
  BY <1>4, <1>5, <1>8
     DEF DeliverSteps, Delivers, NothingPending, Sends, Oversized, SettleRefused
<1>9. ASSUME NEW a \in Crons, CronSteps(a) \/ EnqueueFails(a)
      PROVE  [Next]_storeVars
  BY <1>1, <1>8, <1>9
     DEF Actors, CronSteps, EnqueueFails, CronStarts, CronClaimsDone, CronEnqueues
<1>10. ASSUME NEW a \in Consumers, ConsumerSteps(a)
       PROVE  [Next]_storeVars
  BY <1>2, <1>3, <1>8, <1>10
     DEF Actors, ConsumerSteps, Receive, Load, Searches, CompletionRefused
<1>11. ASSUME NEW a \in Actors, CallFails(a) \/ Dies(a)
       PROVE  [Next]_storeVars
  BY <1>11 DEF CallFails, Dies
<1>12. CASE Advance
  BY <1>12 DEF Advance
<1> QED
  BY <1>6, <1>7, <1>9, <1>10, <1>11, <1>12 DEF CloudNext

\* One invocation changes, to a row that has what its place needs.
LEMMA MoveKeepsActors ==
  ASSUME ActorsOK, NEW a \in Actors, NEW r, Becomes(a, r), ActorOK(r, clock, used'),
         used \subseteq used', used' \subseteq Owners, UNCHANGED clock,
         queue' \subseteq [watch : WatchIds, owner : used']
  PROVE  ActorsOK'
<1>1. \A b \in Actors : ActorOK(actor'[b], clock, used')
  <2> SUFFICES ASSUME NEW b \in Actors, b # a
               PROVE  ActorOK(actor'[b], clock, used')
    BY DEF Becomes
  <2>1. actor'[b] = actor[b] /\ ActorOK(actor[b], clock, used)
    BY DEF Becomes, ActorsOK
  <2> QED
    BY <2>1 DEF ActorOK
<1> QED
  BY <1>1 DEF ActorsOK, Becomes

\* An invocation always holds what its place needs.
LEMMA ActorsStep == TypeOK /\ ActorsOK /\ [CloudNext]_cloudVars => ActorsOK'
<1> SUFFICES ASSUME TypeOK, ActorsOK, [CloudNext]_cloudVars
             PROVE  ActorsOK'
  OBVIOUS
<1>0. /\ clock \in Nat /\ clock <= clock /\ 0 <= clock
      /\ used \subseteq Owners /\ queue \subseteq [watch : WatchIds, owner : used]
  BY TimesFacts DEF ActorsOK
<1>1. \A u : ActorOK(Idle, clock, u)
  BY <1>0, IdleFacts DEF ActorOK, Working, Consuming
<1>2. CASE Routine
  BY <1>0, <1>2, MoveKeepsActors DEF Routine
<1>3. ASSUME NEW a \in Actors, CronClaims(a)
      PROVE  ActorsOK'
  <2>1. PICK x \in watches, o \in Owners \ used, r \in ActorRow :
           /\ used' = used \cup {o}
           /\ Becomes(a, r)
           /\ \/ r = Idle
              \/ /\ r.pc = "enqueue" /\ r.now = actor[a].now /\ r.config = actor[a].config
                 /\ r.watch = x.id /\ r.owner = o
    BY <1>3, CronClaimsFacts
  <2>2. UNCHANGED <<clock, queue>> /\ x.id \in WatchIds /\ actor[a].config \in Configs
    BY <1>3, CallArguments DEF CronClaims, TypeOK, WatchRow, At
  <2>3. ActorOK(r, clock, used')
    BY <1>1, <2>1, <2>2, CallArguments DEF ActorOK, Working
  <2>4. queue' \subseteq [watch : WatchIds, owner : used']
    BY <1>0, <2>1, <2>2
  <2> QED
    BY <1>0, <2>1, <2>2, <2>3, <2>4, MoveKeepsActors
<1>4. ASSUME NEW a \in Actors, Receive(a)
      PROVE  ActorsOK'
  <2>1. PICK r : /\ Becomes(a, r) /\ r.pc = "start" /\ r.now = clock /\ r.config \in Configs
                 /\ r.watch \in WatchIds /\ r.owner \in used
    BY <1>4, ReceiveFacts
  <2>2. ActorOK(r, clock, used)
    BY <1>0, <2>1 DEF ActorOK
  <2> QED
    BY <1>0, <1>4, <2>1, <2>2, MoveKeepsActors DEF Receive
<1>5. ASSUME NEW a \in Actors, Completes(a)
      PROVE  ActorsOK'
  <2>1. PICK r : Becomes(a, r) /\ ActorOK(r, clock, used) /\ queue' \subseteq queue
    BY <1>5, CompletesFacts
  <2>2. UNCHANGED <<clock, used>>
    BY <1>5 DEF Completes
  <2> QED
    BY <1>0, <2>1, <2>2, MoveKeepsActors
<1>6. ASSUME NEW a \in Actors, ClaimsDelivery(a)
      PROVE  ActorsOK'
  <2>1. PICK d \in deliveries, o \in Owners \ used, r \in ActorRow :
           /\ used' = used \cup {o}
           /\ Becomes(a, r)
           /\ \/ r = Idle
              \/ /\ r.now = clock /\ r.config = actor[a].config
                 /\ r.dwatch = d.watch /\ r.drun = d.run /\ r.token = o
                 /\ r.pc \in {"send", "settle"}
    BY <1>6, ClaimsDeliveryFacts
  <2>2. /\ clock' = clock /\ queue' \subseteq queue
        /\ d.watch \in WatchIds /\ d.run \in RunIds /\ actor[a].config \in Configs
    BY <1>6, CallArguments DEF ClaimsDelivery, Retry, TypeOK, DeliveryRow, At
  <2>3. ActorOK(r, clock, used')
    BY <1>0, <1>1, <2>1, <2>2 DEF ActorOK, Working, Consuming
  <2>4. queue' \subseteq [watch : WatchIds, owner : used']
    BY <1>0, <2>1, <2>2
  <2> QED
    BY <1>0, <2>1, <2>2, <2>3, <2>4, MoveKeepsActors
<1>7. ASSUME NEW a \in Actors, Sends(a) \/ Oversized(a)
      PROVE  ActorsOK'
  <2>1. PICK r : /\ Becomes(a, r) /\ r.pc = "settle" /\ r.now = clock
                 /\ r.config = actor[a].config /\ r.dwatch = actor[a].dwatch
                 /\ r.drun = actor[a].drun /\ r.token = actor[a].token
    BY <1>7, SendsFacts
  <2>2. ActorOK(r, clock, used)
    BY <1>0, <1>7, <2>1, CallArguments DEF ActorOK, Sends, Oversized, At, Working, Consuming
  <2> QED
    BY <1>0, <1>7, <2>1, <2>2, MoveKeepsActors DEF Sends, Oversized
<1>8. ASSUME NEW a \in Actors, Settles(a) \/ Dies(a)
      PROVE  ActorsOK'
  <2>1. Becomes(a, Idle) /\ UNCHANGED <<clock, used>> /\ queue' \subseteq queue
    BY <1>8, EndFacts DEF Settles, Dies, Ack, Retry
  <2> QED
    BY <1>0, <1>1, <2>1, MoveKeepsActors
<1>9. CASE AddWatch \/ RemoveWatch \/ UNCHANGED cloudVars
  BY <1>9 DEF AddWatch, RemoveWatch, cloudVars, ActorsOK
<1>10. CASE Advance
  <2>1. clock' = clock + 1 /\ clock' \in Times /\ UNCHANGED <<queue, actor, used>>
    BY <1>0, <1>10, CloudAssumption DEF Advance
  <2>2. \A q \in ActorRow : ActorOK(q, clock, used) => ActorOK(q, clock', used)
    <3> SUFFICES ASSUME NEW q \in ActorRow, ActorOK(q, clock, used)
                 PROVE  ActorOK(q, clock', used)
      OBVIOUS
    <3>1. q.now \in Nat /\ q.now <= clock
      BY TimesFacts DEF ActorOK, ActorRow
    <3>2. q.now <= clock'
      BY <1>0, <2>1, <3>1
    <3> QED
      BY <3>2 DEF ActorOK
  <2> QED
    BY <2>1, <2>2 DEF ActorsOK
<1> QED
  BY <1>2, <1>3, <1>4, <1>5, <1>6, <1>7, <1>8, <1>9, <1>10, StepKinds

\* At first no invocation has begun and nothing is queued.
LEMMA ActorsInit == CloudInit => Init /\ ActorsOK
<1> SUFFICES ASSUME CloudInit
             PROVE  Init /\ ActorsOK
  OBVIOUS
<1>1. clock = 0 /\ used = {} /\ queue = {} /\ actor = [a \in Actors |-> Idle]
  BY DEF CloudInit
<1>2. ActorOK(Idle, 0, {})
  BY IdleFacts DEF ActorOK, Working, Consuming
<1> QED
  BY <1>1, <1>2, IdleFacts, TimesFacts DEF CloudInit, ActorsOK

\* Rows are typed and invocations hold what they need, always.
LEMMA ActorsAlways == CloudSpec => [](TypeOK /\ ActorsOK)
<1>1. CloudInit => TypeOK /\ ActorsOK
  BY ActorsInit DEF Init, TypeOK
<1>2. TypeOK /\ ActorsOK /\ [CloudNext]_cloudVars => (TypeOK /\ ActorsOK)'
  BY ActorsStep, StoreStep, TypeStep
<1> QED
  BY <1>1, <1>2, PTL DEF CloudSpec

\* The steps of the worker are written with the actions of the store, so its
\* behaviours are behaviours of the store if the arguments are in their domains.
\* The lemma only carries invariants of the store over to the managed worker.
LEMMA WorkerUsesStore == CloudSpec => Spec
<1>1. CloudInit => Init
  BY ActorsInit
<1> QED
  BY <1>1, StoreStep, ActorsAlways, PTL DEF CloudSpec, Spec

-----------------------------------------------------------------------------
(* Occurrences *)

\* A watch is leased for an occurrence that is due.
LeasedIsDue == \A x \in watches : x.owner # NULL => x.nextDue <= clock

\* A consumer whose owner still has the lease has read the clock after the
\* occurrence it was claimed for was due.
OwnerAfterDue ==
  \A a \in Actors, x \in watches :
    actor[a].pc \in Consuming /\ x.owner = actor[a].owner => x.nextDue <= actor[a].now

\* The schedule of a watch is ahead of its history.
HistoryBehind ==
  \A z \in watchRecords, y \in watches : z.watch = y.id => z.last < y.nextDue

\* The inductive invariant.
ScheduleInv == LeasedIsDue /\ OwnerAfterDue /\ HistoryBehind

\* A step that leaves watches and history alone, and lets no consumer take on
\* another message or go back in time.
LEMMA QuietForSchedule ==
  ASSUME TypeOK, ActorsOK, ActorsOK', ScheduleInv,
         UNCHANGED <<watches, watchRecords>>, clock <= clock',
         \A b \in Actors : actor'[b].pc \in Consuming =>
           /\ actor[b].pc \in Consuming /\ actor'[b].owner = actor[b].owner
           /\ actor[b].now <= actor'[b].now
  PROVE  ScheduleInv'
<1>0. /\ \A x \in watches : x.nextDue \in Nat
      /\ clock \in Nat /\ clock' \in Nat
      /\ \A b \in Actors : actor[b].now \in Nat /\ actor'[b].now \in Nat
  BY TimesFacts DEF TypeOK, WatchRow, ActorsOK, ActorRow
<1>1. LeasedIsDue'
  BY <1>0 DEF ScheduleInv, LeasedIsDue
<1>2. OwnerAfterDue'
  BY <1>0 DEF ScheduleInv, OwnerAfterDue
<1>3. HistoryBehind'
  BY DEF ScheduleInv, HistoryBehind
<1> QED
  BY <1>1, <1>2, <1>3 DEF ScheduleInv

\* An owner that is drawn for a claim is in no message and in no invocation.
LEMMA ClaimKeepsSchedule ==
  ASSUME TypeOK, ActorsOK, ScheduleInv, NEW k \in Actors, CronClaims(k)
  PROVE  ScheduleInv'
<1>1. PICK x \in watches, o \in Owners \ used, r \in ActorRow :
           /\ ClaimDueWatch(x, actor[k].now, o, LeaseSeconds)
           /\ Becomes(k, r) /\ r.pc \in {"idle", "enqueue"}
  BY CronClaimsFacts, IdleFacts
<1> DEFINE y == [x EXCEPT !.owner = o, !.expires = actor[k].now + LeaseSeconds]
<1>2. y.id = x.id /\ y.owner = o /\ y.nextDue = x.nextDue
  BY DEF TypeOK, WatchRow
<1>3. watches' = (watches \ {x}) \cup {y} /\ UNCHANGED <<watchRecords, clock>>
  BY <1>1 DEF ClaimDueWatch, Replace, CronClaims
<1> HIDE DEF y
<1>4. x.nextDue <= clock
  <2>1. x.nextDue <= actor[k].now /\ x.nextDue \in Nat
    BY <1>1 DEF ClaimDueWatch, SelectDueWatch, DueWatches, TypeOK, WatchRow
  <2>2. actor[k].now <= clock /\ actor[k].now \in Nat /\ clock \in Nat
    BY CallArguments, TimesFacts DEF ActorsOK
  <2> QED
    BY <2>1, <2>2
<1>5. LeasedIsDue'
  BY <1>2, <1>3, <1>4 DEF ScheduleInv, LeasedIsDue
<1>6. OwnerAfterDue'
  <2> SUFFICES ASSUME NEW b \in Actors, NEW z \in watches', actor'[b].pc \in Consuming,
                      z.owner = actor'[b].owner
               PROVE  z.nextDue <= actor'[b].now
    BY DEF OwnerAfterDue
  <2>1. b # k /\ actor'[b] = actor[b]
    BY <1>1 DEF Becomes, Consuming
  <2>2. actor[b].owner \in used
    BY <2>1, CallArguments DEF Working
  <2>3. z \in watches
    BY <1>2, <1>3, <2>1, <2>2
  <2> QED
    BY <2>1, <2>3 DEF ScheduleInv, OwnerAfterDue
<1>7. HistoryBehind'
  BY <1>2, <1>3 DEF ScheduleInv, HistoryBehind
<1> QED
  BY <1>5, <1>6, <1>7 DEF ScheduleInv

\* A consumer reads the clock when it gets its message.
LEMMA ReceiveKeepsSchedule ==
  ASSUME ActorsOK, ScheduleInv, NEW c \in Actors, Receive(c)
  PROVE  ScheduleInv'
<1>1. PICK r : Becomes(c, r) /\ r.now = clock /\ r.owner \in used
  BY ReceiveFacts
<1>2. UNCHANGED <<watches, watchRecords, clock>>
  BY DEF Receive, storeVars
<1>3. r.owner # NULL
  BY <1>1, StoreAssumption DEF ActorsOK
<1>4. OwnerAfterDue'
  BY <1>1, <1>2, <1>3 DEF ScheduleInv, OwnerAfterDue, LeasedIsDue, Becomes
<1> QED
  BY <1>2, <1>4 DEF ScheduleInv, LeasedIsDue, HistoryBehind

\* A completion that is not refused is of an occurrence that was due, and moves the
\* schedule past it and past the time of the completion.
LEMMA CompletionFacts ==
  ASSUME TypeOK, ActorsOK, ScheduleInv, NEW c \in Actors, Completes(c)
  PROVE  \E x \in watches, y \in watches' :
           /\ x.id = actor[c].watch /\ y.id = x.id /\ y.owner = NULL
           /\ watches' = Replace(watches, x, y)
           /\ x.nextDue <= clock /\ x.nextDue <= actor[c].now /\ actor[c].now < y.nextDue
           /\ x.nextDue \in Nat /\ actor[c].now \in Nat /\ y.nextDue \in Nat
<1> DEFINE t == actor[c].now
<1>1. PICK x \in WatchUnderLease(actor[c].watch, actor[c].owner, t) : FinishWatch(x, t)
  BY DEF Completes, CompleteWatchRun
<1>2. x \in watches /\ x.id = actor[c].watch /\ x.owner = actor[c].owner
  BY DEF WatchUnderLease, LeaseHeld
<1>3. x \in WatchRow
  BY <1>2 DEF TypeOK
<1>4. actor[c].pc \in Consuming /\ x.owner # NULL
  BY <1>2, CallArguments, StoreAssumption DEF Completes, At, Consuming, Working
<1>5. x.nextDue <= t /\ x.nextDue <= clock
  BY <1>2, <1>4 DEF ScheduleInv, OwnerAfterDue, LeasedIsDue
<1>6. t \in Nat /\ x.nextDue \in Nat /\ x.interval \in Nat \ {0}
  BY <1>3, CallArguments, TimesFacts, StoreAssumption DEF WatchRow
<1> DEFINE y == [x EXCEPT !.nextDue = t + x.interval, !.owner = NULL, !.expires = NULL]
<1>7. y.id = x.id /\ y.owner = NULL /\ y.nextDue = t + x.interval
  BY <1>3 DEF WatchRow
<1>8. watches' = Replace(watches, x, y)
  BY <1>1 DEF FinishWatch
<1> HIDE DEF y
<1>9. t < y.nextDue /\ y.nextDue \in Nat
  BY <1>6, <1>7
<1>10. y \in watches'
  BY <1>8 DEF Replace
<1> QED
  BY <1>2, <1>5, <1>6, <1>7, <1>8, <1>9, <1>10, Zenon

\* The lease ends with the run, and what it observed is stamped before the next
\* occurrence.
LEMMA CompleteKeepsSchedule ==
  ASSUME TypeOK, ActorsOK, OutboxInv, ScheduleInv, NEW c \in Actors, Completes(c)
  PROVE  ScheduleInv'
<1> DEFINE w == actor[c].watch
           t == actor[c].now
<1>1. PICK x \in watches, y \in watches' :
           /\ x.id = w /\ y.id = x.id /\ y.owner = NULL
           /\ watches' = Replace(watches, x, y)
           /\ x.nextDue <= t /\ t < y.nextDue
           /\ x.nextDue \in Nat /\ t \in Nat /\ y.nextDue \in Nat
  BY CompletionFacts
<1>2. UpsertWatchRecords(w, actor[c].seen, t) /\ UNCHANGED clock
  BY DEF Completes, CompleteWatchRun
<1>3. \A z \in watches' : z = y \/ (z \in watches /\ z.id # w)
  BY <1>1 DEF Replace, OutboxInv, KeysUnique
<1>4. LeasedIsDue'
  BY <1>1, <1>2, <1>3 DEF ScheduleInv, LeasedIsDue
<1>5. OwnerAfterDue'
  <2> SUFFICES ASSUME NEW b \in Actors, NEW z \in watches', actor'[b].pc \in Consuming,
                      z.owner = actor'[b].owner
               PROVE  z.nextDue <= actor'[b].now
    BY DEF OwnerAfterDue
  <2>1. PICK r : Becomes(c, r) /\ r.pc \in {"deliver", "idle"}
    BY CompletesFacts
  <2>2. b # c /\ actor'[b] = actor[b]
    BY <2>1 DEF Becomes, Consuming
  <2>3. actor[b].owner # NULL
    BY <2>2, CallArguments, StoreAssumption DEF Working
  <2>4. z \in watches
    BY <1>1, <1>3, <2>2, <2>3
  <2> QED
    BY <2>2, <2>4 DEF ScheduleInv, OwnerAfterDue
<1>6. HistoryBehind'
  <2> SUFFICES ASSUME NEW z \in watchRecords', NEW v \in watches', z.watch = v.id
               PROVE  z.last < v.nextDue
    BY DEF HistoryBehind
  <2>1. z \in watchRecords \/ (z.watch = w /\ z.last = t)
    BY <1>2, HistoryFacts
  <2>2. CASE v # y
    BY <1>3, <2>1, <2>2 DEF ScheduleInv, HistoryBehind
  <2>3. CASE v = y /\ z \in watchRecords
    <3>1. z.last < x.nextDue /\ z.last \in Nat
      BY <1>1, <2>3 DEF ScheduleInv, HistoryBehind, TypeOK, WatchRecordRow
    <3> QED
      BY <1>1, <2>3, <3>1
  <2>4. CASE v = y /\ z.last = t
    BY <1>1, <2>4
  <2> QED
    BY <2>1, <2>2, <2>3, <2>4
<1> QED
  BY <1>4, <1>5, <1>6 DEF ScheduleInv

\* A new watch has no history, and nobody owns its lease.
LEMMA AddKeepsSchedule ==
  ASSUME ActorsOK, OutboxInv, ScheduleInv, AddWatch
  PROVE  ScheduleInv'
<1>1. PICK w \in WatchIds, i \in Intervals : CreateWatch(w, i, clock)
  BY DEF AddWatch
<1> DEFINE y == NewWatch(w, i, clock)
<1>2. y.id = w /\ y.owner = NULL
  BY DEF NewWatch
<1>3. /\ watches' = watches \cup {y} /\ UNCHANGED <<watchRecords, actor, clock>>
      /\ \A x \in watches : x.id # w
  BY <1>1 DEF CreateWatch, AddWatch
<1> HIDE DEF y
<1>4. \A x \in watchRecords : x.watch # w
  BY <1>3 DEF OutboxInv, NoOrphans
<1>5. \A b \in Actors : actor[b].pc \in Consuming => actor[b].owner # NULL
  BY CallArguments, StoreAssumption DEF Working
<1> QED
  BY <1>2, <1>3, <1>4, <1>5 DEF ScheduleInv, LeasedIsDue, OwnerAfterDue, HistoryBehind

\* Every step, by kind.
LEMMA ScheduleStep ==
  TypeOK /\ ActorsOK /\ OutboxInv /\ ScheduleInv /\ [CloudNext]_cloudVars => ScheduleInv'
<1> SUFFICES ASSUME TypeOK, ActorsOK, OutboxInv, ScheduleInv, [CloudNext]_cloudVars
             PROVE  ScheduleInv'
  OBVIOUS
<1>0. ActorsOK' /\ clock <= clock
  BY ActorsStep, TimesFacts DEF ActorsOK
<1>1. ASSUME NEW a \in Actors, NEW r, Becomes(a, r), UNCHANGED <<watches, watchRecords, clock>>,
             r.pc \in Consuming =>
               /\ actor[a].pc \in Consuming /\ actor[a].now <= r.now
               /\ r.owner = actor[a].owner
      PROVE  ScheduleInv'
  <2>1. \A b \in Actors : actor[b].now <= actor[b].now
    BY CallArguments, TimesFacts
  <2>2. \A b \in Actors : actor'[b].pc \in Consuming =>
           /\ actor[b].pc \in Consuming /\ actor'[b].owner = actor[b].owner
           /\ actor[b].now <= actor'[b].now
    BY <1>1, <2>1 DEF Becomes
  <2> QED
    BY <1>0, <1>1, <2>2, QuietForSchedule
<1>2. CASE Routine
  BY <1>1, <1>2 DEF Routine
<1>3. ASSUME NEW a \in Actors, ClaimsDelivery(a)
      PROVE  ScheduleInv'
  <2>1. PICK d \in deliveries, o \in Owners \ used, r \in ActorRow :
           /\ ClaimPendingDelivery(d, actor[a].now, o, DeliveryLease)
           /\ Becomes(a, r) /\ r.pc \in {"idle", "send", "settle"}
    BY <1>3, ClaimsDeliveryFacts, IdleFacts
  <2>2. r.pc \notin Consuming /\ UNCHANGED <<watches, watchRecords, clock>>
    BY <1>3, <2>1 DEF Consuming, ClaimPendingDelivery, ClaimsDelivery
  <2> QED
    BY <1>1, <2>1, <2>2
<1>4. ASSUME NEW a \in Actors, Sends(a) \/ Oversized(a)
      PROVE  ScheduleInv'
  <2>1. PICK r : Becomes(a, r) /\ r.pc = "settle"
    BY <1>4, SendsFacts
  <2> QED
    BY <1>1, <1>4, <2>1 DEF Sends, Oversized, storeVars, Consuming
<1>5. ASSUME NEW a \in Actors, Settles(a) \/ Dies(a)
      PROVE  ScheduleInv'
  <2>1. Becomes(a, Idle)
    BY <1>5, EndFacts DEF Settles, Dies, Ack, Retry
  <2>2. UNCHANGED <<watches, watchRecords, clock>>
    BY <1>5 DEF Settles, Dies, CompleteDelivery, storeVars
  <2> QED
    BY <1>1, <2>1, <2>2, IdleFacts DEF Consuming
<1>6. CASE RemoveWatch
  <2>1. /\ watches' \subseteq watches /\ watchRecords' \subseteq watchRecords
        /\ UNCHANGED <<clock, actor>>
    BY <1>6 DEF RemoveWatch, DeleteWatch
  <2> QED
    BY <2>1 DEF ScheduleInv, LeasedIsDue, OwnerAfterDue, HistoryBehind
<1>7. CASE Advance \/ UNCHANGED cloudVars
  <2>1. /\ \A b \in Actors : actor[b].now <= actor[b].now
        /\ clock <= clock'
    BY <1>0, <1>7, CallArguments, TimesFacts DEF Advance, cloudVars, ActorsOK
  <2>2. UNCHANGED <<watches, watchRecords, actor>>
    BY <1>7 DEF Advance, cloudVars, storeVars
  <2> QED
    BY <1>0, <2>1, <2>2, QuietForSchedule
<1> QED
  BY <1>2, <1>3, <1>4, <1>5, <1>6, <1>7, StepKinds, ClaimKeepsSchedule,
     ReceiveKeepsSchedule, CompleteKeepsSchedule, AddKeepsSchedule

\* The tables are always those of the store contract, and the schedule ahead.
LEMMA ScheduleAlways == CloudSpec => [](TypeOK /\ ActorsOK /\ OutboxInv /\ ScheduleInv)
<1>1. CloudInit => ScheduleInv
  BY DEF CloudInit, Init, ScheduleInv, LeasedIsDue, OwnerAfterDue, HistoryBehind
<1>2. CloudSpec => []OutboxInv
  BY WorkerUsesStore, OutboxAlways, PTL
<1> QED
  BY <1>1, <1>2, ScheduleStep, ActorsAlways, PTL DEF CloudSpec

\* A run that finishes finishes an occurrence that was due and takes the watch past
\* it, and the history of a watch never runs backwards: a repeated message, or one
\* that outlived its lease, completes nothing that another consumer has completed.
THEOREM OccurrencesMoveOn == CloudSpec => CloudOccurrences
<1> DEFINE Finishes ==
      \A r \in runs, s \in runs' :
        /\ r.watch = s.watch /\ r.run = s.run
        /\ r.status = "running" /\ s.status # "running"
        => \E x \in watches, y \in watches' :
             /\ x.id = r.watch /\ y.id = r.watch
             /\ x.nextDue <= clock /\ x.nextDue < y.nextDue
           Observes ==
      \A x \in watchRecords, y \in watchRecords' :
        x.watch = y.watch /\ x.record = y.record =>
          y.first = x.first /\ y.last >= x.last
<1>1. TypeOK /\ ActorsOK /\ OutboxInv /\ ScheduleInv /\ [CloudNext]_cloudVars
        => [Finishes /\ Observes]_cloudVars
  <2> SUFFICES ASSUME TypeOK, ActorsOK, OutboxInv, ScheduleInv, CloudNext
               PROVE  Finishes /\ Observes
    OBVIOUS
  <2>0. /\ \A x \in watchRecords : x.last \in Nat
        /\ \A x, y \in watchRecords : x.watch = y.watch /\ x.record = y.record => x = y
        /\ \A x, y \in runs : x.watch = y.watch /\ x.run = y.run => x = y
    BY DEF TypeOK, WatchRecordRow, OutboxInv, KeysUnique
  <2>1. ASSUME watchRecords' \subseteq watchRecords
        PROVE  Observes
    BY <2>0, <2>1
  <2>2. ASSUME \A s \in runs' : s \in runs \/ s.status = "running"
        PROVE  Finishes
    BY <2>0, <2>2
  <2>3. ASSUME NEW c \in Actors, Completes(c)
        PROVE  Finishes /\ Observes
    <3> DEFINE w == actor[c].watch
               t == actor[c].now
               seen == actor[c].seen
               o == IF actor[c].ok THEN "succeeded" ELSE "failed"
    <3>1. PICK x \in watches, y \in watches' :
             /\ x.id = w /\ y.id = x.id
             /\ x.nextDue <= clock /\ x.nextDue <= t /\ t < y.nextDue
             /\ x.nextDue \in Nat /\ t \in Nat /\ y.nextDue \in Nat
      BY <2>3, CompletionFacts
    <3>2. UpsertWatchRecords(w, seen, t) /\ FinishRun(w, actor[c].owner, o)
      BY <2>3 DEF Completes, CompleteWatchRun
    <3>3. ASSUME NEW r \in runs, NEW s \in runs', r.watch = s.watch, r.run = s.run,
                 r.status = "running", s.status # "running"
          PROVE  r.watch = w
      <4>1. PICK u \in runs :
              /\ u.watch = s.watch /\ u.run = s.run
              /\ s = IF u.watch = w /\ u.run = actor[c].owner THEN [u EXCEPT !.status = o] ELSE u
        BY <3>2, FinishRunFacts
      <4>2. u = r
        BY <2>0, <3>3, <4>1
      <4> QED
        BY <3>3, <4>1, <4>2
    <3>4. x.nextDue < y.nextDue
      BY <3>1
    <3>5. Finishes
      BY <3>1, <3>3, <3>4
    <3>6. ASSUME NEW u \in watchRecords, NEW v \in watchRecords',
                 u.watch = v.watch, u.record = v.record
          PROVE  v.first = u.first /\ v.last >= u.last
      <4>1. CASE v \in watchRecords
        BY <2>0, <3>6, <4>1
      <4>2. CASE v \notin watchRecords
        <5>1. /\ v.watch = w /\ v.last = t
              /\ \/ v.record \in NewRecords(w, seen)
                 \/ \E z \in watchRecords :
                      z.watch = w /\ z.record = v.record /\ z.first = v.first
          BY <3>2, <4>2, HistoryFacts
        <5>2. v.first = u.first
          BY <2>0, <3>6, <5>1 DEF NewRecords
        <5>3. u.last < x.nextDue /\ u.last \in Nat
          BY <2>0, <3>1, <3>6, <5>1 DEF ScheduleInv, HistoryBehind
        <5>4. v.last >= u.last
          BY <3>1, <5>1, <5>3
        <5> QED
          BY <5>2, <5>4
      <4> QED
        BY <4>1, <4>2
    <3> QED
      BY <3>5, <3>6
  <2>4. ASSUME NEW c \in Actors, Insert(c)
        PROVE  Finishes /\ Observes
    <3> DEFINE e == [watch |-> actor[c].watch, run |-> actor[c].owner,
                     owner |-> actor[c].owner, status |-> "running"]
    <3>1. runs' \subseteq runs \cup {e} /\ UNCHANGED watchRecords
      BY <2>4 DEF Insert, StartWatchRun, storeVars
    <3>2. e.status = "running"
      OBVIOUS
    <3> HIDE DEF e
    <3>3. \A s \in runs' : s \in runs \/ s.status = "running"
      BY <3>1, <3>2
    <3> QED
      BY <2>1, <2>2, <3>1, <3>3
  <2>5. ASSUME runs' \subseteq runs, watchRecords' \subseteq watchRecords
        PROVE  Finishes /\ Observes
    <3>1. \A s \in runs' : s \in runs \/ s.status = "running"
      BY <2>5
    <3> QED
      BY <2>1, <2>2, <2>5, <3>1
  <2> HIDE DEF Finishes, Observes
  <2>6. ASSUME NEW a \in Actors, DeliverSteps(a)
        PROVE  runs' \subseteq runs /\ watchRecords' \subseteq watchRecords
    BY <2>6 DEF DeliverSteps, Delivers, NothingPending, ClaimsDelivery, ClaimPendingDelivery,
                Sends, Oversized, Settles, CompleteDelivery, SettleRefused, storeVars
  <2>7. ASSUME NEW a \in Crons, CronSteps(a) \/ EnqueueFails(a)
        PROVE  Finishes /\ Observes
    BY <2>5, <2>6, <2>7
       DEF Actors, CronSteps, EnqueueFails, CronStarts, CronClaims, ClaimDueWatch,
           CronClaimsDone, CronEnqueues, storeVars
  <2>8. ASSUME NEW a \in Consumers, ConsumerSteps(a)
        PROVE  Finishes /\ Observes
    BY <2>3, <2>4, <2>5, <2>6, <2>8
       DEF Actors, ConsumerSteps, Receive, Load, Searches, CompletionRefused, storeVars
  <2>9. ASSUME NEW a \in Actors, CallFails(a) \/ Dies(a)
        PROVE  Finishes /\ Observes
    BY <2>5, <2>9 DEF CallFails, Dies, storeVars
  <2>10. CASE AddWatch \/ RemoveWatch \/ Advance
    BY <2>5, <2>10 DEF AddWatch, CreateWatch, RemoveWatch, DeleteWatch, Advance, storeVars
  <2> QED
    BY <2>7, <2>8, <2>9, <2>10 DEF CloudNext
<1> QED
  BY <1>1, ScheduleAlways, PTL DEF CloudSpec, CloudOccurrences

-----------------------------------------------------------------------------
(* Webhook requests *)

\* The invocations about to make a request for a row that is still there.
Attempters == {a \in Actors : At(a, "send") /\ a \notin detached}

Attempting(w, run) ==
  {a \in Attempters : actor[a].dwatch = w /\ actor[a].drun = run}

\* The requests made for a delivery and the ones about to be made.
Used(w, run) == Cardinality(SendsOf(w, run)) + Cardinality(Attempting(w, run))

\* What was sent, and what is about to be, is of a delivery in the outbox.
SendsKnown ==
  /\ \A a \in detached : a \in Actors /\ At(a, "send")
  /\ \A s \in sent : \E d \in deliveries : d.watch = s.watch /\ d.run = s.run
  /\ \A a \in Attempters :
       \E d \in deliveries : d.watch = actor[a].dwatch /\ d.run = actor[a].drun

\* The inductive invariant: a request that is about to be made has been counted,
\* and was allowed by the limit.
RequestInv ==
  /\ SendsKnown
  /\ IsFiniteSet(sent) /\ IsFiniteSet(Attempters)
  /\ \A d \in deliveries :
       Used(d.watch, d.run) <= d.attempts /\ Used(d.watch, d.run) <= MaxAttempts

\* The counts are numbers.
LEMMA UsedFacts ==
  ASSUME IsFiniteSet(sent), IsFiniteSet(Attempters), NEW w, NEW run
  PROVE  /\ IsFiniteSet(SendsOf(w, run)) /\ IsFiniteSet(Attempting(w, run))
         /\ Cardinality(SendsOf(w, run)) \in Nat /\ Cardinality(Attempting(w, run)) \in Nat
         /\ Used(w, run) \in Nat
<1>1. SendsOf(w, run) \in SUBSET sent /\ Attempting(w, run) \in SUBSET Attempters
  BY DEF SendsOf, Attempting
<1>2. IsFiniteSet(SendsOf(w, run)) /\ IsFiniteSet(Attempting(w, run))
  BY <1>1, FS_Subset
<1>3. Cardinality(SendsOf(w, run)) \in Nat /\ Cardinality(Attempting(w, run)) \in Nat
  BY <1>2, FS_CardinalityType
<1> QED
  BY <1>2, <1>3 DEF Used

\* A step that makes no request and begins no attempt, lowers no count, and takes
\* no row away without the requests and the attempts of it.
LEMMA NoMoreAttempts ==
  ASSUME TypeOK, TypeOK', RequestInv, sent' \subseteq sent,
         Attempters' \subseteq Attempters, SendsKnown',
         \A a \in Attempters' : actor'[a] = actor[a],
         \A f \in deliveries' :
           \/ SendsOf(f.watch, f.run) = {} /\ Attempting(f.watch, f.run) = {}
           \/ \E d \in deliveries :
                d.watch = f.watch /\ d.run = f.run /\ d.attempts <= f.attempts
  PROVE  RequestInv'
<1>1. sent' \in SUBSET sent /\ Attempters' \in SUBSET Attempters
  OBVIOUS
<1>2. IsFiniteSet(sent)' /\ IsFiniteSet(Attempters)'
  BY <1>1, FS_Subset DEF RequestInv
<1>3. ASSUME NEW f \in deliveries'
      PROVE  Used(f.watch, f.run)' <= f.attempts /\ Used(f.watch, f.run)' <= MaxAttempts
  <2> DEFINE w == f.watch
             run == f.run
  <2>1. /\ SendsOf(w, run)' \in SUBSET SendsOf(w, run)
        /\ Attempting(w, run)' \in SUBSET Attempting(w, run)
    BY DEF SendsOf, Attempting
  <2>2. /\ IsFiniteSet(SendsOf(w, run)) /\ IsFiniteSet(Attempting(w, run))
        /\ Cardinality(SendsOf(w, run)) \in Nat /\ Cardinality(Attempting(w, run)) \in Nat
    BY UsedFacts DEF RequestInv
  <2>3. /\ Cardinality(SendsOf(w, run)') <= Cardinality(SendsOf(w, run))
        /\ Cardinality(Attempting(w, run)') <= Cardinality(Attempting(w, run))
        /\ IsFiniteSet(SendsOf(w, run)') /\ IsFiniteSet(Attempting(w, run)')
    BY <2>1, <2>2, FS_Subset
  <2>4. Cardinality(SendsOf(w, run)') \in Nat /\ Cardinality(Attempting(w, run)') \in Nat
    BY <2>3, FS_CardinalityType
  <2>5. Used(w, run)' = Cardinality(SendsOf(w, run)') + Cardinality(Attempting(w, run)')
    BY DEF Used
  <2>6. Used(w, run)' <= Used(w, run) /\ Used(w, run)' \in Nat /\ Used(w, run) \in Nat
    BY <2>2, <2>3, <2>4, <2>5 DEF Used
  <2>7. f.attempts \in Nat /\ MaxAttempts \in Nat
    BY StoreAssumption DEF TypeOK, DeliveryRow
  <2>8. CASE SendsOf(w, run) = {} /\ Attempting(w, run) = {}
    <3>1. Used(w, run) = 0
      BY <2>8, FS_EmptySet DEF Used
    <3> QED
      BY <2>6, <2>7, <3>1
  <2>9. ASSUME NEW d \in deliveries, d.watch = w, d.run = run, d.attempts <= f.attempts
        PROVE  Used(w, run)' <= f.attempts /\ Used(w, run)' <= MaxAttempts
    <3>1. Used(w, run) <= d.attempts /\ Used(w, run) <= MaxAttempts /\ d.attempts \in Nat
      BY <2>9 DEF RequestInv, TypeOK, DeliveryRow
    <3> QED
      BY <2>6, <2>7, <2>9, <3>1
  <2> QED
    BY <2>8, <2>9
<1> QED
  BY <1>2, <1>3 DEF RequestInv

\* Invocation a goes on without beginning an attempt; if it was making one, it is
\* no longer detached.  No row leaves the outbox, no count is lowered.
LEMMA QuietForRequests ==
  ASSUME TypeOK, TypeOK', RequestInv, NEW a \in Actors, NEW r, Becomes(a, r), r.pc # "send",
         UNCHANGED sent,
         \/ detached' = detached \ {a}
         \/ detached' = detached /\ ~At(a, "send"),
         \A d \in deliveries : \E f \in deliveries' : f.watch = d.watch /\ f.run = d.run,
         \A f \in deliveries' :
           \/ SendsOf(f.watch, f.run) = {} /\ Attempting(f.watch, f.run) = {}
           \/ \E d \in deliveries :
                d.watch = f.watch /\ d.run = f.run /\ d.attempts <= f.attempts
  PROVE  RequestInv'
<1>1. a \notin Attempters' /\ \A b \in Attempters' : b \in Attempters /\ actor'[b] = actor[b]
  BY DEF Attempters, Becomes, At
<1>2. SendsKnown
  BY DEF RequestInv
<1>3. \A b \in detached' : b \in Actors /\ At(b, "send")'
  BY <1>2 DEF SendsKnown, Becomes, At
<1>4. SendsKnown'
  BY <1>1, <1>2, <1>3 DEF SendsKnown
<1> QED
  BY <1>1, <1>4, NoMoreAttempts

\* A claim counts the attempt it allows.
LEMMA ClaimKeepsRequests ==
  ASSUME TypeOK, TypeOK', ActorsOK, OutboxInv, RequestInv, NEW a \in Actors, ClaimsDelivery(a)
  PROVE  RequestInv'
<1>1. PICK d \in deliveries, o \in Owners \ used, r \in ActorRow :
           /\ ClaimPendingDelivery(d, actor[a].now, o, DeliveryLease)
           /\ Becomes(a, r)
           /\ \/ r.pc \in {"idle", "settle"}
              \/ /\ r.pc = "send" /\ d.attempts + 1 <= MaxAttempts
                 /\ r.dwatch = d.watch /\ r.drun = d.run
  BY ClaimsDeliveryFacts, IdleFacts
<1>2. At(a, "claimDelivery") /\ UNCHANGED <<sent, detached>>
  BY DEF ClaimsDelivery, history
<1>3. PICK c \in deliveries' :
           /\ deliveries' = (deliveries \ {d}) \cup {c}
           /\ c.watch = d.watch /\ c.run = d.run /\ c.attempts = d.attempts + 1
  <2> DEFINE c == ClaimedRow(d, actor[a].now, o, DeliveryLease)
  <2>1. c.watch = d.watch /\ c.run = d.run /\ c.attempts = d.attempts + 1
    BY DEF TypeOK, DeliveryRow, ClaimedRow
  <2>2. deliveries' = (deliveries \ {d}) \cup {c}
    BY <1>1 DEF ClaimPendingDelivery, Replace
  <2> HIDE DEF c
  <2> QED
    BY <2>1, <2>2
<1>4. d.attempts \in Nat /\ MaxAttempts \in Nat
  BY StoreAssumption DEF TypeOK, DeliveryRow
<1>5. /\ \A e \in deliveries : \E f \in deliveries' : f.watch = e.watch /\ f.run = e.run
      /\ \A f \in deliveries' : \E e \in deliveries :
           e.watch = f.watch /\ e.run = f.run /\ e.attempts <= f.attempts
  <2>1. \A f \in deliveries : f.attempts \in Nat
    BY DEF TypeOK, DeliveryRow
  <2> QED
    BY <1>3, <1>4, <2>1
<1>6. CASE r.pc # "send"
  BY <1>1, <1>2, <1>5, <1>6, QuietForRequests DEF At
<1>7. CASE r.pc = "send"
  <2>0. d.attempts + 1 <= MaxAttempts /\ r.dwatch = d.watch /\ r.drun = d.run
    BY <1>1, <1>7
  <2>1. SendsKnown
    BY DEF RequestInv
  <2>2. a \notin detached /\ a \notin Attempters
    BY <1>2, <2>1 DEF SendsKnown, At, Attempters
  <2>3. /\ Attempters' = Attempters \cup {a} /\ actor'[a] = r
        /\ \A b \in Attempters : actor'[b] = actor[b]
    BY <1>1, <1>2, <1>7, <2>2 DEF Attempters, Becomes, At
  <2>4. SendsKnown'
    <3>1. \A b \in detached' : b \in Actors /\ At(b, "send")'
      BY <1>1, <1>2, <2>1, <2>2 DEF SendsKnown, Becomes, At
    <3>2. \A s \in sent' : \E f \in deliveries' : f.watch = s.watch /\ f.run = s.run
      BY <1>2, <1>5, <2>1 DEF SendsKnown
    <3>3. \A b \in Attempters' :
            \E f \in deliveries' : f.watch = actor'[b].dwatch /\ f.run = actor'[b].drun
      BY <1>3, <1>5, <2>0, <2>1, <2>3 DEF SendsKnown
    <3> QED
      BY <3>1, <3>2, <3>3 DEF SendsKnown
  <2>5. IsFiniteSet(sent)' /\ IsFiniteSet(Attempters)'
    BY <1>2, <2>3, FS_AddElement DEF RequestInv
  <2>6. Used(c.watch, c.run)' <= c.attempts /\ Used(c.watch, c.run)' <= MaxAttempts
    <3> DEFINE w == d.watch
               run == d.run
    <3>1. Attempting(w, run)' = Attempting(w, run) \cup {a} /\ a \notin Attempting(w, run)
      BY <2>0, <2>2, <2>3 DEF Attempting
    <3>2. SendsOf(w, run)' = SendsOf(w, run)
      BY <1>2 DEF SendsOf
    <3>3. /\ IsFiniteSet(Attempting(w, run)) /\ Cardinality(SendsOf(w, run)) \in Nat
          /\ Cardinality(Attempting(w, run)) \in Nat /\ Used(w, run) \in Nat
      BY UsedFacts DEF RequestInv
    <3>4. Cardinality(Attempting(w, run)') = Cardinality(Attempting(w, run)) + 1
      BY <3>1, <3>3, FS_AddElement
    <3>5. Used(w, run)' = Cardinality(SendsOf(w, run)') + Cardinality(Attempting(w, run)')
      BY DEF Used
    <3>6. Used(w, run)' = Used(w, run) + 1
      BY <3>2, <3>3, <3>4, <3>5 DEF Used
    <3>7. Used(w, run) <= d.attempts
      BY DEF RequestInv
    <3> HIDE DEF w, run
    <3>8. Used(w, run)' <= c.attempts /\ Used(w, run)' <= MaxAttempts
      BY <1>3, <1>4, <2>0, <3>3, <3>6, <3>7
    <3> QED
      BY <1>3, <3>8 DEF w, run
  <2>7. ASSUME NEW f \in deliveries, f # d
        PROVE  Used(f.watch, f.run)' <= f.attempts /\ Used(f.watch, f.run)' <= MaxAttempts
    <3>1. ~(f.watch = d.watch /\ f.run = d.run)
      BY <2>7 DEF OutboxInv, KeysUnique
    <3>2. Attempting(f.watch, f.run)' = Attempting(f.watch, f.run)
      BY <2>0, <2>3, <3>1 DEF Attempting
    <3>3. SendsOf(f.watch, f.run)' = SendsOf(f.watch, f.run)
      BY <1>2 DEF SendsOf
    <3>4. Used(f.watch, f.run)' = Used(f.watch, f.run)
      BY <3>2, <3>3 DEF Used
    <3> QED
      BY <3>4 DEF RequestInv
  <2> QED
    BY <1>3, <2>4, <2>5, <2>6, <2>7 DEF RequestInv
<1> QED
  BY <1>6, <1>7

\* A request takes the place of the attempt it was; one of a deleted row is not
\* recorded.
LEMMA SendKeepsRequests ==
  ASSUME TypeOK, TypeOK', ActorsOK, RequestInv, NEW a \in Actors, Sends(a)
  PROVE  RequestInv'
<1> DEFINE s == [watch |-> actor[a].dwatch, run |-> actor[a].drun,
                 n |-> Cardinality(SendsOf(actor[a].dwatch, actor[a].drun)) + 1]
<1>0. s.watch = actor[a].dwatch /\ s.run = actor[a].drun
  OBVIOUS
<1>1. sent' = IF a \in detached THEN sent ELSE sent \cup {s}
  BY DEF Sends
<1> HIDE DEF s
<1>2. PICK r : Becomes(a, r) /\ r.pc = "settle"
  BY SendsFacts
<1>3. detached' = detached \ {a} /\ deliveries' = deliveries /\ At(a, "send")
  BY DEF Sends, storeVars
<1>4. \A f \in deliveries : f.attempts <= f.attempts
  BY DEF TypeOK, DeliveryRow
<1>5. CASE a \in detached
  <2>1. UNCHANGED sent
    BY <1>1, <1>5
  <2> QED
    BY <1>2, <1>3, <1>4, <2>1, QuietForRequests
<1>6. CASE a \notin detached
  <2>1. /\ Attempters' = Attempters \ {a} /\ a \in Attempters
        /\ \A b \in Attempters' : actor'[b] = actor[b]
    BY <1>2, <1>3, <1>6 DEF Attempters, Becomes, At
  <2>2. SendsKnown
    BY DEF RequestInv
  <2>3. SendsKnown'
    <3>1. \A b \in detached' : b \in Actors /\ At(b, "send")'
      BY <1>2, <1>3, <2>2 DEF SendsKnown, Becomes, At
    <3>2. \A z \in sent' : \E f \in deliveries' : f.watch = z.watch /\ f.run = z.run
      BY <1>0, <1>1, <1>3, <1>6, <2>1, <2>2 DEF SendsKnown
    <3>3. \A b \in Attempters' :
            \E f \in deliveries' : f.watch = actor'[b].dwatch /\ f.run = actor'[b].drun
      BY <1>3, <2>1, <2>2 DEF SendsKnown
    <3> QED
      BY <3>1, <3>2, <3>3 DEF SendsKnown
  <2>4. IsFiniteSet(sent)' /\ IsFiniteSet(Attempters)'
    BY <1>1, <1>6, <2>1, FS_AddElement, FS_Subset DEF RequestInv
  <2>5. ASSUME NEW f \in deliveries
        PROVE  Used(f.watch, f.run)' <= Used(f.watch, f.run) /\ Used(f.watch, f.run)' \in Nat
    <3> DEFINE w == f.watch
               run == f.run
    <3>1. /\ IsFiniteSet(SendsOf(w, run)) /\ IsFiniteSet(Attempting(w, run))
          /\ Cardinality(SendsOf(w, run)) \in Nat /\ Cardinality(Attempting(w, run)) \in Nat
      BY UsedFacts DEF RequestInv
    <3>2. Used(w, run)' = Cardinality(SendsOf(w, run)') + Cardinality(Attempting(w, run)')
      BY DEF Used
    <3>3. CASE actor[a].dwatch = w /\ actor[a].drun = run
      <4>1. SendsOf(w, run)' = SendsOf(w, run) \cup {s}
        BY <1>0, <1>1, <1>6, <3>3 DEF SendsOf
      <4>2. Attempting(w, run)' = Attempting(w, run) \ {a} /\ a \in Attempting(w, run)
        BY <2>1, <3>3 DEF Attempting
      <4>3. Cardinality(SendsOf(w, run)') \in {Cardinality(SendsOf(w, run)),
                                              Cardinality(SendsOf(w, run)) + 1}
        BY <3>1, <4>1, FS_AddElement
      <4>4. /\ Cardinality(Attempting(w, run)') = Cardinality(Attempting(w, run)) - 1
            /\ IsFiniteSet(Attempting(w, run)')
        BY <3>1, <4>2, FS_RemoveElement
      <4>5. Cardinality(Attempting(w, run)') \in Nat
        BY <4>4, FS_CardinalityType
      <4> QED
        BY <3>1, <3>2, <4>3, <4>4, <4>5 DEF Used
    <3>4. CASE ~(actor[a].dwatch = w /\ actor[a].drun = run)
      <4>1. SendsOf(w, run)' = SendsOf(w, run)
        BY <1>0, <1>1, <1>6, <3>4 DEF SendsOf
      <4>2. Attempting(w, run)' = Attempting(w, run)
        BY <2>1, <3>4 DEF Attempting
      <4> QED
        BY <3>1, <3>2, <4>1, <4>2 DEF Used
    <3> QED
      BY <3>3, <3>4
  <2>6. ASSUME NEW f \in deliveries
        PROVE  Used(f.watch, f.run)' <= f.attempts /\ Used(f.watch, f.run)' <= MaxAttempts
    <3>1. f.attempts \in Nat /\ MaxAttempts \in Nat /\ Used(f.watch, f.run) \in Nat
      BY StoreAssumption, UsedFacts DEF TypeOK, DeliveryRow, RequestInv
    <3>2. Used(f.watch, f.run) <= f.attempts /\ Used(f.watch, f.run) <= MaxAttempts
      BY DEF RequestInv
    <3>3. Used(f.watch, f.run)' <= Used(f.watch, f.run) /\ Used(f.watch, f.run)' \in Nat
      BY <2>5
    <3> QED
      BY <3>1, <3>2, <3>3
  <2> QED
    BY <1>3, <2>3, <2>4, <2>6 DEF RequestInv
<1> QED
  BY <1>5, <1>6

\* A row that is queued is new: nothing was sent under its key, and nobody is
\* about to.
LEMMA QueueKeepsRequests ==
  ASSUME TypeOK, TypeOK', ActorsOK, OutboxInv, RequestInv, NEW c \in Actors, Completes(c)
  PROVE  RequestInv'
<1> DEFINE w == actor[c].watch
           run == actor[c].owner
           e == NewDelivery(w, run, actor[c].config, NewRecords(w, actor[c].seen),
                            actor[c].now)
<1>1. RunningRun(w, run, run) # {}
  BY DEF Completes, CompleteWatchRun
<1>2. DeliveryOf(w, run) = {}
  BY <1>1, CompletingRunHasNoBatch
<1>3. deliveries' = deliveries \/ deliveries' = deliveries \cup {e}
  BY DEF Completes, CompleteWatchRun, InsertRunDelivery
<1>4. e.watch = w /\ e.run = run
  BY DEF NewDelivery
<1>5. SendsOf(w, run) = {} /\ Attempting(w, run) = {}
  BY <1>2 DEF RequestInv, SendsKnown, SendsOf, Attempting, DeliveryOf
<1> HIDE DEF e
<1>6. PICK r : Becomes(c, r) /\ r.pc \in {"deliver", "idle"}
  BY CompletesFacts
<1>7. UNCHANGED <<sent, detached>> /\ ~At(c, "send")
  BY DEF Completes, history, At
<1>8. \A f \in deliveries : f.attempts <= f.attempts
  BY DEF TypeOK, DeliveryRow
<1>9. \A f \in deliveries' :
        \/ SendsOf(f.watch, f.run) = {} /\ Attempting(f.watch, f.run) = {}
        \/ f \in deliveries
  BY <1>3, <1>4, <1>5
<1>10. \A d \in deliveries : d \in deliveries'
  BY <1>3
<1> QED
  BY <1>6, <1>7, <1>8, <1>9, <1>10, QuietForRequests

\* A deletion takes the requests of the watch with it and detaches the attempts.
LEMMA RemoveKeepsRequests ==
  ASSUME TypeOK, TypeOK', RequestInv, RemoveWatch
  PROVE  RequestInv'
<1>1. PICK x \in watches :
        /\ deliveries' = {d \in deliveries : d.watch # x.id}
        /\ sent' = {s \in sent : s.watch # x.id}
        /\ detached' = detached \cup {a \in Actors : At(a, "send") /\ actor[a].dwatch = x.id}
        /\ actor' = actor
  BY DEF RemoveWatch, DeleteWatch
<1>2. SendsKnown'
  BY <1>1 DEF RequestInv, SendsKnown, Attempters, At
<1>3. Attempters' \subseteq Attempters /\ sent' \subseteq sent
  BY <1>1 DEF Attempters, At
<1>4. \A f \in deliveries' : f \in deliveries /\ f.attempts <= f.attempts
  BY <1>1 DEF TypeOK, DeliveryRow
<1> QED
  BY <1>1, <1>2, <1>3, <1>4, NoMoreAttempts

\* Every step, by kind.
LEMMA RequestStep ==
  TypeOK /\ ActorsOK /\ OutboxInv /\ RequestInv /\ [CloudNext]_cloudVars => RequestInv'
<1> SUFFICES ASSUME TypeOK, ActorsOK, OutboxInv, RequestInv, [CloudNext]_cloudVars
             PROVE  RequestInv'
  OBVIOUS
<1>0. TypeOK'
  BY StoreStep, TypeStep
<1>1. \A f \in deliveries : f.attempts <= f.attempts
  BY DEF TypeOK, DeliveryRow
<1>2. CASE Routine
  BY <1>0, <1>1, <1>2, QuietForRequests DEF Routine
<1>3. ASSUME NEW a \in Actors, Receive(a)
      PROVE  RequestInv'
  <2>1. PICK r : Becomes(a, r) /\ r.pc = "start"
    BY <1>3, ReceiveFacts
  <2>2. UNCHANGED <<deliveries, sent, detached>> /\ ~At(a, "send")
    BY <1>3 DEF Receive, storeVars, history, At
  <2> QED
    BY <1>0, <1>1, <2>1, <2>2, QuietForRequests
<1>4. ASSUME NEW a \in Actors, CronClaims(a)
      PROVE  RequestInv'
  <2>1. PICK x \in watches, o \in Owners \ used, r \in ActorRow :
          /\ ClaimDueWatch(x, actor[a].now, o, LeaseSeconds)
          /\ Becomes(a, r) /\ r.pc \in {"idle", "enqueue"}
    BY <1>4, CronClaimsFacts, IdleFacts
  <2>2. UNCHANGED <<deliveries, sent, detached>> /\ ~At(a, "send")
    BY <1>4, <2>1 DEF CronClaims, ClaimDueWatch, history, At
  <2> QED
    BY <1>0, <1>1, <2>1, <2>2, QuietForRequests
<1>5. ASSUME NEW a \in Actors, Oversized(a) \/ Dies(a)
      PROVE  RequestInv'
  <2>1. PICK r : Becomes(a, r) /\ r.pc \in {"settle", "idle"}
    BY <1>5, SendsFacts, EndFacts, IdleFacts DEF Dies
  <2>2. UNCHANGED <<deliveries, sent>> /\ detached' = detached \ {a}
    BY <1>5 DEF Oversized, Dies, storeVars
  <2> QED
    BY <1>0, <1>1, <2>1, <2>2, QuietForRequests
<1>6. ASSUME NEW a \in Actors, Settles(a)
      PROVE  RequestInv'
  <2>1. Becomes(a, Idle)
    BY <1>6, EndFacts DEF Settles, Ack, Retry
  <2>2. PICK d \in deliveries :
          deliveries' = Replace(deliveries, d, CompletedRow(d, actor[a].now, actor[a].ok))
    BY <1>6 DEF Settles, CompleteDelivery, DeliveryUnderLease, DeliveryOf
  <2> DEFINE c == CompletedRow(d, actor[a].now, actor[a].ok)
  <2>3. c.watch = d.watch /\ c.run = d.run /\ c.attempts = d.attempts
    BY DEF TypeOK, DeliveryRow, CompletedRow
  <2>4. deliveries' = (deliveries \ {d}) \cup {c}
    BY <2>2 DEF Replace
  <2> HIDE DEF c
  <2>5. UNCHANGED <<sent, detached>> /\ ~At(a, "send")
    BY <1>6 DEF Settles, history, At
  <2>6. /\ \A e \in deliveries : \E f \in deliveries' : f.watch = e.watch /\ f.run = e.run
        /\ \A f \in deliveries' : \E e \in deliveries :
             e.watch = f.watch /\ e.run = f.run /\ e.attempts <= f.attempts
    BY <1>1, <2>3, <2>4
  <2> QED
    BY <1>0, <2>1, <2>5, <2>6, IdleFacts, QuietForRequests
<1>7. CASE AddWatch \/ Advance \/ UNCHANGED cloudVars
  <2>1. UNCHANGED <<deliveries, sent, detached, actor>>
    BY <1>7 DEF AddWatch, CreateWatch, Advance, cloudVars, storeVars, history
  <2> QED
    BY <2>1 DEF RequestInv, SendsKnown, Attempters, Attempting, Used, SendsOf, At
<1> QED
  BY <1>0, <1>2, <1>3, <1>4, <1>5, <1>6, <1>7, StepKinds, ClaimKeepsRequests,
     SendKeepsRequests, QueueKeepsRequests, RemoveKeepsRequests

\* At most MaxAttempts requests are made for a delivery, and each was counted in its
\* row before it left, over all invocations, lost answers and repeated messages.
\* Unlike in comsat serve no condition on the faults is needed: every claim draws a
\* token of its own and is handed the very row it has claimed.
THEOREM WorkerCountsRequests == CloudSpec => []CloudSendsCounted
<1>1. CloudInit => RequestInv
  <2> SUFFICES ASSUME CloudInit
               PROVE  RequestInv
    OBVIOUS
  <2>1. deliveries = {} /\ sent = {} /\ detached = {} /\ actor = [a \in Actors |-> Idle]
    BY DEF CloudInit, Init
  <2>2. Attempters = {}
    BY <2>1, IdleFacts DEF Attempters, At
  <2> QED
    BY <2>1, <2>2, FS_EmptySet DEF RequestInv, SendsKnown
<1>2. TypeOK /\ RequestInv => CloudSendsCounted
  <2> SUFFICES ASSUME TypeOK, RequestInv, NEW d \in deliveries
               PROVE  /\ Cardinality(SendsOf(d.watch, d.run)) <= d.attempts
                      /\ Cardinality(SendsOf(d.watch, d.run)) <= MaxAttempts
    BY DEF CloudSendsCounted
  <2>1. /\ Cardinality(SendsOf(d.watch, d.run)) \in Nat
        /\ Cardinality(Attempting(d.watch, d.run)) \in Nat
    BY UsedFacts DEF RequestInv
  <2>2. /\ Used(d.watch, d.run) <= d.attempts /\ Used(d.watch, d.run) <= MaxAttempts
        /\ d.attempts \in Nat /\ MaxAttempts \in Nat
    BY StoreAssumption DEF RequestInv, TypeOK, DeliveryRow
  <2> QED
    BY <2>1, <2>2 DEF Used
<1> QED
  BY <1>1, <1>2, RequestStep, ScheduleAlways, PTL DEF CloudSpec

-----------------------------------------------------------------------------
(* D1 implements the store *)

\* The tables as one value, for the statements of a batch.
Content(w, r, c, h, d, f) ==
  [watches |-> w, runs |-> r, records |-> c, watchRecords |-> h, deliveries |-> d,
   finished |-> f]

\* A table of the content is what it was made of.
LEMMA ContentTables ==
  ASSUME NEW w, NEW r, NEW c, NEW h, NEW d, NEW f
  PROVE  /\ Content(w, r, c, h, d, f).watches = w
         /\ Content(w, r, c, h, d, f).runs = r
         /\ Content(w, r, c, h, d, f).records = c
         /\ Content(w, r, c, h, d, f).watchRecords = h
         /\ Content(w, r, c, h, d, f).deliveries = d
         /\ Content(w, r, c, h, d, f).finished = f
BY DEF Content

\* The lease owner of every watch and of every run was drawn by a claim.
OwnersDrawn ==
  /\ \A x \in watches : x.owner # NULL => x.owner \in usedOwners
  /\ \A r \in runs : r.owner \in usedOwners

\* The owner a run was finished under has let go of the watch, for good.
FinishedLetGo ==
  \A r \in runs, x \in watches :
    r.watch = x.id /\ r.status # "running" => x.owner # r.owner

D1Inv == TypeOK /\ OutboxInv /\ OwnersDrawn /\ FinishedLetGo

\* A batch whose fence does not hold does nothing.  The last statement is the one
\* that could: it finds the run finished at the very time it passes, if an earlier
\* batch has finished it then; but that batch has given the lease up, and no claim
\* draws the same owner again.
LEMMA FencedOff ==
  ASSUME D1Inv, NEW q \in Request, ~Fence(Tables, q)
  PROVE  Batch(Tables, q) = Tables
<1> DEFINE t == Tables
<1>0. /\ t = Content(watches, runs, records, watchRecords, deliveries, finished)
      /\ t.watches = watches /\ t.runs = runs /\ t.finished = finished
      /\ [t EXCEPT !.records = t.records] = t
      /\ [t EXCEPT !.watchRecords = t.watchRecords] = t
      /\ [t EXCEPT !.deliveries = t.deliveries] = t
      /\ [t EXCEPT !.watches = t.watches] = t
      /\ [t EXCEPT !.runs = t.runs, !.finished = t.finished] = t
  BY DEF Tables, Content
<1>1. /\ InsertRecords(t, q) = t /\ UpdateRecords(t, q) = t /\ InsertDelivery(t, q) = t
      /\ InsertWatchRecords(t, q) = t /\ UpdateWatchRecords(t, q) = t
  BY <1>0, Zenon
     DEF InsertRecords, UpdateRecords, InsertDelivery, InsertWatchRecords, UpdateWatchRecords
<1>2. Observations(t, q) = t
  BY <1>1 DEF Observations
<1>3. \A r \in t.runs : ~CompletesRun(t, r, q)
  BY <1>0 DEF CompletesRun, Fence
<1>4. FinishRunRow(t, q) = t
  <2>1. {IF CompletesRun(t, r, q) THEN [r EXCEPT !.status = q.status] ELSE r : r \in t.runs}
          = t.runs
    BY <1>3
  <2>2. t.finished \cup {<<r.watch, r.run, q.now>> :
                           r \in {s \in t.runs : CompletesRun(t, s, q)}} = t.finished
    BY <1>3
  <2> QED
    BY <1>0, <2>1, <2>2, Zenon DEF FinishRunRow
<1>5. \A x \in t.watches : ~CompletesWatch(t, x, q)
  <2> SUFFICES ASSUME NEW x \in watches, NEW r \in runs, HeldBy(x, q), RunFor(r, q),
                      r.status \in Outcomes
               PROVE  FALSE
    BY <1>0 DEF CompletesWatch
  <2>1. r.watch = x.id /\ x.owner = r.owner /\ r.status # "running"
    BY DEF HeldBy, LeaseHeld, RunFor, Outcomes
  <2> QED
    BY <2>1 DEF D1Inv, FinishedLetGo
<1>6. FinishWatchRow(t, q) = t
  <2>1. {IF CompletesWatch(t, x, q)
         THEN [x EXCEPT !.nextDue = q.now + x.interval, !.owner = NULL, !.expires = NULL]
         ELSE x : x \in t.watches} = t.watches
    BY <1>5
  <2> QED
    BY <1>0, <2>1, Zenon DEF FinishWatchRow
<1> QED
  BY <1>2, <1>4, <1>6 DEF Batch

\* What the statements of a batch make of the tables of a request under its fence.
RecordsIn(c, q) ==
  c \cup {[record |-> s, first |-> q.now, last |-> q.now] :
            s \in {i \in q.seen : \A x \in c : x.record # i}}

RecordsOut(c, q) ==
  {IF x.record \in q.seen THEN [x EXCEPT !.last = q.now] ELSE x : x \in c}

HistoryIn(h, q, new) ==
  h \cup {[watch |-> q.watch, record |-> i, first |-> q.now, last |-> q.now] : i \in new}

HistoryOut(h, q) ==
  {IF x.watch = q.watch /\ x.record \in q.seen THEN [x EXCEPT !.last = q.now] ELSE x : x \in h}

QueueOut(d, q, new) ==
  IF \/ q.target = NULL \/ new = {} \/ \E e \in d : e.watch = q.watch /\ e.run = q.run
  THEN d ELSE d \cup {NewDelivery(q.watch, q.run, q.target, new, q.now)}

\* The record statements of a batch under its fence: none of them touches the
\* tables of the fence, so it holds for each.
LEMMA FencedObservations ==
  ASSUME NEW q \in Request, NEW w, NEW r, NEW c, NEW h, NEW d, NEW f,
         Fence(Content(w, r, c, h, d, f), q)
  PROVE  LET new == {i \in q.seen : \A x \in h : ~(x.watch = q.watch /\ x.record = i)}
         IN  Observations(Content(w, r, c, h, d, f), q)
               = Content(w, r, RecordsOut(RecordsIn(c, q), q),
                         HistoryOut(HistoryIn(h, q, new), q), QueueOut(d, q, new), f)
<1> DEFINE new == {i \in q.seen : \A x \in h : ~(x.watch = q.watch /\ x.record = i)}
           c1 == RecordsIn(c, q)
           c2 == RecordsOut(c1, q)
           h1 == HistoryIn(h, q, new)
           h2 == HistoryOut(h1, q)
           d1 == QueueOut(d, q, new)
<1>1. \A cc, hh, dd : Fence(Content(w, r, cc, hh, dd, f), q)
  BY ContentTables DEF Fence
<1>2. \A cc, hh, dd : InsertRecords(Content(w, r, cc, hh, dd, f), q)
                 = Content(w, r, RecordsIn(cc, q), hh, dd, f)
  <2> SUFFICES ASSUME NEW cc, NEW hh, NEW dd
               PROVE  InsertRecords(Content(w, r, cc, hh, dd, f), q)
                        = Content(w, r, RecordsIn(cc, q), hh, dd, f)
    OBVIOUS
  <2>1. Content(w, r, cc, hh, dd, f).records = cc /\ Fence(Content(w, r, cc, hh, dd, f), q)
    BY <1>1, ContentTables
  <2>2. [Content(w, r, cc, hh, dd, f) EXCEPT !.records = RecordsIn(cc, q)]
          = Content(w, r, RecordsIn(cc, q), hh, dd, f)
    BY DEF Content
  <2> QED
    BY <2>1, <2>2, Zenon DEF InsertRecords, RecordsIn
<1>3. \A cc, hh, dd : UpdateRecords(Content(w, r, cc, hh, dd, f), q)
                 = Content(w, r, RecordsOut(cc, q), hh, dd, f)
  <2> SUFFICES ASSUME NEW cc, NEW hh, NEW dd
               PROVE  UpdateRecords(Content(w, r, cc, hh, dd, f), q)
                        = Content(w, r, RecordsOut(cc, q), hh, dd, f)
    OBVIOUS
  <2>1. Content(w, r, cc, hh, dd, f).records = cc /\ Fence(Content(w, r, cc, hh, dd, f), q)
    BY <1>1, ContentTables
  <2>2. [Content(w, r, cc, hh, dd, f) EXCEPT !.records = RecordsOut(cc, q)]
          = Content(w, r, RecordsOut(cc, q), hh, dd, f)
    BY DEF Content
  <2> QED
    BY <2>1, <2>2, Zenon DEF UpdateRecords, RecordsOut
<1>4. \A cc, dd : Unseen(Content(w, r, cc, h, dd, f), q) = new
  <2> SUFFICES ASSUME NEW cc, NEW dd
               PROVE  Unseen(Content(w, r, cc, h, dd, f), q) = new
    OBVIOUS
  <2>1. Content(w, r, cc, h, dd, f).watchRecords = h
    BY ContentTables
  <2> QED
    BY <2>1, Zenon DEF Unseen
<1>5. \A cc, dd : InsertDelivery(Content(w, r, cc, h, dd, f), q)
                    = Content(w, r, cc, h, QueueOut(dd, q, new), f)
  <2> SUFFICES ASSUME NEW cc, NEW dd
               PROVE  InsertDelivery(Content(w, r, cc, h, dd, f), q)
                        = Content(w, r, cc, h, QueueOut(dd, q, new), f)
    OBVIOUS
  <2>1. /\ Content(w, r, cc, h, dd, f).deliveries = dd
        /\ Unseen(Content(w, r, cc, h, dd, f), q) = new
        /\ Fence(Content(w, r, cc, h, dd, f), q)
    BY <1>1, <1>4, ContentTables
  <2>2. [Content(w, r, cc, h, dd, f) EXCEPT !.deliveries = QueueOut(dd, q, new)]
          = Content(w, r, cc, h, QueueOut(dd, q, new), f)
    BY DEF Content
  <2> HIDE DEF new
  <2> QED
    BY <2>1, <2>2, Zenon DEF InsertDelivery, QueueOut
<1>6. \A cc, dd : InsertWatchRecords(Content(w, r, cc, h, dd, f), q)
                 = Content(w, r, cc, h1, dd, f)
  <2> SUFFICES ASSUME NEW cc, NEW dd
               PROVE  InsertWatchRecords(Content(w, r, cc, h, dd, f), q)
                        = Content(w, r, cc, h1, dd, f)
    OBVIOUS
  <2>1. /\ Content(w, r, cc, h, dd, f).watchRecords = h
        /\ Unseen(Content(w, r, cc, h, dd, f), q) = new /\ Fence(Content(w, r, cc, h, dd, f), q)
    BY <1>1, <1>4, ContentTables
  <2>2. [Content(w, r, cc, h, dd, f) EXCEPT !.watchRecords = h1]
          = Content(w, r, cc, h1, dd, f)
    BY DEF Content
  <2> HIDE DEF new
  <2> QED
    BY <2>1, <2>2, Zenon DEF InsertWatchRecords, HistoryIn
<1>7. \A cc, hh, dd : UpdateWatchRecords(Content(w, r, cc, hh, dd, f), q)
                 = Content(w, r, cc, HistoryOut(hh, q), dd, f)
  <2> SUFFICES ASSUME NEW cc, NEW hh, NEW dd
               PROVE  UpdateWatchRecords(Content(w, r, cc, hh, dd, f), q)
                        = Content(w, r, cc, HistoryOut(hh, q), dd, f)
    OBVIOUS
  <2>1. Content(w, r, cc, hh, dd, f).watchRecords = hh /\ Fence(Content(w, r, cc, hh, dd, f), q)
    BY <1>1, ContentTables
  <2>2. [Content(w, r, cc, hh, dd, f) EXCEPT !.watchRecords = HistoryOut(hh, q)]
          = Content(w, r, cc, HistoryOut(hh, q), dd, f)
    BY DEF Content
  <2> QED
    BY <2>1, <2>2, Zenon DEF UpdateWatchRecords, HistoryOut
<1> HIDE DEF new
<1>8. UpdateRecords(InsertRecords(Content(w, r, c, h, d, f), q), q) = Content(w, r, c2, h, d, f)
  BY <1>2, <1>3
<1>9. Observations(Content(w, r, c, h, d, f), q) = Content(w, r, c2, h2, d1, f)
  BY <1>5, <1>6, <1>7, <1>8 DEF Observations
<1> QED
  BY <1>9 DEF new

\* The two upserts of a batch, an insert and an update each, make the tables the
\* upserts of the transaction make.
LEMMA UpsertsAgree ==
  ASSUME TypeOK, NEW q \in Request
  PROVE  /\ records' = RecordsOut(RecordsIn(records, q), q) => UpsertRecords(q.seen, q.now)
         /\ watchRecords' = HistoryOut(HistoryIn(watchRecords, q, NewRecords(q.watch, q.seen)), q)
              => UpsertWatchRecords(q.watch, q.seen, q.now)
<1>1. ASSUME records' = RecordsOut(RecordsIn(records, q), q)
      PROVE  UpsertRecords(q.seen, q.now)
  <2> DEFINE up(x) == IF x.record \in q.seen THEN [x EXCEPT !.last = q.now] ELSE x
             row(s) == [record |-> s, first |-> q.now, last |-> q.now]
             new == {s \in q.seen : \A x \in records : x.record # s}
  <2>1. \A s \in q.seen : up(row(s)) = row(s)
    OBVIOUS
  <2>2. /\ RecordsIn(records, q) = records \cup {row(s) : s \in new}
        /\ RecordsOut(RecordsIn(records, q), q) = {up(x) : x \in RecordsIn(records, q)}
        /\ UpsertRecords(q.seen, q.now)
             <=> records' = {up(x) : x \in records} \cup {row(s) : s \in new}
    BY Zenon DEF RecordsIn, RecordsOut, UpsertRecords
  <2>3. \A s \in new : s \in q.seen
    OBVIOUS
  <2> HIDE DEF up, row, new
  <2>4. {up(x) : x \in records \cup {row(s) : s \in new}}
          = {up(x) : x \in records} \cup {row(s) : s \in new}
    BY <2>1, <2>3
  <2> QED
    BY <1>1, <2>2, <2>4
<1>2. ASSUME watchRecords'
               = HistoryOut(HistoryIn(watchRecords, q, NewRecords(q.watch, q.seen)), q)
      PROVE  UpsertWatchRecords(q.watch, q.seen, q.now)
  <2> DEFINE up(x) == IF x.watch = q.watch /\ x.record \in q.seen
                      THEN [x EXCEPT !.last = q.now] ELSE x
             row(s) == [watch |-> q.watch, record |-> s, first |-> q.now, last |-> q.now]
             new == NewRecords(q.watch, q.seen)
  <2>1. \A s \in q.seen : up(row(s)) = row(s)
    OBVIOUS
  <2>2. /\ HistoryIn(watchRecords, q, new) = watchRecords \cup {row(s) : s \in new}
        /\ HistoryOut(HistoryIn(watchRecords, q, new), q)
             = {up(x) : x \in HistoryIn(watchRecords, q, new)}
        /\ UpsertWatchRecords(q.watch, q.seen, q.now)
             <=> watchRecords' = {up(x) : x \in watchRecords} \cup {row(s) : s \in new}
    BY Zenon DEF HistoryIn, HistoryOut, UpsertWatchRecords
  <2>3. \A s \in new : s \in q.seen
    BY DEF NewRecords
  <2> HIDE DEF up, row
  <2>4. {up(x) : x \in watchRecords \cup {row(s) : s \in new}}
          = {up(x) : x \in watchRecords} \cup {row(s) : s \in new}
    BY <2>1, <2>3
  <2> QED
    BY <1>2, <2>2, <2>4
<1> QED
  BY <1>1, <1>2

\* A batch under its fence is the completion transaction of the contract.
LEMMA FencedIn ==
  ASSUME D1Inv, NEW q \in Request, Fence(Tables, q),
         watches' = Batch(Tables, q).watches, runs' = Batch(Tables, q).runs,
         records' = Batch(Tables, q).records,
         watchRecords' = Batch(Tables, q).watchRecords,
         deliveries' = Batch(Tables, q).deliveries
  PROVE  CompleteWatchRun(q.watch, q.run, q.owner, q.now, q.seen, q.status, q.target)
<1> DEFINE new == NewRecords(q.watch, q.seen)
           C == RecordsOut(RecordsIn(records, q), q)
           H == HistoryOut(HistoryIn(watchRecords, q, new), q)
           D == QueueOut(deliveries, q, new)
           t == Content(watches, runs, C, H, D, finished)
           fin(y) == [y EXCEPT !.status = q.status]
           R == {IF y.watch = q.watch /\ y.run = q.run THEN fin(y) ELSE y : y \in runs}
           F == finished \cup {<<y.watch, y.run, q.now>> :
                                 y \in {s \in runs : CompletesRun(t, s, q)}}
           u == Content(watches, R, C, H, D, F)
           done(y) == [y EXCEPT !.nextDue = q.now + y.interval, !.owner = NULL, !.expires = NULL]
           W == {IF CompletesWatch(u, y, q) THEN done(y) ELSE y : y \in watches}
<1>1. PICK x \in watches, r \in runs : HeldBy(x, q) /\ RunFor(r, q) /\ r.status = "running"
  BY DEF Fence, Tables
<1>2. /\ q.status \in Outcomes /\ x \in WatchRow /\ r \in RunRow
      /\ \A y \in runs : y \in RunRow
  BY DEF Request, D1Inv, TypeOK
<1>3. Observations(Tables, q) = t
  <2>1. Tables = Content(watches, runs, records, watchRecords, deliveries, finished)
    BY DEF Tables, Content
  <2>2. new = {i \in q.seen : \A y \in watchRecords : ~(y.watch = q.watch /\ y.record = i)}
    BY DEF NewRecords
  <2> HIDE DEF new
  <2> QED
    BY <2>1, <2>2, FencedObservations
<1>4. t.watches = watches /\ t.runs = runs /\ t.finished = finished
  BY ContentTables
<1> HIDE DEF C, H, D
<1>5. \A y \in runs : CompletesRun(t, y, q) <=> y.watch = q.watch /\ y.run = q.run
  <2> SUFFICES ASSUME NEW y \in runs
               PROVE  CompletesRun(t, y, q) <=> y.watch = q.watch /\ y.run = q.run
    OBVIOUS
  <2>1. y.watch = q.watch /\ y.run = q.run => y = r
    BY <1>1 DEF RunFor, D1Inv, OutboxInv, KeysUnique
  <2>2. CompletesRun(t, r, q)
    BY <1>1, <1>4 DEF CompletesRun
  <2> QED
    BY <2>1, <2>2 DEF CompletesRun, RunFor
<1>6. FinishRunRow(t, q) = u
  <2>1. {IF CompletesRun(t, y, q) THEN fin(y) ELSE y : y \in runs} = R
    BY <1>5
  <2>2. [t EXCEPT !.runs = R, !.finished = F] = u
    <3> HIDE DEF R, F
    <3> DEFINE e == [t EXCEPT !.runs = R, !.finished = F]
    <3>1. /\ e.watches = watches /\ e.runs = R /\ e.records = C /\ e.watchRecords = H
          /\ e.deliveries = D /\ e.finished = F
      BY DEF Content
    <3>2. e = [i \in {"watches", "runs", "records", "watchRecords", "deliveries", "finished"}
                 |-> e[i]]
      BY DEF Content
    <3> HIDE DEF e
    <3>3. e = u
      BY <3>1, <3>2 DEF Content
    <3> QED
      BY <3>3 DEF e
  <2>3. FinishRunRow(t, q)
          = [t EXCEPT !.runs = {IF CompletesRun(t, y, q) THEN fin(y) ELSE y : y \in runs},
                      !.finished = F]
    BY <1>4, Zenon DEF FinishRunRow
  <2> QED
    BY <2>1, <2>2, <2>3, Zenon
<1>7. fin(r) \in R /\ RunFor(fin(r), q) /\ fin(r).status = q.status
  BY <1>1, <1>2 DEF RunFor, RunRow
<1>8. <<fin(r).watch, fin(r).run, q.now>> \in F
  <2>1. CompletesRun(t, r, q)
    BY <1>1, <1>5 DEF RunFor
  <2>2. fin(r).watch = r.watch /\ fin(r).run = r.run
    BY <1>2 DEF RunRow
  <2> HIDE DEF t, fin
  <2> QED
    BY <2>1, <2>2
<1>9. u.watches = watches /\ u.runs = R /\ u.finished = F
  BY ContentTables
<1>10. \A y \in watches : CompletesWatch(u, y, q) <=> y = x
  <2>1. \A y \in watches : HeldBy(y, q) => y = x
    BY <1>1 DEF HeldBy, D1Inv, OutboxInv, KeysUnique
  <2> HIDE DEF u, fin, R, F
  <2>2. CompletesWatch(u, x, q)
    BY <1>1, <1>2, <1>7, <1>8, <1>9 DEF CompletesWatch
  <2> QED
    BY <2>1, <2>2 DEF CompletesWatch
<1>11. FinishWatchRow(u, q) = Content(W, R, C, H, D, F)
  <2>1. FinishWatchRow(u, q) = [u EXCEPT !.watches = W]
    BY <1>9, Zenon DEF FinishWatchRow
  <2>2. [u EXCEPT !.watches = W] = Content(W, R, C, H, D, F)
    <3> HIDE DEF W, R, F
    <3> QED
      BY DEF Content
  <2> QED
    BY <2>1, <2>2
<1>12. W = Replace(watches, x, done(x))
  <2> HIDE DEF u, done
  <2> QED
    BY <1>10 DEF Replace
<1>13. Batch(Tables, q) = Content(W, R, C, H, D, F)
  BY <1>3, <1>6, <1>11 DEF Batch
<1>14. watches' = W /\ runs' = R /\ records' = C /\ watchRecords' = H /\ deliveries' = D
  <2> HIDE DEF W, R, F
  <2> QED
    BY <1>13, ContentTables
<1>15. UpsertRecords(q.seen, q.now) /\ UpsertWatchRecords(q.watch, q.seen, q.now)
  BY <1>14, UpsertsAgree DEF C, H, D1Inv
<1>16. InsertRunDelivery(q.watch, q.run, q.target, q.seen, q.now)
  <2>1. DeliveryOf(q.watch, q.run) = {}
          <=> ~\E e \in deliveries : e.watch = q.watch /\ e.run = q.run
    BY DEF DeliveryOf
  <2> HIDE DEF new
  <2>2. deliveries' = QueueOut(deliveries, q, new)
    BY <1>14 DEF D
  <2> QED
    BY <2>1, <2>2 DEF QueueOut, InsertRunDelivery, new
<1>17. FinishRun(q.watch, q.run, q.status)
  BY <1>14, Zenon DEF FinishRun
<1>18. FinishWatch(x, q.now)
  BY <1>12, <1>14, Zenon DEF FinishWatch
<1>19. x \in WatchUnderLease(q.watch, q.owner, q.now) /\ RunningRun(q.watch, q.run, q.owner) # {}
  BY <1>1 DEF WatchUnderLease, HeldBy, RunningRun, RunOf, RunFor
<1> QED
  BY <1>15, <1>16, <1>17, <1>18, <1>19, Zenon DEF CompleteWatchRun

\* The two facts about lease owners survive what does not touch watches and runs.
LEMMA OwnersQuiet ==
  ASSUME D1Inv, UNCHANGED <<watches, runs, usedOwners>>
  PROVE  OwnersDrawn' /\ FinishedLetGo'
BY DEF D1Inv, OwnersDrawn, FinishedLetGo

\* A batch is a completion of the contract or changes no table.
LEMMA D1CompleteMaps ==
  ASSUME D1Inv, D1Complete
  PROVE  \/ UNCHANGED storeVars
         \/ \E q \in Request :
              CompleteWatchRun(q.watch, q.run, q.owner, q.now, q.seen, q.status, q.target)
<1>1. PICK q \in Request :
        /\ watches' = Batch(Tables, q).watches /\ runs' = Batch(Tables, q).runs
        /\ records' = Batch(Tables, q).records
        /\ watchRecords' = Batch(Tables, q).watchRecords
        /\ deliveries' = Batch(Tables, q).deliveries
  BY Zenon DEF D1Complete
<1>2. CASE Fence(Tables, q)
  BY <1>1, <1>2, FencedIn
<1>3. CASE ~Fence(Tables, q)
  <2>1. Batch(Tables, q) = Tables
    BY <1>3, FencedOff
  <2> QED
    BY <1>1, <2>1 DEF Tables, storeVars
<1> QED
  BY <1>2, <1>3

\* A completion hands the lease back, and the owner is not another watch's.
LEMMA D1CompleteKeepsOwners ==
  ASSUME D1Inv, NEW q \in Request, UNCHANGED usedOwners,
         CompleteWatchRun(q.watch, q.run, q.owner, q.now, q.seen, q.status, q.target)
  PROVE  OwnersDrawn' /\ FinishedLetGo'
<1>1. PICK x \in WatchUnderLease(q.watch, q.owner, q.now) :
        FinishRun(q.watch, q.run, q.status) /\ FinishWatch(x, q.now)
  BY Zenon DEF CompleteWatchRun
<1> DEFINE y == [x EXCEPT !.nextDue = q.now + x.interval, !.owner = NULL, !.expires = NULL]
<1>2. x \in watches /\ x \in WatchRow /\ x.id = q.watch
  BY <1>1 DEF WatchUnderLease, D1Inv, TypeOK
<1>3. y.id = q.watch /\ y.owner = NULL
  BY <1>2 DEF WatchRow
<1>4. watches' = (watches \ {x}) \cup {y}
  BY <1>1 DEF FinishWatch, Replace
<1> HIDE DEF y
<1>5. \A s \in runs' : \E r \in runs :
        /\ r.watch = s.watch /\ r.run = s.run /\ r.owner = s.owner
        /\ s.watch # q.watch => s = r
  <2> SUFFICES ASSUME NEW s \in runs'
               PROVE  \E r \in runs : /\ r.watch = s.watch /\ r.run = s.run /\ r.owner = s.owner
                                      /\ s.watch # q.watch => s = r
    OBVIOUS
  <2>1. PICK r \in runs : s = IF r.watch = q.watch /\ r.run = q.run
                              THEN [r EXCEPT !.status = q.status] ELSE r
    BY <1>1 DEF FinishRun
  <2>2. r \in RunRow
    BY DEF D1Inv, TypeOK
  <2>3. /\ r.watch = s.watch /\ r.run = s.run /\ r.owner = s.owner
        /\ s.watch # q.watch => s = r
    BY <2>1, <2>2 DEF RunRow
  <2> QED
    BY <2>3
<1>6. \A r \in runs : r.owner # NULL
  BY StoreAssumption DEF D1Inv, TypeOK, RunRow
<1>7. OwnersDrawn'
  BY <1>3, <1>4, <1>5 DEF D1Inv, OwnersDrawn
<1>8. FinishedLetGo'
  <2> SUFFICES ASSUME NEW s \in runs', NEW z \in watches', s.watch = z.id, s.status # "running"
               PROVE  z.owner # s.owner
    BY DEF FinishedLetGo
  <2>1. PICK r \in runs : /\ r.watch = s.watch /\ r.run = s.run /\ r.owner = s.owner
                          /\ s.watch # q.watch => s = r
    BY <1>5
  <2>2. CASE z = y
    BY <1>3, <1>6, <2>1, <2>2
  <2>3. CASE z \in watches /\ z # x
    <3>1. z.id # q.watch
      BY <1>2, <2>3 DEF D1Inv, OutboxInv, KeysUnique
    <3> QED
      BY <2>1, <2>3, <3>1 DEF D1Inv, FinishedLetGo
  <2> QED
    BY <1>4, <2>2, <2>3
<1> QED
  BY <1>7, <1>8

\* Every claim draws an owner that no watch and no run has had.
LEMMA D1ClaimKeepsOwners ==
  ASSUME D1Inv, D1Claim
  PROVE  OwnersDrawn' /\ FinishedLetGo'
<1>1. PICK o \in Owners \ usedOwners, x \in watches, n \in Times, l \in Leases :
        ClaimDueWatch(x, n, o, l) /\ usedOwners' = usedOwners \cup {o}
  BY Zenon DEF D1Claim
<1> DEFINE y == [x EXCEPT !.owner = o, !.expires = n + l]
<1>2. x \in WatchRow
  BY DEF D1Inv, TypeOK
<1>3. y.id = x.id /\ y.owner = o
  BY <1>2 DEF WatchRow
<1>4. watches' = (watches \ {x}) \cup {y} /\ runs' = runs
  BY <1>1 DEF ClaimDueWatch, Replace
<1> HIDE DEF y
<1> QED
  BY <1>1, <1>3, <1>4 DEF D1Inv, OwnersDrawn, FinishedLetGo

\* A run starts under the owner of a lease, and running.
LEMMA D1StartKeepsOwners ==
  ASSUME D1Inv, D1Start
  PROVE  OwnersDrawn' /\ FinishedLetGo'
<1>1. PICK w \in WatchIds, r \in RunIds, o \in Owners, n \in Times : StartWatchRun(w, r, o, n)
  BY Zenon DEF D1Start
<1>2. UNCHANGED <<watches, usedOwners>>
  BY <1>1 DEF StartWatchRun, D1Start
<1>3. CASE RunOf(w, r) # {}
  BY <1>1, <1>2, <1>3, OwnersQuiet DEF StartWatchRun
<1>4. CASE RunOf(w, r) = {}
  <2> DEFINE s == [watch |-> w, run |-> r, owner |-> o, status |-> "running"]
  <2>1. runs' = runs \cup {s}
    BY <1>1, <1>4 DEF StartWatchRun
  <2>2. o # NULL /\ \E x \in watches : x.owner = o
    BY <1>1, <1>4, StoreAssumption DEF StartWatchRun, WatchUnderLease, LeaseHeld
  <2>3. s.owner = o /\ s.status = "running"
    OBVIOUS
  <2> HIDE DEF s
  <2> QED
    BY <1>2, <2>1, <2>2, <2>3 DEF D1Inv, OwnersDrawn, FinishedLetGo
<1> QED
  BY <1>3, <1>4

\* A step of D1 is a step of the contract, or changes no table, and keeps the
\* facts about lease owners.
LEMMA D1Maps ==
  ASSUME D1Inv, D1Next
  PROVE  (Next \/ UNCHANGED storeVars) /\ OwnersDrawn' /\ FinishedLetGo'
<1>1. CASE D1Create
  <2>1. PICK w \in WatchIds, i \in Intervals, n \in Times : CreateWatch(w, i, n)
    BY <1>1, Zenon DEF D1Create
  <2>2. Next
    BY <2>1, Zenon DEF Next, WatchStep
  <2>3. NewWatch(w, i, n).owner = NULL /\ \A r \in runs : r.owner # NULL
    BY StoreAssumption DEF NewWatch, D1Inv, TypeOK, RunRow
  <2>4. watches' = watches \cup {NewWatch(w, i, n)} /\ runs' = runs /\ usedOwners' = usedOwners
    BY <1>1, <2>1 DEF CreateWatch, D1Create
  <2>5. OwnersDrawn' /\ FinishedLetGo'
    BY <2>3, <2>4 DEF D1Inv, OwnersDrawn, FinishedLetGo
  <2> QED
    BY <2>2, <2>5
<1>2. CASE D1Delete
  <2>1. PICK w \in WatchIds : DeleteWatch(w)
    BY <1>2, Zenon DEF D1Delete
  <2>2. Next
    BY <2>1, Zenon DEF Next, WatchStep
  <2>3. watches' \subseteq watches /\ runs' \subseteq runs /\ usedOwners' = usedOwners
    BY <1>2, <2>1 DEF DeleteWatch, D1Delete
  <2> QED
    BY <2>2, <2>3 DEF D1Inv, OwnersDrawn, FinishedLetGo
<1>3. CASE D1Claim
  <2>1. Next
    BY <1>3, Zenon DEF D1Claim, Next, WatchStep
  <2> QED
    BY <1>3, <2>1, D1ClaimKeepsOwners
<1>4. CASE D1Start
  <2>1. Next
    BY <1>4, Zenon DEF D1Start, Next, RunStep
  <2> QED
    BY <1>4, <2>1, D1StartKeepsOwners
<1>5. CASE D1Complete
  <2>1. UNCHANGED usedOwners
    BY <1>5 DEF D1Complete
  <2>2. CASE UNCHANGED storeVars
    BY <2>1, <2>2, OwnersQuiet DEF storeVars
  <2>3. ASSUME NEW q \in Request,
               CompleteWatchRun(q.watch, q.run, q.owner, q.now, q.seen, q.status, q.target)
        PROVE  Next /\ OwnersDrawn' /\ FinishedLetGo'
    <3>1. /\ q.watch \in WatchIds /\ q.run \in RunIds /\ q.owner \in Owners /\ q.now \in Times
          /\ q.seen \in SUBSET RecordIds /\ q.status \in Outcomes /\ q.target \in Configs
      BY DEF Request
    <3>2. Next
      BY <2>3, <3>1, Zenon DEF Next, RunStep
    <3> QED
      BY <2>1, <2>3, <3>2, D1CompleteKeepsOwners
  <2> QED
    BY <1>5, <2>2, <2>3, D1CompleteMaps
<1>6. CASE D1Delivery
  <2>1. UNCHANGED <<watches, runs, usedOwners>>
    BY <1>6 DEF D1Delivery, DeliveryStep, ClaimPendingDelivery, CompleteDelivery
  <2> QED
    BY <1>6, <2>1, OwnersQuiet DEF D1Delivery, Next
<1> QED
  BY <1>1, <1>2, <1>3, <1>4, <1>5, <1>6 DEF D1Next

\* THEOREM.  D1 implements the contract of the store: a completion sent as a fixed
\* batch of separately fenced statements is the completion transaction or does
\* nothing at all, whoever sends it and however late, as long as every claim of a
\* watch draws a lease owner of its own.
THEOREM D1KeepsContract == D1Spec => D1Contract
<1>1. D1Init => Init /\ D1Inv
  BY DEF D1Init, Init, D1Inv, TypeOK, OutboxInv, KeysUnique, NoOrphans, DeliveryOfFinishedRun,
         BatchesDisjoint, OutboxComplete, OwnersDrawn, FinishedLetGo
<1>2. D1Inv /\ [D1Next]_d1Vars => D1Inv' /\ [Next]_storeVars
  <2> SUFFICES ASSUME D1Inv, [D1Next]_d1Vars
               PROVE  D1Inv' /\ [Next]_storeVars
    OBVIOUS
  <2>1. (Next \/ UNCHANGED storeVars) /\ OwnersDrawn' /\ FinishedLetGo'
    <3>1. CASE D1Next
      BY <3>1, D1Maps
    <3>2. CASE UNCHANGED d1Vars
      BY <3>2, OwnersQuiet DEF d1Vars, storeVars
    <3> QED
      BY <3>1, <3>2
  <2> QED
    BY <2>1, TypeStep, OutboxStep DEF D1Inv
<1> QED
  BY <1>1, <1>2, PTL DEF D1Spec, D1Contract, Spec
=============================================================================
