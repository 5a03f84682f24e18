----------------------- MODULE NativeScheduler_proofs -----------------------
(***************************************************************************)
(* Proofs about comsat serve, for every number of processes, pids, watches *)
(* and records, any bound on time and any set of store faults: the runs of *)
(* its watches, and the webhook requests that leave it.                    *)
(***************************************************************************)
EXTENDS NativeScheduler, WatchStore_proofs, FiniteSetTheorems

-----------------------------------------------------------------------------
(* What a process holds at each point of its loop *)

PcSet ==
  {"down", "idle", "claim", "start", "search", "complete",
   "flush", "stamp", "claimDelivery", "send", "settle"}

\* Between the claim of a watch and the completion of its run.
Running == {"start", "search", "complete"}

\* Between reading the clock for the lease token and the result of the attempt.
Flushing == {"stamp", "claimDelivery", "send", "settle"}

ProcRow ==
  [pc : PcSet, pid : Pids \cup {NULL}, config : Configs \cup {NULL},
   now : Times, watch : WatchIds \cup {NULL}, run : RunIds \cup {NULL},
   seen : SUBSET RecordIds, ok : BOOLEAN, token : Owners \cup {NULL}]

\* The run id of process q is made of its pid and of the occurrence it claimed,
\* the lease token of its pid and of a time that has passed.
ProcOK(q, t) ==
  /\ q.now <= t
  /\ q.pc # "down" => q.pid \in Pids /\ q.config \in Configs
  /\ q.pc \in Running =>
       /\ q.watch \in WatchIds
       /\ \E due \in Times : q.run = <<q.pid, due>> /\ due <= q.now
  /\ q.pc \in Flushing =>
       \E s \in Times : /\ q.token = <<q.pid, s>> /\ s <= t
                        /\ q.pc = "claimDelivery" => s <= q.now
  /\ q.pc \in {"send", "settle"} => q.watch \in WatchIds /\ q.run \in RunIds
  /\ q.pc \in {"flush", "stamp", "claimDelivery", "send"} => ~q.ok

ProcsOK ==
  /\ clock \in Times
  /\ proc \in [Procs -> ProcRow]
  /\ \A p \in Procs : ProcOK(proc[p], clock)

\* No two live processes share a pid, hence neither run ids nor lease tokens.
PidsApart ==
  /\ \A p \in Procs : ~At(p, "down") => proc[p].pid \in usedPids
  /\ \A p, q \in Procs :
       p # q /\ ~At(p, "down") /\ ~At(q, "down") => proc[p].pid # proc[q].pid

-----------------------------------------------------------------------------
(* What the steps do to the process that takes them *)

\* Process p alone has changed, to r.
Becomes(p, r) ==
  /\ r \in ProcRow
  /\ proc' \in [Procs -> ProcRow]
  /\ proc'[p] = r
  /\ \A q \in Procs : q # p => proc'[q] = proc[q]

\* A time is a number, and so is every instant up to the bound.
LEMMA TimesFacts ==
  /\ 0 \in Times
  /\ \A t \in Times : t \in Nat
  /\ \A t \in Nat, s \in Times : t <= s => t \in Times
BY NativeAssumption

\* A pid is a lease owner; with a time it is a run id and a lease token.
LEMMA PidFacts ==
  ASSUME NEW pid \in Pids
  PROVE  /\ pid \in Owners /\ pid # NULL
         /\ \A t \in Times : <<pid, t>> \in RunIds /\ <<pid, t>> \in Owners
BY NativeAssumption, StoreAssumption

\* A process that starts over holds nothing but its pid and its webhook.
LEMMA FreshFacts ==
  \A pc \in PcSet, pid \in Pids \cup {NULL}, c \in Configs \cup {NULL} :
    /\ Fresh(pc, pid, c) \in ProcRow
    /\ Fresh(pc, pid, c).pc = pc
    /\ Fresh(pc, pid, c).pid = pid
    /\ Fresh(pc, pid, c).config = c
    /\ Fresh(pc, pid, c).now = 0
    /\ ~Fresh(pc, pid, c).ok
BY TimesFacts DEF Fresh, ProcRow

\* Forgetting the work of a run or a flush leaves a row with nothing but its name.
LEMMA ForgetFacts ==
  ASSUME ProcsOK, NEW p \in Procs, NEW pc \in PcSet, Forget(p, pc)
  PROVE  \E r : /\ Becomes(p, r) /\ r.pc = pc /\ r.pid = proc[p].pid
                /\ r.config = proc[p].config /\ r.now = 0 /\ ~r.ok
<1> DEFINE r == Fresh(pc, proc[p].pid, proc[p].config)
<1>1. proc[p].pid \in Pids \cup {NULL} /\ proc[p].config \in Configs \cup {NULL}
  BY DEF ProcsOK, ProcRow
<1>2. /\ r \in ProcRow /\ r.pc = pc /\ r.pid = proc[p].pid
      /\ r.config = proc[p].config /\ r.now = 0 /\ ~r.ok
  BY <1>1, FreshFacts
<1>3. proc' = [proc EXCEPT ![p] = r]
  BY DEF Forget
<1> HIDE DEF r
<1> QED
  BY <1>2, <1>3 DEF Becomes, ProcsOK

\* A tick notes the time.
LEMMA TickFacts ==
  ASSUME ProcsOK, NEW p \in Procs, Tick(p)
  PROVE  \E r : /\ Becomes(p, r) /\ r.pc = "claim" /\ r.pid = proc[p].pid
                /\ r.config = proc[p].config /\ r.now = clock
<1> DEFINE r == [proc[p] EXCEPT !.pc = "claim", !.now = clock]
<1>1. /\ r \in ProcRow /\ r.pc = "claim" /\ r.pid = proc[p].pid
      /\ r.config = proc[p].config /\ r.now = clock
  BY DEF ProcsOK, ProcRow, PcSet
<1>2. proc' = [proc EXCEPT ![p] = r]
  BY DEF Tick
<1> HIDE DEF r
<1> QED
  BY <1>1, <1>2 DEF Becomes, ProcsOK

\* The run id names the occurrence of the watch that is claimed.
LEMMA ClaimWatchFacts ==
  ASSUME ProcsOK, TypeOK, NEW p \in Procs, ClaimWatch(p)
  PROVE  \E x \in watches, r \in ProcRow :
           /\ ClaimDueWatch(x, proc[p].now, proc[p].pid, LeaseSeconds)
           /\ x.nextDue \in Times /\ x.nextDue <= proc[p].now /\ x.id \in WatchIds
           /\ Becomes(p, r) /\ r.pc = "start" /\ r.pid = proc[p].pid
           /\ r.config = proc[p].config /\ r.now = proc[p].now
           /\ r.watch = x.id /\ r.run = <<proc[p].pid, x.nextDue>>
<1>1. PICK x \in watches :
        /\ ClaimDueWatch(x, proc[p].now, proc[p].pid, LeaseSeconds)
        /\ proc' = [proc EXCEPT ![p].pc = "start", ![p].watch = x.id,
                                ![p].run = <<proc[p].pid, x.nextDue>>]
  BY DEF ClaimWatch
<1> DEFINE r == [proc[p] EXCEPT !.pc = "start", !.watch = x.id,
                                !.run = <<proc[p].pid, x.nextDue>>]
<1>2. proc[p] \in ProcRow /\ proc[p].now \in Times /\ proc[p].pid \in Pids
  BY DEF ProcsOK, ProcRow, ProcOK, ClaimWatch, At
<1>3. x \in WatchRow /\ x.id \in WatchIds /\ x.nextDue \in Nat
  BY DEF TypeOK, WatchRow
<1>4. x.nextDue <= proc[p].now
  BY <1>1 DEF ClaimDueWatch, SelectDueWatch, DueWatches
<1>5. x.nextDue \in Times
  BY <1>2, <1>3, <1>4, TimesFacts
<1>6. <<proc[p].pid, x.nextDue>> \in RunIds
  BY <1>2, <1>5, PidFacts
<1>7. /\ r \in ProcRow /\ r.pc = "start" /\ r.pid = proc[p].pid
      /\ r.config = proc[p].config /\ r.now = proc[p].now
      /\ r.watch = x.id /\ r.run = <<proc[p].pid, x.nextDue>>
  BY <1>2, <1>3, <1>6 DEF ProcRow, PcSet
<1>8. proc' = [proc EXCEPT ![p] = r]
  BY <1>1
<1> HIDE DEF r
<1>9. Becomes(p, r)
  BY <1>7, <1>8 DEF Becomes, ProcsOK
<1> QED
  BY <1>1, <1>3, <1>4, <1>5, <1>7, <1>9, Zenon

\* Having started a run, a process still has the watch and the run it claimed.
LEMMA StartRunFacts ==
  ASSUME ProcsOK, NEW p \in Procs, StartRun(p)
  PROVE  \E r : /\ Becomes(p, r) /\ r.pc = "search" /\ r.pid = proc[p].pid
                /\ r.config = proc[p].config /\ r.now = proc[p].now
                /\ r.watch = proc[p].watch /\ r.run = proc[p].run
<1> DEFINE r == [proc[p] EXCEPT !.pc = "search"]
<1>1. /\ r \in ProcRow /\ r.pc = "search" /\ r.pid = proc[p].pid
      /\ r.config = proc[p].config /\ r.now = proc[p].now
      /\ r.watch = proc[p].watch /\ r.run = proc[p].run
  BY DEF ProcsOK, ProcRow, PcSet
<1>2. proc' = [proc EXCEPT ![p] = r]
  BY DEF StartRun
<1> HIDE DEF r
<1> QED
  BY <1>1, <1>2 DEF Becomes, ProcsOK

\* After the search the time is read again; watch and run are the same.
LEMMA SearchFacts ==
  ASSUME ProcsOK, NEW p \in Procs, Search(p)
  PROVE  \E r : /\ Becomes(p, r) /\ r.pc = "complete" /\ r.pid = proc[p].pid
                /\ r.config = proc[p].config /\ r.now = clock
                /\ r.watch = proc[p].watch /\ r.run = proc[p].run
<1>1. PICK seen \in SUBSET RecordIds, ok \in BOOLEAN :
        proc' = [proc EXCEPT ![p].pc = "complete", ![p].seen = seen,
                             ![p].ok = ok, ![p].now = clock]
  BY DEF Search
<1> DEFINE r == [proc[p] EXCEPT !.pc = "complete", !.seen = seen, !.ok = ok,
                                !.now = clock]
<1>2. /\ r \in ProcRow /\ r.pc = "complete" /\ r.pid = proc[p].pid
      /\ r.config = proc[p].config /\ r.now = clock
      /\ r.watch = proc[p].watch /\ r.run = proc[p].run
  BY DEF ProcsOK, ProcRow, PcSet
<1>3. proc' = [proc EXCEPT ![p] = r]
  BY <1>1
<1> HIDE DEF r
<1> QED
  BY <1>2, <1>3 DEF Becomes, ProcsOK

\* The lease token of the attempt is made of the pid and of the time it is read.
LEMMA BeginFlushFacts ==
  ASSUME ProcsOK, NEW p \in Procs, BeginFlush(p)
  PROVE  \E r : /\ Becomes(p, r) /\ r.pid = proc[p].pid /\ r.config = proc[p].config
                /\ ~r.ok /\ r.now <= clock
                /\ \/ r.pc = "idle"
                   \/ r.pc = "stamp" /\ r.token = <<proc[p].pid, clock>>
<1>0. 0 <= clock
  BY TimesFacts DEF ProcsOK
<1>1. CASE Forget(p, "idle")
  BY <1>0, <1>1, ForgetFacts DEF PcSet
<1>2. CASE proc' = [proc EXCEPT ![p].pc = "stamp", ![p].token = <<proc[p].pid, clock>>]
  <2> DEFINE r == [proc[p] EXCEPT !.pc = "stamp", !.token = <<proc[p].pid, clock>>]
  <2>1. /\ proc[p] \in ProcRow /\ proc[p].pid \in Pids /\ clock \in Times
        /\ proc[p].now <= clock /\ ~proc[p].ok
    BY DEF ProcsOK, ProcOK, BeginFlush, At
  <2>2. <<proc[p].pid, clock>> \in Owners
    BY <2>1, PidFacts
  <2>3. /\ r \in ProcRow /\ r.pc = "stamp" /\ r.pid = proc[p].pid
        /\ r.config = proc[p].config /\ r.now = proc[p].now
        /\ r.token = <<proc[p].pid, clock>>
    BY <2>1, <2>2 DEF ProcRow, PcSet
  <2>4. ~r.ok
    BY <2>1 DEF ProcRow
  <2>5. proc' = [proc EXCEPT ![p] = r]
    BY <1>2
  <2> HIDE DEF r
  <2> QED
    BY <2>1, <2>3, <2>4, <2>5 DEF Becomes, ProcsOK
<1> QED
  BY <1>1, <1>2 DEF BeginFlush

\* The time of a claim of a delivery is read after its token was made.
LEMMA StampFlushFacts ==
  ASSUME ProcsOK, NEW p \in Procs, StampFlush(p)
  PROVE  \E r : /\ Becomes(p, r) /\ r.pc = "claimDelivery" /\ r.pid = proc[p].pid
                /\ r.config = proc[p].config /\ r.now = clock
                /\ r.token = proc[p].token /\ ~r.ok
<1> DEFINE r == [proc[p] EXCEPT !.pc = "claimDelivery", !.now = clock]
<1>1. /\ r \in ProcRow /\ r.pc = "claimDelivery" /\ r.pid = proc[p].pid
      /\ r.config = proc[p].config /\ r.now = clock /\ r.token = proc[p].token
  BY DEF ProcsOK, ProcRow, PcSet
<1>2. ~r.ok
  BY DEF ProcsOK, ProcOK, ProcRow, StampFlush, At
<1>3. proc' = [proc EXCEPT ![p] = r]
  BY DEF StampFlush
<1> HIDE DEF r
<1> QED
  BY <1>1, <1>2, <1>3 DEF Becomes, ProcsOK

\* The row fetched after the claim is one that the claim can have written: it is
\* in delivery under the token of the process.
LEMMA ClaimDeliveryFacts ==
  ASSUME ProcsOK, TypeOK', NEW p \in Procs, ClaimDelivery(p)
  PROVE  \E d \in deliveries, e \in deliveries', r \in ProcRow :
           /\ ClaimPendingDelivery(d, proc[p].now, proc[p].token, DeliveryLease)
           /\ e.status = "delivering" /\ e.owner = proc[p].token
           /\ Becomes(p, r) /\ r.pid = proc[p].pid /\ r.config = proc[p].config
           /\ r.now = clock /\ r.token = proc[p].token /\ ~r.ok
           /\ r.watch = e.watch /\ r.run = e.run
           /\ \/ r.pc = "send" /\ MaySend(e, r.config)
              \/ r.pc = "settle"
<1>1. PICK d \in deliveries :
        ClaimPendingDelivery(d, proc[p].now, proc[p].token, DeliveryLease)
  BY DEF ClaimDelivery
<1>2. PICK e \in FetchClaimed(deliveries', proc[p].token) :
        proc' = [proc EXCEPT
                   ![p].pc = IF MaySend(e, proc[p].config) THEN "send" ELSE "settle",
                   ![p].watch = e.watch, ![p].run = e.run, ![p].now = clock]
  BY DEF ClaimDelivery
<1>3. e \in deliveries' /\ e.status = "delivering" /\ e.owner = proc[p].token
  BY DEF FetchClaimed
<1> DEFINE pc == IF MaySend(e, proc[p].config) THEN "send" ELSE "settle"
           r == [proc[p] EXCEPT !.pc = pc, !.watch = e.watch, !.run = e.run, !.now = clock]
<1>4. /\ pc \in PcSet /\ pc \in {"send", "settle"}
      /\ pc = "send" => MaySend(e, proc[p].config)
  BY DEF PcSet
<1>5. e.watch \in WatchIds /\ e.run \in RunIds
  BY <1>3 DEF TypeOK, DeliveryRow
<1>6. proc[p] \in ProcRow /\ clock \in Times /\ ~proc[p].ok
  BY DEF ProcsOK, ProcOK, ClaimDelivery, At
<1>7. proc' = [proc EXCEPT ![p] = r]
  BY <1>2
<1> HIDE DEF pc
<1>8. /\ r \in ProcRow /\ r.pid = proc[p].pid /\ r.config = proc[p].config
      /\ r.now = clock /\ r.token = proc[p].token /\ r.pc = pc
      /\ r.watch = e.watch /\ r.run = e.run
  BY <1>4, <1>5, <1>6 DEF ProcRow
<1>9. ~r.ok
  BY <1>6 DEF ProcRow
<1> HIDE DEF r
<1>10. Becomes(p, r)
  BY <1>7, <1>8 DEF Becomes, ProcsOK
<1>11. (r.pc = "send" /\ MaySend(e, r.config)) \/ r.pc = "settle"
  BY <1>4, <1>8
<1> QED
  BY <1>1, <1>3, <1>8, <1>9, <1>10, <1>11, Zenon

\* The request has been made, or was too large to be made.
LEMMA SendFacts ==
  ASSUME ProcsOK, NEW p \in Procs, Send(p) \/ Oversized(p)
  PROVE  \E r : /\ Becomes(p, r) /\ r.pc = "settle" /\ r.pid = proc[p].pid
                /\ r.config = proc[p].config /\ r.now = clock
                /\ r.token = proc[p].token
                /\ r.watch = proc[p].watch /\ r.run = proc[p].run
                /\ Oversized(p) => ~r.ok
<1>1. ASSUME NEW ok \in BOOLEAN, Oversized(p) => ~ok,
             proc' = [proc EXCEPT ![p] = [proc[p] EXCEPT !.pc = "settle", !.ok = ok, !.now = clock]]
      PROVE  \E r : /\ Becomes(p, r) /\ r.pc = "settle" /\ r.pid = proc[p].pid
                    /\ r.config = proc[p].config /\ r.now = clock
                    /\ r.token = proc[p].token
                    /\ r.watch = proc[p].watch /\ r.run = proc[p].run
                    /\ Oversized(p) => ~r.ok
  <2> DEFINE r == [proc[p] EXCEPT !.pc = "settle", !.ok = ok, !.now = clock]
  <2>1. /\ r \in ProcRow /\ r.pc = "settle" /\ r.pid = proc[p].pid
        /\ r.config = proc[p].config /\ r.now = clock /\ r.token = proc[p].token
        /\ r.watch = proc[p].watch /\ r.run = proc[p].run
    BY DEF ProcsOK, ProcRow, PcSet
  <2>2. ~ok => ~r.ok
    BY DEF ProcsOK, ProcRow
  <2>3. proc' = [proc EXCEPT ![p] = r]
    BY <1>1
  <2> HIDE DEF r
  <2>4. Becomes(p, r)
    BY <2>1, <2>3 DEF Becomes, ProcsOK
  <2> QED
    BY <1>1, <2>1, <2>2, <2>4, Zenon
<1>2. CASE Oversized(p)
  <2>1. proc[p] \in ProcRow /\ proc[p].ok = FALSE
    BY <1>2 DEF Oversized, ProcsOK, ProcOK, At
  <2>2. [proc[p] EXCEPT !.pc = "settle", !.now = clock]
          = [proc[p] EXCEPT !.pc = "settle", !.ok = FALSE, !.now = clock]
    BY <2>1 DEF ProcRow
  <2> QED
    BY <1>1, <1>2, <2>2 DEF Oversized
<1>3. CASE Send(p) /\ ~Oversized(p)
  BY <1>1, <1>3 DEF Send
<1> QED
  BY <1>2, <1>3

\* A process boots under a pid nobody has used.
LEMMA BootFacts ==
  ASSUME ProcsOK, NEW p \in Procs, Boot(p)
  PROVE  \E r : /\ Becomes(p, r) /\ r.pc = "idle" /\ r.pid \in Pids \ usedPids
                /\ usedPids' = usedPids \cup {r.pid}
                /\ r.config \in Configs /\ r.now = 0 /\ ~r.ok
<1>1. PICK pid \in Pids \ usedPids, c \in Configs :
        /\ proc' = [proc EXCEPT ![p] = Fresh("idle", pid, c)]
        /\ usedPids' = usedPids \cup {pid}
  BY DEF Boot
<1> DEFINE r == Fresh("idle", pid, c)
<1>2. /\ r \in ProcRow /\ r.pc = "idle" /\ r.pid = pid
      /\ r.config = c /\ r.now = 0 /\ ~r.ok
  BY FreshFacts DEF PcSet
<1>3. proc' = [proc EXCEPT ![p] = r]
  BY <1>1
<1> HIDE DEF r
<1> QED
  BY <1>1, <1>2, <1>3 DEF Becomes, ProcsOK

\* A crash leaves nothing.
LEMMA CrashFacts ==
  ASSUME ProcsOK, NEW p \in Procs, Crash(p)
  PROVE  \E r : Becomes(p, r) /\ r.pc = "down" /\ r.now = 0 /\ ~r.ok
<1> DEFINE r == Fresh("down", NULL, NULL)
<1>2. r \in ProcRow /\ r.pc = "down" /\ r.now = 0 /\ ~r.ok
  BY FreshFacts DEF PcSet
<1>3. proc' = [proc EXCEPT ![p] = r]
  BY DEF Crash
<1> HIDE DEF r
<1> QED
  BY <1>2, <1>3 DEF Becomes, ProcsOK

-----------------------------------------------------------------------------
(* The processes use the store as its contract says *)

\* What a process passes to the store is what the contract quantifies over.
LEMMA CallArguments ==
  ASSUME ProcsOK, NEW p \in Procs
  PROVE  /\ proc[p].now \in Times /\ proc[p].seen \in SUBSET RecordIds
         /\ proc[p].ok \in BOOLEAN
         /\ ~At(p, "down") => /\ proc[p].pid \in Pids /\ proc[p].pid \in Owners
                              /\ proc[p].config \in Configs
         /\ proc[p].pc \in Running =>
              proc[p].watch \in WatchIds /\ proc[p].run \in RunIds
         /\ proc[p].pc \in Flushing => proc[p].token \in Owners
         /\ proc[p].pc \in {"send", "settle"} =>
              proc[p].watch \in WatchIds /\ proc[p].run \in RunIds
<1>1. proc[p] \in ProcRow /\ ProcOK(proc[p], clock)
  BY DEF ProcsOK
<1>2. ~At(p, "down") => /\ proc[p].pid \in Pids /\ proc[p].pid \in Owners
                        /\ proc[p].config \in Configs
  BY <1>1, PidFacts DEF ProcOK, At
<1>3. proc[p].pc \in Running => ~At(p, "down")
  BY DEF Running, At
<1>4. proc[p].pc \in Flushing => ~At(p, "down")
  BY DEF Flushing, At
<1>5. ASSUME proc[p].pc \in Running
      PROVE  proc[p].watch \in WatchIds /\ proc[p].run \in RunIds
  BY <1>1, <1>2, <1>3, <1>5, PidFacts DEF ProcOK
<1>6. ASSUME proc[p].pc \in Flushing
      PROVE  proc[p].token \in Owners
  BY <1>1, <1>2, <1>4, <1>6, PidFacts DEF ProcOK
<1>7. /\ proc[p].now \in Times /\ proc[p].seen \in SUBSET RecordIds
      /\ proc[p].ok \in BOOLEAN
  BY <1>1 DEF ProcRow
<1>8. proc[p].pc \in {"send", "settle"} =>
        proc[p].watch \in WatchIds /\ proc[p].run \in RunIds
  BY <1>1 DEF ProcOK
<1> QED
  BY <1>2, <1>5, <1>6, <1>7, <1>8

\* Every step of the scheduler is a step of the store or leaves it alone.
LEMMA StoreStep ==
  TypeOK /\ ProcsOK /\ [NativeNext]_nativeVars => [Next]_storeVars
<1> SUFFICES ASSUME TypeOK, ProcsOK, [NativeNext]_nativeVars
             PROVE  [Next]_storeVars
  OBVIOUS
<1> USE NativeAssumption
<1>1. ASSUME NEW p \in Procs, ClaimWatch(p)
      PROVE  Next
  <2>1. PICK x \in watches :
          ClaimDueWatch(x, proc[p].now, proc[p].pid, LeaseSeconds)
    BY <1>1 DEF ClaimWatch
  <2>2. proc[p].now \in Times /\ proc[p].pid \in Owners
    BY <1>1, CallArguments DEF ClaimWatch, At
  <2> QED
    BY <2>1, <2>2 DEF Next, WatchStep
<1>2. ASSUME NEW p \in Procs, StartRun(p)
      PROVE  Next
  <2>1. /\ proc[p].now \in Times /\ proc[p].pid \in Owners
        /\ proc[p].watch \in WatchIds /\ proc[p].run \in RunIds
    BY <1>2, CallArguments DEF StartRun, At, Running
  <2> QED
    BY <1>2, <2>1 DEF StartRun, Next, RunStep
<1>3. ASSUME NEW p \in Procs, CompleteRun(p)
      PROVE  Next
  <2>1. /\ proc[p].now \in Times /\ proc[p].pid \in Owners
        /\ proc[p].watch \in WatchIds /\ proc[p].run \in RunIds
        /\ proc[p].seen \in SUBSET RecordIds /\ proc[p].config \in Configs
    BY <1>3, CallArguments DEF CompleteRun, At, Running
  <2>2. RunOutcome(proc[p].ok) \in Outcomes
    BY DEF RunOutcome, Outcomes
  <2> QED
    BY <1>3, <2>1, <2>2 DEF CompleteRun, Next, RunStep
<1>4. ASSUME NEW p \in Procs, ClaimDelivery(p)
      PROVE  Next
  <2>1. PICK d \in deliveries :
          ClaimPendingDelivery(d, proc[p].now, proc[p].token, DeliveryLease)
    BY <1>4 DEF ClaimDelivery
  <2>2. proc[p].now \in Times /\ proc[p].token \in Owners
    BY <1>4, CallArguments DEF ClaimDelivery, At, Flushing
  <2> QED
    BY <2>1, <2>2 DEF Next, DeliveryStep
<1>5. ASSUME NEW p \in Procs, Settle(p)
      PROVE  Next
  <2>1. /\ proc[p].now \in Times /\ proc[p].token \in Owners
        /\ proc[p].watch \in WatchIds /\ proc[p].run \in RunIds
        /\ proc[p].ok \in BOOLEAN
    BY <1>5, CallArguments DEF Settle, At, Flushing
  <2> QED
    BY <1>5, <2>1 DEF Settle, Next, DeliveryStep
<1>6. ASSUME AddWatch
      PROVE  Next
  BY <1>6 DEF AddWatch, ProcsOK, Next, WatchStep
<1>7. ASSUME RemoveWatch
      PROVE  Next
  <2>1. PICK x \in watches : DeleteWatch(x.id)
    BY <1>7 DEF RemoveWatch
  <2>2. x.id \in WatchIds
    BY DEF TypeOK, WatchRow
  <2> QED
    BY <2>1, <2>2 DEF Next, WatchStep
<1>8. ASSUME NEW p \in Procs, RunSteps(p)
      PROVE  [Next]_storeVars
  BY <1>1, <1>2, <1>3, <1>8
     DEF RunSteps, Tick, NothingDue, StartRefused, Search, CompleteRefused
<1>9. ASSUME NEW p \in Procs, FlushSteps(p)
      PROVE  [Next]_storeVars
  BY <1>4, <1>5, <1>9
     DEF FlushSteps, BeginFlush, StampFlush, NothingPending, Send, Oversized, SettleRefused
<1>10. ASSUME NEW p \in Procs, FaultSteps(p) \/ Boot(p) \/ Crash(p)
       PROVE  [Next]_storeVars
  BY <1>10 DEF FaultSteps, CallFails, Boot, Crash
<1>11. CASE Advance
  BY <1>11 DEF Advance
<1>12. CASE UNCHANGED nativeVars
  BY <1>12 DEF nativeVars, storeVars
<1> QED
  BY <1>6, <1>7, <1>8, <1>9, <1>10, <1>11, <1>12 DEF NativeNext

-----------------------------------------------------------------------------
(* A process always holds what its place in the loop needs *)

\* A move of p is harmless when p holds what its new place needs and keeps its pid.
LEMMA MoveKeepsProcs ==
  ASSUME ProcsOK, PidsApart, NEW p \in Procs, NEW r, Becomes(p, r), ProcOK(r, clock),
         UNCHANGED <<clock, usedPids>>,
         r.pc # "down" => ~At(p, "down") /\ r.pid = proc[p].pid
  PROVE  ProcsOK' /\ PidsApart'
<1>1. ProcsOK'
  BY DEF ProcsOK, Becomes
<1>2. PidsApart'
  BY DEF PidsApart, Becomes, At
<1> QED
  BY <1>1, <1>2

\* Forgetting the work at hand, in a loop that goes on.
LEMMA ForgetKeepsProcs ==
  ASSUME ProcsOK, PidsApart, NEW p \in Procs, NEW pc \in {"idle", "flush"},
         ~At(p, "down"), Forget(p, pc), UNCHANGED <<clock, usedPids>>
  PROVE  ProcsOK' /\ PidsApart'
<1>1. PICK r : /\ Becomes(p, r) /\ r.pc = pc /\ r.pid = proc[p].pid
               /\ r.config = proc[p].config /\ r.now = 0 /\ ~r.ok
  BY ForgetFacts DEF PcSet
<1>2. 0 <= clock
  BY TimesFacts DEF ProcsOK
<1>3. r.pid \in Pids /\ r.config \in Configs
  BY <1>1, CallArguments
<1>4. ProcOK(r, clock)
  BY <1>1, <1>2, <1>3 DEF ProcOK, Running, Flushing
<1> QED
  BY <1>1, <1>4, MoveKeepsProcs

\* The steps of a watch run, then those of a flush.
LEMMA RunStepsKeepProcs ==
  ASSUME TypeOK, ProcsOK, PidsApart, NEW p \in Procs, RunSteps(p)
  PROVE  ProcsOK' /\ PidsApart'
<1>0. clock \in Times /\ clock \in Nat /\ clock <= clock
  BY TimesFacts DEF ProcsOK
<1>1. CASE Tick(p)
  <2>1. PICK r : /\ Becomes(p, r) /\ r.pc = "claim" /\ r.pid = proc[p].pid
                 /\ r.config = proc[p].config /\ r.now = clock
    BY <1>1, TickFacts
  <2>2. ~At(p, "down") /\ r.pid \in Pids /\ r.config \in Configs
    BY <1>1, <2>1, CallArguments DEF Tick, At
  <2>3. ProcOK(r, clock)
    BY <1>0, <2>1, <2>2 DEF ProcOK, Running, Flushing
  <2> QED
    BY <1>1, <2>1, <2>2, <2>3, MoveKeepsProcs DEF Tick
<1>2. CASE ClaimWatch(p)
  <2>1. PICK x \in watches, r \in ProcRow :
           /\ x.nextDue \in Times /\ x.nextDue <= proc[p].now /\ x.id \in WatchIds
           /\ Becomes(p, r) /\ r.pc = "start" /\ r.pid = proc[p].pid
           /\ r.config = proc[p].config /\ r.now = proc[p].now
           /\ r.watch = x.id /\ r.run = <<proc[p].pid, x.nextDue>>
    BY <1>2, ClaimWatchFacts
  <2>2. ~At(p, "down") /\ r.pid \in Pids /\ r.config \in Configs
    BY <1>2, <2>1, CallArguments DEF ClaimWatch, At
  <2>3. proc[p].now <= clock
    BY DEF ProcsOK, ProcOK
  <2>4. ProcOK(r, clock)
    BY <2>1, <2>2, <2>3 DEF ProcOK, Running, Flushing
  <2> QED
    BY <1>2, <2>1, <2>2, <2>4, MoveKeepsProcs DEF ClaimWatch
<1>3. CASE StartRun(p) \/ Search(p)
  <2>1. PICK r : /\ Becomes(p, r) /\ r.pc \in {"search", "complete"} /\ r.pid = proc[p].pid
                 /\ r.config = proc[p].config /\ r.now \in {proc[p].now, clock}
                 /\ r.watch = proc[p].watch /\ r.run = proc[p].run
    BY <1>3, StartRunFacts, SearchFacts
  <2>2. /\ ~At(p, "down") /\ r.pid \in Pids /\ r.config \in Configs
        /\ proc[p].pc \in Running
    BY <1>3, <2>1, CallArguments DEF StartRun, Search, At, Running
  <2>3. PICK due \in Times : proc[p].run = <<proc[p].pid, due>> /\ due <= proc[p].now
    BY <2>2 DEF ProcsOK, ProcOK
  <2>4. proc[p].now <= clock /\ proc[p].watch \in WatchIds /\ proc[p].now \in Times
    BY <2>2, CallArguments DEF ProcsOK, ProcOK
  <2>5. due <= r.now /\ r.now <= clock
    BY <1>0, <2>1, <2>3, <2>4, TimesFacts
  <2>6. ProcOK(r, clock)
    BY <2>1, <2>2, <2>3, <2>4, <2>5 DEF ProcOK, Running, Flushing
  <2> QED
    BY <1>3, <2>1, <2>2, <2>6, MoveKeepsProcs DEF StartRun, Search
<1>4. CASE NothingDue(p) \/ StartRefused(p) \/ CompleteRun(p) \/ CompleteRefused(p)
  BY <1>4, ForgetKeepsProcs DEF NothingDue, StartRefused, CompleteRun, CompleteRefused, At
<1> QED
  BY <1>1, <1>2, <1>3, <1>4 DEF RunSteps

\* The steps of a flush: what is read back after a claim is a typed row.
LEMMA FlushStepsKeepProcs ==
  ASSUME TypeOK', ProcsOK, PidsApart, NEW p \in Procs, FlushSteps(p)
  PROVE  ProcsOK' /\ PidsApart'
<1>0. clock \in Times /\ clock \in Nat /\ clock <= clock
  BY TimesFacts DEF ProcsOK
<1>1. CASE BeginFlush(p)
  <2>1. PICK r : /\ Becomes(p, r) /\ r.pid = proc[p].pid /\ r.config = proc[p].config
                 /\ ~r.ok /\ r.now <= clock
                 /\ \/ r.pc = "idle"
                    \/ r.pc = "stamp" /\ r.token = <<proc[p].pid, clock>>
    BY <1>1, BeginFlushFacts
  <2>2. ~At(p, "down") /\ r.pid \in Pids /\ r.config \in Configs
    BY <1>1, <2>1, CallArguments DEF BeginFlush, At
  <2>3. ProcOK(r, clock)
    BY <1>0, <2>1, <2>2 DEF ProcOK, Running, Flushing
  <2> QED
    BY <1>1, <2>1, <2>2, <2>3, MoveKeepsProcs DEF BeginFlush
<1>2. CASE StampFlush(p)
  <2>1. PICK r : /\ Becomes(p, r) /\ r.pc = "claimDelivery" /\ r.pid = proc[p].pid
                 /\ r.config = proc[p].config /\ r.now = clock
                 /\ r.token = proc[p].token /\ ~r.ok
    BY <1>2, StampFlushFacts
  <2>2. ~At(p, "down") /\ r.pid \in Pids /\ r.config \in Configs
    BY <1>2, <2>1, CallArguments DEF StampFlush, At
  <2>3. PICK s \in Times : proc[p].token = <<proc[p].pid, s>> /\ s <= clock
    BY <1>2 DEF StampFlush, At, Flushing, ProcsOK, ProcOK
  <2>4. ProcOK(r, clock)
    BY <1>0, <2>1, <2>2, <2>3 DEF ProcOK, Running, Flushing
  <2> QED
    BY <1>2, <2>1, <2>2, <2>4, MoveKeepsProcs DEF StampFlush
<1>3. CASE ClaimDelivery(p) \/ Send(p) \/ Oversized(p)
  <2>1. PICK r : /\ Becomes(p, r) /\ r.pc \in {"send", "settle"} /\ r.pid = proc[p].pid
                 /\ r.config = proc[p].config /\ r.now = clock
                 /\ r.token = proc[p].token /\ r.watch \in WatchIds /\ r.run \in RunIds
                 /\ r.pc = "send" => ~r.ok
    <3>1. CASE ClaimDelivery(p)
      BY <3>1, ClaimDeliveryFacts DEF TypeOK, DeliveryRow
    <3>2. CASE Send(p) \/ Oversized(p)
      <4>1. PICK r : /\ Becomes(p, r) /\ r.pc = "settle" /\ r.pid = proc[p].pid
                     /\ r.config = proc[p].config /\ r.now = clock
                     /\ r.token = proc[p].token
                     /\ r.watch = proc[p].watch /\ r.run = proc[p].run
        BY <3>2, SendFacts
      <4>2. proc[p].watch \in WatchIds /\ proc[p].run \in RunIds
        BY <3>2, CallArguments DEF Send, Oversized, At
      <4> QED
        BY <4>1, <4>2
    <3> QED
      BY <1>3, <3>1, <3>2
  <2>2. /\ ~At(p, "down") /\ r.pid \in Pids /\ r.config \in Configs
        /\ proc[p].pc \in Flushing
    BY <1>3, <2>1, CallArguments DEF ClaimDelivery, Send, Oversized, At, Flushing
  <2>3. PICK s \in Times : proc[p].token = <<proc[p].pid, s>> /\ s <= clock
    BY <2>2 DEF ProcsOK, ProcOK
  <2>4. ProcOK(r, clock)
    BY <1>0, <2>1, <2>2, <2>3 DEF ProcOK, Running, Flushing
  <2> QED
    BY <1>3, <2>1, <2>2, <2>4, MoveKeepsProcs DEF ClaimDelivery, Send, Oversized
<1>4. CASE NothingPending(p) \/ Settle(p) \/ SettleRefused(p)
  BY <1>4, ForgetKeepsProcs DEF NothingPending, Settle, SettleRefused, At
<1> QED
  BY <1>1, <1>2, <1>3, <1>4 DEF FlushSteps

\* All steps: those of the environment leave the processes alone.
LEMMA ProcsStep ==
  TypeOK /\ ProcsOK /\ PidsApart /\ [NativeNext]_nativeVars => ProcsOK' /\ PidsApart'
<1> SUFFICES ASSUME TypeOK, ProcsOK, PidsApart, [NativeNext]_nativeVars
             PROVE  ProcsOK' /\ PidsApart'
  OBVIOUS
<1>0. TypeOK'
  BY StoreStep, TypeStep
<1>1. ASSUME NEW p \in Procs, FaultSteps(p)
      PROVE  ProcsOK' /\ PidsApart'
  <2>1. PICK pc \in {"claim", "start", "complete", "claimDelivery", "settle"},
             next \in {"idle", "flush"} : CallFails(p, pc, next)
    BY <1>1 DEF FaultSteps
  <2> QED
    BY <2>1, ForgetKeepsProcs DEF CallFails, At
<1>2. ASSUME NEW p \in Procs, Boot(p)
      PROVE  ProcsOK' /\ PidsApart'
  <2>1. PICK r : /\ Becomes(p, r) /\ r.pc = "idle" /\ r.pid \in Pids \ usedPids
                 /\ usedPids' = usedPids \cup {r.pid}
                 /\ r.config \in Configs /\ r.now = 0 /\ ~r.ok
    BY <1>2, BootFacts
  <2>2. 0 <= clock
    BY TimesFacts DEF ProcsOK
  <2>3. ProcOK(r, clock)
    BY <2>1, <2>2 DEF ProcOK, Running, Flushing
  <2>4. ProcsOK'
    BY <1>2, <2>1, <2>3 DEF ProcsOK, Becomes, Boot
  <2>5. PidsApart'
    BY <2>1 DEF PidsApart, Becomes, At
  <2> QED
    BY <2>4, <2>5
<1>3. ASSUME NEW p \in Procs, Crash(p)
      PROVE  ProcsOK' /\ PidsApart'
  <2>1. PICK r : Becomes(p, r) /\ r.pc = "down" /\ r.now = 0 /\ ~r.ok
    BY <1>3, CrashFacts
  <2>2. 0 <= clock
    BY TimesFacts DEF ProcsOK
  <2>3. ProcOK(r, clock)
    BY <2>1, <2>2 DEF ProcOK, Running, Flushing
  <2> QED
    BY <1>3, <2>1, <2>3, MoveKeepsProcs DEF Crash
<1>4. CASE Advance
  <2>1. clock \in Times /\ clock' = clock + 1 /\ clock < MaxClock /\ proc' = proc
    BY <1>4 DEF Advance, ProcsOK
  <2>2. clock' \in Times /\ \A t \in Times : t <= clock => t <= clock'
    BY <2>1, NativeAssumption
  <2>3. \A q \in ProcRow : ProcOK(q, clock) => ProcOK(q, clock')
    BY <2>2 DEF ProcOK, ProcRow
  <2>4. ProcsOK'
    BY <2>1, <2>2, <2>3 DEF ProcsOK
  <2>5. PidsApart'
    BY <1>4 DEF Advance, PidsApart, At
  <2> QED
    BY <2>4, <2>5
<1>5. CASE AddWatch \/ RemoveWatch \/ UNCHANGED nativeVars
  BY <1>5 DEF AddWatch, RemoveWatch, nativeVars, ProcsOK, PidsApart, At
<1> QED
  BY <1>0, <1>1, <1>2, <1>3, <1>4, <1>5, RunStepsKeepProcs, FlushStepsKeepProcs DEF NativeNext

\* At first every process is down.
LEMMA ProcsInit == NativeInit => Init /\ ProcsOK /\ PidsApart
<1> SUFFICES ASSUME NativeInit
             PROVE  Init /\ ProcsOK /\ PidsApart
  OBVIOUS
<1> DEFINE r == Fresh("down", NULL, NULL)
<1>1. r \in ProcRow /\ r.pc = "down" /\ r.now = 0
  BY FreshFacts DEF PcSet
<1>2. clock = 0 /\ 0 \in Times /\ 0 <= 0 /\ proc = [p \in Procs |-> r]
  BY TimesFacts DEF NativeInit
<1> HIDE DEF r
<1>3. ProcOK(r, 0)
  BY <1>1, <1>2 DEF ProcOK, Running, Flushing
<1>4. ProcsOK
  BY <1>1, <1>2, <1>3 DEF ProcsOK
<1>5. PidsApart
  BY <1>1, <1>2 DEF PidsApart, At
<1> QED
  BY <1>4, <1>5 DEF NativeInit

\* Every process always holds what its place in the loop needs, in its own name.
LEMMA ProcsAlways == NativeSpec => [](TypeOK /\ ProcsOK /\ PidsApart)
<1>1. NativeInit => TypeOK /\ ProcsOK /\ PidsApart
  BY ProcsInit DEF Init, TypeOK
<1>2. TypeOK /\ ProcsOK /\ PidsApart /\ [NativeNext]_nativeVars
        => (TypeOK /\ ProcsOK /\ PidsApart)'
  BY ProcsStep, StoreStep, TypeStep
<1> QED
  BY <1>1, <1>2, PTL DEF NativeSpec

\* The steps of the scheduler are written with the actions of the store, so its
\* behaviours are behaviours of the store if the arguments are in their domains.
\* The lemma only carries invariants of the store over to comsat serve.
LEMMA SchedulerUsesStore == NativeSpec => Spec
<1>1. NativeInit => Init
  BY ProcsInit
<1> QED
  BY <1>1, StoreStep, ProcsAlways, PTL DEF NativeSpec, Spec

-----------------------------------------------------------------------------
(* Occurrences *)

\* The occurrence a run id names is a time.
RunsTimed == \A x \in runs : x.run[2] \in Times

\* The schedule of a watch is ahead of its finished runs and of its history.
ScheduleAhead ==
  /\ \A x \in runs, y \in watches :
       x.status # "running" /\ x.watch = y.id => x.run[2] < y.nextDue
  /\ \A z \in watchRecords, y \in watches : z.watch = y.id => z.last < y.nextDue

\* A process that still owns the lease of its watch works on the occurrence that
\* is next: nobody has completed it.
OwnsNext ==
  \A p \in Procs, y \in watches :
    proc[p].pc \in Running /\ y.id = proc[p].watch /\ y.owner = proc[p].pid =>
      proc[p].run[2] = y.nextDue

\* The inductive invariant.
OccurrenceInv == RunsTimed /\ ScheduleAhead /\ OwnsNext /\ OccurrenceCompletedOnce

\* A step that neither touches watches, runs and history nor lets a process take
\* on another run.
LEMMA QuietForOccurrences ==
  ASSUME OccurrenceInv, UNCHANGED <<watches, runs, watchRecords>>,
         \A q \in Procs : proc'[q].pc \in Running =>
           /\ proc[q].pc \in Running
           /\ proc'[q].watch = proc[q].watch /\ proc'[q].run = proc[q].run
           /\ proc'[q].pid = proc[q].pid
  PROVE  OccurrenceInv'
<1>1. RunsTimed' /\ ScheduleAhead' /\ OccurrenceCompletedOnce'
  BY DEF OccurrenceInv, RunsTimed, ScheduleAhead, OccurrenceCompletedOnce
<1>2. OwnsNext'
  BY DEF OccurrenceInv, OwnsNext
<1> QED
  BY <1>1, <1>2 DEF OccurrenceInv

\* The common case: p moves out of its run, or on in it.
LEMMA MoveKeepsOccurrences ==
  ASSUME OccurrenceInv, UNCHANGED <<watches, runs, watchRecords>>,
         NEW p \in Procs, NEW r, Becomes(p, r),
         r.pc \in Running =>
           /\ proc[p].pc \in Running
           /\ r.watch = proc[p].watch /\ r.run = proc[p].run /\ r.pid = proc[p].pid
  PROVE  OccurrenceInv'
<1>1. \A q \in Procs : proc'[q].pc \in Running =>
           /\ proc[q].pc \in Running
           /\ proc'[q].watch = proc[q].watch /\ proc'[q].run = proc[q].run
           /\ proc'[q].pid = proc[q].pid
  BY DEF Becomes
<1> QED
  BY <1>1, QuietForOccurrences

\* Giving up a run, whatever the reason.
LEMMA ForgetKeepsOccurrences ==
  ASSUME ProcsOK, OccurrenceInv, UNCHANGED <<watches, runs, watchRecords>>,
         NEW p \in Procs, NEW pc \in {"idle", "flush"}, Forget(p, pc)
  PROVE  OccurrenceInv'
<1>1. PICK r : Becomes(p, r) /\ r.pc = pc
  BY ForgetFacts DEF PcSet
<1> QED
  BY <1>1, MoveKeepsOccurrences DEF Running

\* A claim takes over the watch for the occurrence that is next.
LEMMA ClaimKeepsOccurrences ==
  ASSUME TypeOK, ProcsOK, PidsApart, OutboxInv, OccurrenceInv,
         NEW p \in Procs, ClaimWatch(p)
  PROVE  OccurrenceInv'
<1>1. PICK x \in watches, r \in ProcRow :
           /\ ClaimDueWatch(x, proc[p].now, proc[p].pid, LeaseSeconds)
           /\ Becomes(p, r) /\ r.pc = "start" /\ r.pid = proc[p].pid
           /\ r.watch = x.id /\ r.run = <<proc[p].pid, x.nextDue>>
  BY ClaimWatchFacts
<1> DEFINE y == [x EXCEPT !.owner = proc[p].pid, !.expires = proc[p].now + LeaseSeconds]
<1>2. y.id = x.id /\ y.owner = proc[p].pid /\ y.nextDue = x.nextDue
  BY DEF TypeOK, WatchRow
<1>3. watches' = (watches \ {x}) \cup {y} /\ UNCHANGED <<runs, watchRecords>>
  BY <1>1 DEF ClaimDueWatch, Replace
<1> HIDE DEF y
<1>4. \A z \in watches' : \E u \in watches : z.id = u.id /\ z.nextDue = u.nextDue
  BY <1>2, <1>3
<1>5. RunsTimed' /\ OccurrenceCompletedOnce'
  BY <1>3 DEF OccurrenceInv, RunsTimed, OccurrenceCompletedOnce
<1>6. ScheduleAhead'
  BY <1>3, <1>4 DEF OccurrenceInv, ScheduleAhead
<1>7. OwnsNext'
  <2>1. SUFFICES ASSUME NEW q \in Procs, NEW z \in watches',
                        proc'[q].pc \in Running, z.id = proc'[q].watch,
                        z.owner = proc'[q].pid
                 PROVE  proc'[q].run[2] = z.nextDue
    BY DEF OwnsNext
  <2>2. CASE q = p
    <3>1. z.id = x.id /\ proc'[q] = r
      BY <1>1, <2>1, <2>2 DEF Becomes
    <3>2. z = y
      BY <1>3, <3>1 DEF OutboxInv, KeysUnique
    <3> QED
      BY <1>1, <1>2, <3>1, <3>2
  <2>3. CASE q # p
    <3>1. proc'[q] = proc[q]
      BY <1>1, <2>3 DEF Becomes
    <3>2. proc[q].pid # proc[p].pid
      BY <2>1, <2>3, <3>1 DEF PidsApart, ClaimWatch, At, Running
    <3>3. z \in watches
      BY <1>2, <1>3, <2>1, <3>1, <3>2
    <3> QED
      BY <2>1, <3>1, <3>3 DEF OccurrenceInv, OwnsNext
  <2> QED
    BY <2>2, <2>3
<1> QED
  BY <1>5, <1>6, <1>7 DEF OccurrenceInv

\* A started run is not a finished one.
LEMMA StartKeepsOccurrences ==
  ASSUME ProcsOK, OccurrenceInv, NEW p \in Procs, StartRun(p)
  PROVE  OccurrenceInv'
<1> DEFINE e == [watch |-> proc[p].watch, run |-> proc[p].run, owner |-> proc[p].pid,
                 status |-> "running"]
<1>1. e.run = proc[p].run /\ e.status = "running"
  OBVIOUS
<1>2. UNCHANGED <<watches, watchRecords>> /\ runs' \subseteq runs \cup {e}
  BY DEF StartRun, StartWatchRun
<1> HIDE DEF e
<1>3. PICK due \in Times : proc[p].run = <<proc[p].pid, due>>
  BY DEF StartRun, At, Running, ProcsOK, ProcOK
<1>4. e.run[2] \in Times
  BY <1>1, <1>3
<1>5. RunsTimed'
  BY <1>2, <1>4 DEF OccurrenceInv, RunsTimed
<1>6. ScheduleAhead'
  BY <1>1, <1>2 DEF OccurrenceInv, ScheduleAhead
<1>7. OccurrenceCompletedOnce'
  BY <1>1, <1>2 DEF OccurrenceInv, OccurrenceCompletedOnce
<1>8. PICK r : /\ Becomes(p, r) /\ r.pid = proc[p].pid
               /\ r.watch = proc[p].watch /\ r.run = proc[p].run
  BY StartRunFacts
<1>9. proc[p].pc \in Running
  BY DEF StartRun, At, Running
<1>10. \A q \in Procs : proc'[q].pc \in Running =>
           /\ proc[q].pc \in Running
           /\ proc'[q].watch = proc[q].watch /\ proc'[q].run = proc[q].run
           /\ proc'[q].pid = proc[q].pid
  BY <1>8, <1>9 DEF Becomes
<1>11. OwnsNext'
  BY <1>2, <1>10 DEF OccurrenceInv, OwnsNext
<1> QED
  BY <1>5, <1>6, <1>7, <1>11 DEF OccurrenceInv

\* A completion that is not refused is of the occurrence that is next, and moves
\* the schedule past it and past the time of the completion.
LEMMA CompletionFacts ==
  ASSUME TypeOK, ProcsOK, OccurrenceInv, NEW p \in Procs, CompleteRun(p)
  PROVE  \E x \in watches, y \in watches' :
           /\ x.id = proc[p].watch /\ y.id = x.id /\ y.owner = NULL
           /\ watches' = Replace(watches, x, y)
           /\ proc[p].run[2] = x.nextDue
           /\ x.nextDue <= proc[p].now /\ proc[p].now < y.nextDue
           /\ x.nextDue \in Nat /\ proc[p].now \in Nat /\ y.nextDue \in Nat
<1> DEFINE w == proc[p].watch
           t == proc[p].now
<1>1. PICK x \in WatchUnderLease(w, proc[p].pid, t) : FinishWatch(x, t)
  BY DEF CompleteRun, CompleteWatchRun
<1>2. x \in watches /\ x.id = w /\ x.owner = proc[p].pid
  BY DEF WatchUnderLease, LeaseHeld
<1>3. x \in WatchRow
  BY <1>2 DEF TypeOK
<1>4. proc[p].pc \in Running
  BY DEF CompleteRun, At, Running
<1>5. proc[p].run[2] = x.nextDue
  BY <1>2, <1>4 DEF OccurrenceInv, OwnsNext
<1>6. PICK due \in Times : proc[p].run = <<proc[p].pid, due>> /\ due <= t
  BY <1>4 DEF ProcsOK, ProcOK
<1>7. x.nextDue = due /\ x.nextDue <= t
  BY <1>5, <1>6
<1>8. t \in Nat /\ x.nextDue \in Nat /\ x.interval \in Nat \ {0}
  BY <1>3, CallArguments, TimesFacts, StoreAssumption DEF WatchRow
<1> DEFINE y == [x EXCEPT !.nextDue = t + x.interval, !.owner = NULL, !.expires = NULL]
<1>9. y.id = x.id /\ y.owner = NULL /\ y.nextDue = t + x.interval
  BY <1>3 DEF WatchRow
<1>10. watches' = Replace(watches, x, y)
  BY <1>1 DEF FinishWatch
<1> HIDE DEF y
<1>11. t < y.nextDue /\ y.nextDue \in Nat
  BY <1>8, <1>9
<1>12. y \in watches'
  BY <1>10 DEF Replace
<1> QED
  BY <1>2, <1>5, <1>7, <1>8, <1>9, <1>10, <1>11, <1>12, Zenon

\* The step that matters.  The completing process holds the lease, so it works on
\* the next occurrence, which no run of the watch has finished; and it takes the
\* schedule beyond the time it stamps.
LEMMA CompleteKeepsOccurrences ==
  ASSUME TypeOK, ProcsOK, PidsApart, OutboxInv, OccurrenceInv,
         NEW p \in Procs, CompleteRun(p)
  PROVE  OccurrenceInv'
<1> DEFINE w == proc[p].watch
           t == proc[p].now
           s == RunOutcome(proc[p].ok)
<1>1. PICK x \in watches, y \in watches' :
           /\ x.id = w /\ y.id = x.id /\ y.owner = NULL
           /\ watches' = Replace(watches, x, y)
           /\ proc[p].run[2] = x.nextDue
           /\ x.nextDue <= t /\ t < y.nextDue
           /\ x.nextDue \in Nat /\ t \in Nat /\ y.nextDue \in Nat
  BY CompletionFacts
<1>2. /\ UpsertWatchRecords(w, proc[p].seen, t)
      /\ FinishRun(w, proc[p].run, s)
  BY DEF CompleteRun, CompleteWatchRun
<1>3. \A z \in runs' : \E u \in runs :
        /\ u.watch = z.watch /\ u.run = z.run
        /\ z = IF u.watch = w /\ u.run = proc[p].run THEN [u EXCEPT !.status = s] ELSE u
  BY <1>2, FinishRunFacts
<1>4. \A z \in watches' : z = y \/ (z \in watches /\ z.id # w)
  BY <1>1 DEF Replace, OutboxInv, KeysUnique
<1>5. x.nextDue < y.nextDue
  BY <1>1
<1>6. RunsTimed'
  BY <1>3 DEF OccurrenceInv, RunsTimed
<1>7. ScheduleAhead'
  <2>1. ASSUME NEW z \in runs', NEW v \in watches', z.status # "running", z.watch = v.id
        PROVE  z.run[2] < v.nextDue
    <3>1. PICK u \in runs :
            /\ u.watch = z.watch /\ u.run = z.run
            /\ z = IF u.watch = w /\ u.run = proc[p].run THEN [u EXCEPT !.status = s] ELSE u
      BY <1>3
    <3>2. CASE v # y
      BY <1>4, <2>1, <3>1, <3>2 DEF OccurrenceInv, ScheduleAhead
    <3>3. CASE v = y /\ u.run = proc[p].run
      BY <1>1, <1>5, <3>1, <3>3
    <3>4. CASE v = y /\ u.run # proc[p].run
      <4>1. u.run[2] < x.nextDue
        BY <1>1, <2>1, <3>1, <3>4 DEF OccurrenceInv, ScheduleAhead
      <4>2. u.run[2] \in Nat
        BY TimesFacts DEF OccurrenceInv, RunsTimed
      <4> QED
        BY <1>1, <1>5, <3>1, <3>4, <4>1, <4>2
    <3> QED
      BY <3>2, <3>3, <3>4
  <2>2. ASSUME NEW z \in watchRecords', NEW v \in watches', z.watch = v.id
        PROVE  z.last < v.nextDue
    <3>1. z \in watchRecords \/ (z.watch = w /\ z.last = t)
      BY <1>2, HistoryFacts
    <3>2. CASE v # y
      BY <1>4, <2>2, <3>1, <3>2 DEF OccurrenceInv, ScheduleAhead
    <3>3. CASE v = y /\ z \in watchRecords
      <4>1. z.last < x.nextDue /\ z.last \in Nat
        BY <1>1, <2>2, <3>3 DEF OccurrenceInv, ScheduleAhead, TypeOK, WatchRecordRow
      <4> QED
        BY <1>1, <1>5, <3>3, <4>1
    <3>4. CASE v = y /\ z.last = t
      BY <1>1, <3>4
    <3> QED
      BY <3>1, <3>2, <3>3, <3>4
  <2> QED
    BY <2>1, <2>2 DEF ScheduleAhead
<1>8. OwnsNext'
  <2>1. PICK r : Becomes(p, r) /\ r.pc = "flush"
    BY ForgetFacts DEF CompleteRun, PcSet
  <2>2. SUFFICES ASSUME NEW q \in Procs, NEW z \in watches',
                        proc'[q].pc \in Running, z.id = proc'[q].watch,
                        z.owner = proc'[q].pid
                 PROVE  proc'[q].run[2] = z.nextDue
    BY DEF OwnsNext
  <2>3. q # p /\ proc'[q] = proc[q]
    BY <2>1, <2>2 DEF Becomes, Running
  <2>4. proc[q].pid # NULL
    BY <2>2, <2>3, CallArguments, PidFacts DEF Running, At
  <2>5. z \in watches
    BY <1>1, <1>4, <2>2, <2>3, <2>4
  <2> QED
    BY <2>2, <2>3, <2>5 DEF OccurrenceInv, OwnsNext
<1>9. OccurrenceCompletedOnce'
  <2>1. SUFFICES ASSUME NEW a \in runs', NEW b \in runs', a.watch = b.watch,
                        a.run[2] = b.run[2], a.status # "running", b.status # "running"
                 PROVE  a = b
    BY DEF OccurrenceCompletedOnce
  <2>2. PICK u \in runs :
          /\ u.watch = a.watch /\ u.run = a.run
          /\ a = IF u.watch = w /\ u.run = proc[p].run THEN [u EXCEPT !.status = s] ELSE u
    BY <1>3
  <2>3. PICK v \in runs :
          /\ v.watch = b.watch /\ v.run = b.run
          /\ b = IF v.watch = w /\ v.run = proc[p].run THEN [v EXCEPT !.status = s] ELSE v
    BY <1>3
  <2>4. ASSUME NEW z \in runs, z.watch = w, z.status # "running", z.run[2] = x.nextDue
        PROVE  FALSE
    <3>1. z.run[2] < x.nextDue
      BY <1>1, <2>4 DEF OccurrenceInv, ScheduleAhead
    <3> QED
      BY <1>1, <2>4, <3>1
  <2>5. CASE a = u /\ b = v
    BY <2>1, <2>2, <2>3, <2>5 DEF OccurrenceInv, OccurrenceCompletedOnce
  <2>6. CASE u.watch = w /\ u.run = proc[p].run
    <3>1. v.watch = w /\ v.run[2] = x.nextDue
      BY <1>1, <2>1, <2>2, <2>3, <2>6
    <3>2. v.run = proc[p].run
      BY <2>1, <2>3, <2>4, <3>1
    <3>3. u = v
      BY <2>6, <3>1, <3>2 DEF OutboxInv, KeysUnique
    <3> QED
      BY <2>2, <2>3, <3>3
  <2>7. CASE v.watch = w /\ v.run = proc[p].run
    <3>1. u.watch = w /\ u.run[2] = x.nextDue
      BY <1>1, <2>1, <2>2, <2>3, <2>7
    <3>2. u.run = proc[p].run
      BY <2>1, <2>2, <2>4, <3>1
    <3>3. u = v
      BY <2>7, <3>1, <3>2 DEF OutboxInv, KeysUnique
    <3> QED
      BY <2>2, <2>3, <3>3
  <2> QED
    BY <2>2, <2>3, <2>5, <2>6, <2>7
<1> QED
  BY <1>6, <1>7, <1>8, <1>9 DEF OccurrenceInv

\* A new watch has no runs and no history, and nobody owns its lease.
LEMMA AddKeepsOccurrences ==
  ASSUME ProcsOK, OutboxInv, OccurrenceInv, AddWatch
  PROVE  OccurrenceInv'
<1>1. PICK w \in WatchIds, i \in Intervals : CreateWatch(w, i, clock)
  BY DEF AddWatch
<1> DEFINE y == NewWatch(w, i, clock)
<1>2. y.id = w /\ y.owner = NULL
  BY DEF NewWatch
<1>3. /\ watches' = watches \cup {y} /\ UNCHANGED <<runs, watchRecords, proc>>
      /\ \A x \in watches : x.id # w
  BY <1>1 DEF CreateWatch, AddWatch
<1> HIDE DEF y
<1>4. /\ \A x \in runs : x.watch # w
      /\ \A x \in watchRecords : x.watch # w
  BY <1>3 DEF OutboxInv, NoOrphans
<1>5. RunsTimed' /\ OccurrenceCompletedOnce'
  BY <1>3 DEF OccurrenceInv, RunsTimed, OccurrenceCompletedOnce
<1>6. ScheduleAhead'
  BY <1>2, <1>3, <1>4 DEF OccurrenceInv, ScheduleAhead
<1>7. \A q \in Procs : proc[q].pc \in Running => proc[q].pid # NULL
  BY CallArguments, PidFacts DEF Running, At
<1>8. OwnsNext'
  BY <1>2, <1>3, <1>7 DEF OccurrenceInv, OwnsNext
<1> QED
  BY <1>5, <1>6, <1>8 DEF OccurrenceInv

\* Deletion takes the runs and the history of a watch with it.
LEMMA RemoveKeepsOccurrences ==
  ASSUME OccurrenceInv, RemoveWatch
  PROVE  OccurrenceInv'
<1>1. /\ watches' \subseteq watches /\ runs' \subseteq runs
      /\ watchRecords' \subseteq watchRecords /\ proc' = proc
  BY DEF RemoveWatch, DeleteWatch
<1> QED
  BY <1>1 DEF OccurrenceInv, RunsTimed, ScheduleAhead, OwnsNext, OccurrenceCompletedOnce

\* Every step, action by action.
LEMMA OccurrenceStep ==
  TypeOK /\ ProcsOK /\ PidsApart /\ OutboxInv /\ OccurrenceInv /\ [NativeNext]_nativeVars
    => OccurrenceInv'
<1> SUFFICES ASSUME TypeOK, ProcsOK, PidsApart, OutboxInv, OccurrenceInv,
                    [NativeNext]_nativeVars
             PROVE  OccurrenceInv'
  OBVIOUS
<1>0. TypeOK'
  BY StoreStep, TypeStep
<1>1. ASSUME NEW p \in Procs, RunSteps(p)
      PROVE  OccurrenceInv'
  <2>1. CASE Tick(p)
    BY <2>1, TickFacts, MoveKeepsOccurrences DEF Tick, storeVars, Running
  <2>2. CASE Search(p)
    <3>1. PICK r : /\ Becomes(p, r) /\ r.pid = proc[p].pid
                   /\ r.watch = proc[p].watch /\ r.run = proc[p].run
      BY <2>2, SearchFacts
    <3> QED
      BY <2>2, <3>1, MoveKeepsOccurrences DEF Search, At, storeVars, Running
  <2>3. CASE NothingDue(p) \/ StartRefused(p) \/ CompleteRefused(p)
    BY <2>3, ForgetKeepsOccurrences DEF NothingDue, StartRefused, CompleteRefused, storeVars
  <2> QED
    BY <1>1, <2>1, <2>2, <2>3, ClaimKeepsOccurrences, StartKeepsOccurrences,
       CompleteKeepsOccurrences DEF RunSteps
<1>2. ASSUME NEW p \in Procs, FlushSteps(p)
      PROVE  OccurrenceInv'
  <2>1. UNCHANGED <<watches, runs, watchRecords>>
    BY <1>2 DEF FlushSteps, BeginFlush, StampFlush, NothingPending, ClaimDelivery,
                ClaimPendingDelivery, Send, Oversized, Settle, CompleteDelivery,
                SettleRefused, storeVars
  <2>2. \E r : Becomes(p, r) /\ r.pc \notin Running
    <3>1. CASE NothingPending(p) \/ Settle(p) \/ SettleRefused(p)
      BY <3>1, ForgetFacts DEF NothingPending, Settle, SettleRefused, PcSet, Running
    <3>2. CASE BeginFlush(p)
      BY <3>2, BeginFlushFacts DEF Running
    <3>3. CASE StampFlush(p)
      BY <3>3, StampFlushFacts DEF Running
    <3>4. CASE ClaimDelivery(p)
      <4>1. PICK r : Becomes(p, r) /\ r.pc \in {"send", "settle"}
        BY <1>0, <3>4, ClaimDeliveryFacts
      <4> QED
        BY <4>1 DEF Running
    <3>5. CASE Send(p) \/ Oversized(p)
      <4>1. PICK r : Becomes(p, r) /\ r.pc = "settle"
        BY <3>5, SendFacts
      <4> QED
        BY <4>1 DEF Running
    <3> QED
      BY <1>2, <3>1, <3>2, <3>3, <3>4, <3>5 DEF FlushSteps
  <2> QED
    BY <2>1, <2>2, MoveKeepsOccurrences
<1>3. ASSUME NEW p \in Procs, FaultSteps(p)
      PROVE  OccurrenceInv'
  <2>1. PICK pc \in {"claim", "start", "complete", "claimDelivery", "settle"},
             next \in {"idle", "flush"} : CallFails(p, pc, next)
    BY <1>3 DEF FaultSteps
  <2> QED
    BY <2>1, ForgetKeepsOccurrences DEF CallFails, storeVars
<1>4. ASSUME NEW p \in Procs, Boot(p) \/ Crash(p)
      PROVE  OccurrenceInv'
  <2>1. PICK r : Becomes(p, r) /\ r.pc \notin Running
    BY <1>4, BootFacts, CrashFacts DEF Running
  <2> QED
    BY <1>4, <2>1, MoveKeepsOccurrences DEF Boot, Crash, storeVars
<1>5. CASE Advance \/ UNCHANGED nativeVars
  BY <1>5, QuietForOccurrences DEF Advance, nativeVars, storeVars
<1> QED
  BY <1>1, <1>2, <1>3, <1>4, <1>5, AddKeepsOccurrences, RemoveKeepsOccurrences DEF NativeNext

\* The schedule is always ahead of what was finished.
LEMMA OccurrenceAlways == NativeSpec => []OccurrenceInv
<1>1. NativeInit => OccurrenceInv
  <2> SUFFICES ASSUME NativeInit
               PROVE  OccurrenceInv
    OBVIOUS
  <2>1. watches = {} /\ runs = {} /\ watchRecords = {}
    BY DEF NativeInit, Init
  <2> QED
    BY <2>1 DEF OccurrenceInv, RunsTimed, ScheduleAhead, OwnsNext, OccurrenceCompletedOnce
<1>2. NativeSpec => []OutboxInv
  BY SchedulerUsesStore, OutboxAlways, PTL
<1> QED
  BY <1>1, <1>2, OccurrenceStep, ProcsAlways, PTL DEF NativeSpec

\* However many processes claim the same occurrence of a watch, because leases ran
\* out under slow searches, one of them completes it.  The schedule is what keeps
\* the others out: it is past the occurrence once one has completed it, so that a
\* process that owns the lease again works on a later one.
THEOREM OccurrencesCompleteOnce == NativeSpec => []OccurrenceCompletedOnce
<1>1. OccurrenceInv => OccurrenceCompletedOnce
  BY DEF OccurrenceInv
<1> QED
  BY <1>1, OccurrenceAlways, PTL

\* Neither the schedule nor the history of a watch ever runs backwards, although
\* every process stamps its completion with a time it read before.
THEOREM HistoryNeverRunsBack == NativeSpec => HistoryMonotone
<1> DEFINE Monotone ==
      /\ \A x \in watchRecords, y \in watchRecords' :
           x.watch = y.watch /\ x.record = y.record =>
             y.first = x.first /\ y.last >= x.last
      /\ \A x \in watches, y \in watches' :
           x.id = y.id => y.nextDue >= x.nextDue
<1>1. TypeOK /\ ProcsOK /\ OutboxInv /\ OccurrenceInv /\ [NativeNext]_nativeVars
        => [Monotone]_nativeVars
  <2> SUFFICES ASSUME TypeOK, ProcsOK, OutboxInv, OccurrenceInv, NativeNext
               PROVE  Monotone
    OBVIOUS
  <2>0. /\ \A x \in watchRecords : x.last \in Nat
        /\ \A x \in watches : x.nextDue \in Nat
    BY DEF TypeOK, WatchRecordRow, WatchRow
  <2>1. /\ \A x, y \in watchRecords : x.watch = y.watch /\ x.record = y.record => x = y
        /\ \A x, y \in watches : x.id = y.id => x = y
    BY DEF OutboxInv, KeysUnique
  <2>2. /\ watchRecords' \subseteq watchRecords =>
             \A x \in watchRecords, y \in watchRecords' :
               x.watch = y.watch /\ x.record = y.record =>
                 y.first = x.first /\ y.last >= x.last
        /\ watches' \subseteq watches =>
             \A x \in watches, y \in watches' : x.id = y.id => y.nextDue >= x.nextDue
    BY <2>0, <2>1
  <2>3. ASSUME watchRecords' \subseteq watchRecords, watches' \subseteq watches
        PROVE  Monotone
    BY <2>2, <2>3
  <2>4. ASSUME NEW p \in Procs, ClaimWatch(p)
        PROVE  Monotone
    <3>1. PICK x \in watches : ClaimDueWatch(x, proc[p].now, proc[p].pid, LeaseSeconds)
      BY <2>4 DEF ClaimWatch
    <3> DEFINE y == [x EXCEPT !.owner = proc[p].pid, !.expires = proc[p].now + LeaseSeconds]
    <3>2. y.id = x.id /\ y.nextDue = x.nextDue
      BY DEF TypeOK, WatchRow
    <3>3. watches' = (watches \ {x}) \cup {y} /\ watchRecords' = watchRecords
      BY <3>1 DEF ClaimDueWatch, Replace
    <3> HIDE DEF y
    <3>4. \A u \in watches, v \in watches' : u.id = v.id => v.nextDue >= u.nextDue
      BY <2>0, <2>1, <3>2, <3>3
    <3> QED
      BY <2>2, <3>3, <3>4
  <2>5. ASSUME NEW p \in Procs, CompleteRun(p)
        PROVE  Monotone
    <3>1. PICK x \in watches, y \in watches' :
             /\ x.id = proc[p].watch /\ y.id = x.id
             /\ watches' = Replace(watches, x, y)
             /\ x.nextDue <= proc[p].now /\ proc[p].now < y.nextDue
             /\ x.nextDue \in Nat /\ proc[p].now \in Nat /\ y.nextDue \in Nat
      BY <2>5, CompletionFacts
    <3>2. UpsertWatchRecords(proc[p].watch, proc[p].seen, proc[p].now)
      BY <2>5 DEF CompleteRun, CompleteWatchRun
    <3>3. \A u \in watches, v \in watches' : u.id = v.id => v.nextDue >= u.nextDue
      BY <2>0, <2>1, <3>1 DEF Replace
    <3>4. ASSUME NEW u \in watchRecords, NEW v \in watchRecords',
                 u.watch = v.watch, u.record = v.record
          PROVE  v.first = u.first /\ v.last >= u.last
      <4>1. CASE v \in watchRecords
        BY <2>0, <2>1, <3>4, <4>1
      <4>2. CASE v \notin watchRecords
        <5>1. /\ v.watch = proc[p].watch /\ v.last = proc[p].now
              /\ \/ v.record \in NewRecords(proc[p].watch, proc[p].seen)
                 \/ \E z \in watchRecords :
                      z.watch = proc[p].watch /\ z.record = v.record /\ z.first = v.first
          BY <3>2, <4>2, HistoryFacts
        <5>2. v.first = u.first
          BY <2>1, <3>4, <5>1 DEF NewRecords
        <5>3. u.last < x.nextDue /\ u.last \in Nat
          BY <2>0, <3>1, <3>4, <5>1 DEF OccurrenceInv, ScheduleAhead
        <5>4. v.last >= u.last
          BY <3>1, <5>1, <5>3
        <5> QED
          BY <5>2, <5>4
      <4> QED
        BY <4>1, <4>2
    <3> QED
      BY <3>3, <3>4
  <2>6. ASSUME AddWatch
        PROVE  Monotone
    <3>1. PICK w \in WatchIds, i \in Intervals : CreateWatch(w, i, clock)
      BY <2>6 DEF AddWatch
    <3> DEFINE y == NewWatch(w, i, clock)
    <3>2. y.id = w
      BY DEF NewWatch
    <3>3. /\ watches' = watches \cup {y} /\ watchRecords' = watchRecords
          /\ \A x \in watches : x.id # w
      BY <3>1 DEF CreateWatch
    <3> HIDE DEF y
    <3>4. \A u \in watches, v \in watches' : u.id = v.id => v.nextDue >= u.nextDue
      BY <2>0, <2>1, <3>2, <3>3
    <3> QED
      BY <2>2, <3>3, <3>4
  <2>7. ASSUME NEW p \in Procs, RunSteps(p)
        PROVE  Monotone
    <3>1. CASE StartRun(p)
      BY <2>3, <3>1 DEF StartRun, StartWatchRun
    <3>2. CASE Tick(p) \/ NothingDue(p) \/ StartRefused(p) \/ Search(p) \/ CompleteRefused(p)
      BY <2>3, <3>2 DEF Tick, NothingDue, StartRefused, Search, CompleteRefused, storeVars
    <3> QED
      BY <2>4, <2>5, <2>7, <3>1, <3>2 DEF RunSteps
  <2>8. ASSUME NEW p \in Procs, FlushSteps(p)
        PROVE  Monotone
    <3>1. UNCHANGED <<watches, watchRecords>>
      BY <2>8 DEF FlushSteps, BeginFlush, StampFlush, NothingPending, ClaimDelivery,
                  ClaimPendingDelivery, Send, Oversized, Settle, CompleteDelivery,
                  SettleRefused, storeVars
    <3> QED
      BY <2>3, <3>1
  <2>9. ASSUME NEW p \in Procs, FaultSteps(p) \/ Boot(p) \/ Crash(p)
        PROVE  Monotone
    BY <2>3, <2>9 DEF FaultSteps, CallFails, Boot, Crash, storeVars
  <2>10. CASE RemoveWatch \/ Advance
    BY <2>3, <2>10 DEF RemoveWatch, DeleteWatch, Advance, storeVars
  <2> HIDE DEF Monotone
  <2> QED
    BY <2>6, <2>7, <2>8, <2>9, <2>10 DEF NativeNext
<1>2. NativeSpec => []OutboxInv
  BY SchedulerUsesStore, OutboxAlways, PTL
<1> QED
  BY <1>1, <1>2, OccurrenceAlways, ProcsAlways, PTL DEF NativeSpec, HistoryMonotone

-----------------------------------------------------------------------------
(* The webhook requests that leave comsat serve: where they go, and how    *)
(* many there are of each delivery, over all processes, crashes, lease     *)
(* expiries and retries.                                                   *)

\* Process p works on the delivery of row d.
Handles(p, d) == proc[p].watch = d.watch /\ proc[p].run = d.run

\* The processes about to make a request for a row that is still there.
Attempting(w, run) ==
  {p \in Procs : /\ At(p, "send") /\ p \notin detached
                 /\ proc[p].watch = w /\ proc[p].run = run}

-----------------------------------------------------------------------------
(* Where requests go, and what a success means *)

DetachedSends == \A p \in detached : p \in Procs /\ At(p, "send")

\* A request is of a delivery that is there, and so is an attempt, which goes to
\* the destination the delivery was queued for.
SendsKnown ==
  /\ \A s \in sent : \E d \in deliveries : d.watch = s.watch /\ d.run = s.run
  /\ \A p \in Procs : At(p, "send") /\ p \notin detached =>
       \E d \in deliveries : Handles(p, d) /\ d.target = proc[p].config

\* Who holds the lease of a delivery works on the row it claimed, and reports a
\* success only of a request that was made.
LeaseMeansRow ==
  \A p \in Procs, d \in deliveries :
    Handles(p, d) /\ d.owner = proc[p].token =>
      /\ At(p, "send") => p \notin detached
      /\ At(p, "settle") /\ proc[p].ok => SendsOf(d.watch, d.run) # {}

\* The inductive invariant.
SendInv == DetachedSends /\ SendsKnown /\ LeaseMeansRow /\ SuccessWasSent

\* A step that leaves the outbox and the requests alone, and every process that
\* is making an attempt, and begins none.
LEMMA QuietForSends ==
  ASSUME SendInv, UNCHANGED <<deliveries, sent, detached>>,
         \A q \in Procs : /\ At(q, "send") => proc'[q] = proc[q]
                          /\ proc'[q].pc \in {"send", "settle"} => proc'[q] = proc[q]
  PROVE  SendInv'
<1> USE DEF At
<1>1. DetachedSends'
  BY DEF SendInv, DetachedSends
<1>2. SendsKnown'
  BY DEF SendInv, SendsKnown, Handles
<1>3. LeaseMeansRow'
  BY DEF SendInv, LeaseMeansRow, Handles, SendsOf
<1>4. SuccessWasSent'
  BY DEF SendInv, SuccessWasSent, SendsOf
<1> QED
  BY <1>1, <1>2, <1>3, <1>4 DEF SendInv

\* The common case: p was not making an attempt and begins none.
LEMMA MoveKeepsSends ==
  ASSUME SendInv, UNCHANGED <<deliveries, sent, detached>>,
         NEW p \in Procs, NEW r, Becomes(p, r), ~At(p, "send"), r.pc \notin {"send", "settle"}
  PROVE  SendInv'
<1>1. \A q \in Procs : /\ At(q, "send") => proc'[q] = proc[q]
                       /\ proc'[q].pc \in {"send", "settle"} => proc'[q] = proc[q]
  BY DEF Becomes
<1> QED
  BY <1>1, QuietForSends

\* Giving up a run or ending a flush makes no request.
LEMMA ForgetKeepsSends ==
  ASSUME ProcsOK, SendInv, UNCHANGED <<deliveries, sent, detached>>,
         NEW p \in Procs, NEW pc \in {"idle", "flush"}, ~At(p, "send"), Forget(p, pc)
  PROVE  SendInv'
<1>1. PICK r : Becomes(p, r) /\ r.pc = pc
  BY ForgetFacts DEF PcSet
<1> QED
  BY <1>1, MoveKeepsSends

\* A lease token is of one process: the claim of another is not mistaken for it.
LEMMA TokensApart ==
  ASSUME ProcsOK, PidsApart, NEW p \in Procs, NEW q \in Procs, p # q,
         proc[p].pc \in Flushing, proc[q].pc \in Flushing
  PROVE  proc[p].token # proc[q].token /\ proc[p].token # NULL
<1>1. ~At(p, "down") /\ ~At(q, "down")
  BY DEF Flushing, At
<1>2. proc[p].pid # proc[q].pid
  BY <1>1 DEF PidsApart
<1>3. PICK s \in Times, t \in Times :
        proc[p].token = <<proc[p].pid, s>> /\ proc[q].token = <<proc[q].pid, t>>
  BY DEF ProcsOK, ProcOK
<1>4. proc[p].token \in Owners
  BY CallArguments
<1> QED
  BY <1>2, <1>3, <1>4, StoreAssumption

\* What a claim does to the outbox: one row is taken over, with its key, its
\* destination and one more attempt.
LEMMA ClaimedDelivery ==
  ASSUME TypeOK, ProcsOK, NEW p \in Procs, NEW d \in deliveries,
         At(p, "claimDelivery"),
         ClaimPendingDelivery(d, proc[p].now, proc[p].token, DeliveryLease)
  PROVE  \E c : /\ deliveries' = (deliveries \ {d}) \cup {c}
                /\ c.watch = d.watch /\ c.run = d.run /\ c.target = d.target
                /\ c.attempts = d.attempts + 1 /\ c.status = "delivering"
                /\ c.owner = proc[p].token /\ c.expires = proc[p].now + DeliveryLease
<1> DEFINE c == ClaimedRow(d, proc[p].now, proc[p].token, DeliveryLease)
<1>0. d \in DeliveryRow
  BY DEF TypeOK
<1>1. /\ c.watch = d.watch /\ c.run = d.run /\ c.target = d.target
      /\ c.attempts = d.attempts + 1 /\ c.status = "delivering"
      /\ c.owner = proc[p].token /\ c.expires = proc[p].now + DeliveryLease
  BY <1>0 DEF DeliveryRow, ClaimedRow
<1>2. deliveries' = (deliveries \ {d}) \cup {c}
  BY DEF ClaimPendingDelivery, Replace
<1> HIDE DEF c
<1> QED
  BY <1>1, <1>2

\* A claim begins an attempt at a row of the outbox, at the destination it was
\* queued for.
LEMMA ClaimKeepsSends ==
  ASSUME TypeOK, TypeOK', ProcsOK, PidsApart, SendInv, NEW p \in Procs, ClaimDelivery(p)
  PROVE  SendInv'
<1>1. PICK d \in deliveries, e \in deliveries', r \in ProcRow :
           /\ ClaimPendingDelivery(d, proc[p].now, proc[p].token, DeliveryLease)
           /\ Becomes(p, r) /\ r.config = proc[p].config
           /\ r.token = proc[p].token /\ ~r.ok
           /\ r.watch = e.watch /\ r.run = e.run
           /\ \/ r.pc = "send" /\ MaySend(e, r.config)
              \/ r.pc = "settle"
  BY ClaimDeliveryFacts
<1>2. PICK c : /\ deliveries' = (deliveries \ {d}) \cup {c}
               /\ c.watch = d.watch /\ c.run = d.run /\ c.target = d.target
               /\ c.status = "delivering" /\ c.owner = proc[p].token
  BY <1>1, ClaimedDelivery DEF ClaimDelivery
<1>3. UNCHANGED <<sent, detached>> /\ At(p, "claimDelivery")
  BY DEF ClaimDelivery, history
<1>4. p \notin detached
  BY <1>3 DEF SendInv, DetachedSends, At
<1>5. \A f \in deliveries : \E g \in deliveries' :
        g.watch = f.watch /\ g.run = f.run /\ g.target = f.target
  BY <1>2
<1>6. DetachedSends'
  BY <1>1, <1>3, <1>4 DEF SendInv, DetachedSends, At, Becomes
<1>7. SendsKnown'
  <2>1. \A s \in sent' : \E f \in deliveries' : f.watch = s.watch /\ f.run = s.run
    BY <1>3, <1>5 DEF SendInv, SendsKnown
  <2>2. ASSUME NEW q \in Procs, proc'[q].pc = "send", q \notin detached'
        PROVE  \E f \in deliveries' : /\ proc'[q].watch = f.watch /\ proc'[q].run = f.run
                                      /\ f.target = proc'[q].config
    <3>1. CASE q = p
      BY <1>1, <2>2, <3>1 DEF Becomes, MaySend
    <3>2. CASE q # p
      BY <1>1, <1>3, <1>5, <2>2, <3>2 DEF Becomes, SendInv, SendsKnown, At, Handles
    <3> QED
      BY <3>1, <3>2
  <2> QED
    BY <2>1, <2>2 DEF SendsKnown, At, Handles
<1>8. LeaseMeansRow'
  <2>1. SUFFICES ASSUME NEW q \in Procs, NEW f \in deliveries', Handles(q, f)',
                        f.owner = proc'[q].token
                 PROVE  /\ proc'[q].pc = "send" => q \notin detached
                        /\ proc'[q].pc = "settle" /\ proc'[q].ok =>
                             SendsOf(f.watch, f.run) # {}
    BY <1>3 DEF LeaseMeansRow, At, SendsOf
  <2>2. CASE q = p
    BY <1>1, <1>4, <2>2 DEF Becomes
  <2>3. CASE q # p /\ proc'[q].pc \in {"send", "settle"}
    <3>1. proc'[q] = proc[q] /\ Handles(q, f)
      BY <1>1, <2>1, <2>3 DEF Becomes, Handles
    <3>2. proc[p].token # proc[q].token
      BY <1>3, <2>3, <3>1, TokensApart DEF At, Flushing
    <3>3. f \in deliveries
      BY <1>2, <2>1, <3>1, <3>2
    <3> QED
      BY <2>1, <3>1, <3>3 DEF SendInv, LeaseMeansRow, At
  <2> QED
    BY <2>2, <2>3
<1>9. SuccessWasSent'
  BY <1>2, <1>3 DEF SendInv, SuccessWasSent, SendsOf
<1> QED
  BY <1>6, <1>7, <1>8, <1>9 DEF SendInv

\* What Send adds to the requests.
LEMMA SentFacts ==
  ASSUME NEW p \in Procs, Send(p)
  PROVE  \E s : /\ s.watch = proc[p].watch /\ s.run = proc[p].run
                /\ s.target = proc[p].config
                /\ sent' = IF p \in detached THEN sent ELSE sent \cup {s}
<1> DEFINE s == [watch |-> proc[p].watch, run |-> proc[p].run, target |-> proc[p].config,
                 n |-> Cardinality(SendsOf(proc[p].watch, proc[p].run)) + 1]
<1>1. s.watch = proc[p].watch /\ s.run = proc[p].run /\ s.target = proc[p].config
  OBVIOUS
<1>2. sent' = IF p \in detached THEN sent ELSE sent \cup {s}
  BY DEF Send
<1> HIDE DEF s
<1> QED
  BY <1>1, <1>2

\* A request of a detached process is of no row; any other is of the row it claimed.
LEMMA SendKeepsSends ==
  ASSUME ProcsOK, OutboxInv, SendInv, NEW p \in Procs, Send(p)
  PROVE  SendInv'
<1>1. PICK s : /\ s.watch = proc[p].watch /\ s.run = proc[p].run
               /\ s.target = proc[p].config
               /\ sent' = IF p \in detached THEN sent ELSE sent \cup {s}
  BY SentFacts
<1>2. PICK r : /\ Becomes(p, r) /\ r.pc = "settle"
               /\ r.token = proc[p].token
               /\ r.watch = proc[p].watch /\ r.run = proc[p].run
  BY SendFacts
<1>3. detached' = detached \ {p} /\ deliveries' = deliveries /\ At(p, "send")
  BY DEF Send, storeVars
<1>4. sent \subseteq sent'
  BY <1>1
<1>5. p \notin detached =>
        \E d \in deliveries : Handles(p, d) /\ d.target = proc[p].config
  BY <1>3 DEF SendInv, SendsKnown
<1>6. DetachedSends'
  BY <1>2, <1>3 DEF SendInv, DetachedSends, Becomes, At
<1>7. SendsKnown'
  <2>1. \A u \in sent' : \E f \in deliveries' : f.watch = u.watch /\ f.run = u.run
    BY <1>1, <1>3, <1>5 DEF SendInv, SendsKnown, Handles
  <2>2. ASSUME NEW q \in Procs, proc'[q].pc = "send", q \notin detached'
        PROVE  \E f \in deliveries' : /\ proc'[q].watch = f.watch /\ proc'[q].run = f.run
                                      /\ f.target = proc'[q].config
    <3>1. q # p /\ proc'[q] = proc[q]
      BY <1>2, <2>2 DEF Becomes
    <3> QED
      BY <1>3, <2>2, <3>1 DEF SendInv, SendsKnown, At, Handles
  <2> QED
    BY <2>1, <2>2 DEF SendsKnown, At, Handles
<1>8. LeaseMeansRow'
  <2>1. SUFFICES ASSUME NEW q \in Procs, NEW f \in deliveries, Handles(q, f)',
                        f.owner = proc'[q].token
                 PROVE  /\ proc'[q].pc = "send" => q \notin detached'
                        /\ proc'[q].pc = "settle" /\ proc'[q].ok =>
                             \E u \in sent' : u.watch = f.watch /\ u.run = f.run
    BY <1>3 DEF LeaseMeansRow, At, SendsOf
  <2>2. CASE q = p
    <3>1. proc'[p] = r /\ Handles(p, f) /\ f.owner = proc[p].token
      BY <1>2, <2>1, <2>2 DEF Becomes, Handles
    <3>2. p \notin detached
      BY <1>3, <3>1 DEF SendInv, LeaseMeansRow
    <3>3. s \in sent' /\ s.watch = f.watch /\ s.run = f.run
      BY <1>1, <3>1, <3>2 DEF Handles
    <3> QED
      BY <1>2, <2>2, <3>1, <3>3
  <2>3. CASE q # p
    <3>1. proc'[q] = proc[q] /\ Handles(q, f)
      BY <1>2, <2>1, <2>3 DEF Becomes, Handles
    <3> QED
      BY <1>3, <1>4, <2>1, <3>1 DEF SendInv, LeaseMeansRow, At, SendsOf
  <2> QED
    BY <2>2, <2>3
<1>9. SuccessWasSent'
  <2>1. ASSUME NEW d \in deliveries, NEW u \in sent', u.watch = d.watch, u.run = d.run
        PROVE  u.target = d.target
    <3>1. CASE u \in sent
      BY <2>1, <3>1 DEF SendInv, SuccessWasSent, SendsOf
    <3>2. CASE u = s /\ p \notin detached
      <4>1. PICK e \in deliveries : Handles(p, e) /\ e.target = proc[p].config
        BY <1>5, <3>2
      <4>2. e = d
        BY <1>1, <2>1, <3>2, <4>1 DEF Handles, OutboxInv, KeysUnique
      <4> QED
        BY <1>1, <3>2, <4>1, <4>2
    <3> QED
      BY <1>1, <3>1, <3>2
  <2>2. ASSUME NEW d \in deliveries, d.status = "succeeded"
        PROVE  \E u \in sent' : u.watch = d.watch /\ u.run = d.run
    BY <1>4, <2>2 DEF SendInv, SuccessWasSent, SendsOf
  <2> QED
    BY <1>3, <2>1, <2>2 DEF SuccessWasSent, SendsOf
<1> QED
  BY <1>6, <1>7, <1>8, <1>9 DEF SendInv

\* Neither an oversized payload nor a crash makes a request.
LEMMA EndsWithoutRequest ==
  ASSUME SendInv, NEW p \in Procs, NEW r, Becomes(p, r), r.pc # "send",
         r.pc = "settle" => ~r.ok,
         UNCHANGED <<deliveries, sent>>, detached' = detached \ {p}
  PROVE  SendInv'
<1>1. DetachedSends'
  BY DEF SendInv, DetachedSends, Becomes, At
<1>2. SendsKnown'
  BY DEF SendInv, SendsKnown, Becomes, At, Handles
<1>3. LeaseMeansRow'
  <2>1. SUFFICES ASSUME NEW q \in Procs, NEW f \in deliveries, Handles(q, f)',
                        f.owner = proc'[q].token
                 PROVE  /\ proc'[q].pc = "send" => q \notin detached'
                        /\ proc'[q].pc = "settle" /\ proc'[q].ok =>
                             SendsOf(f.watch, f.run) # {}
    BY DEF LeaseMeansRow, At, SendsOf
  <2>2. CASE q = p
    BY <2>2 DEF Becomes
  <2>3. CASE q # p
    <3>1. proc'[q] = proc[q] /\ Handles(q, f)
      BY <2>1, <2>3 DEF Becomes, Handles
    <3> QED
      BY <2>1, <3>1 DEF SendInv, LeaseMeansRow, At
  <2> QED
    BY <2>2, <2>3
<1>4. SuccessWasSent'
  BY DEF SendInv, SuccessWasSent, SendsOf
<1> QED
  BY <1>1, <1>2, <1>3, <1>4 DEF SendInv

\* What the result of an attempt does to the outbox.
LEMMA SettledDelivery ==
  ASSUME TypeOK, ProcsOK, NEW p \in Procs, Settle(p)
  PROVE  \E d \in deliveries, c \in deliveries' :
           /\ deliveries' = (deliveries \ {d}) \cup {c}
           /\ Handles(p, d) /\ d.owner = proc[p].token
           /\ c.watch = d.watch /\ c.run = d.run /\ c.target = d.target
           /\ c.attempts = d.attempts /\ c.owner = NULL
           /\ c.status = "succeeded" => proc[p].ok
<1> DEFINE ok == proc[p].ok
<1>1. PICK d \in DeliveryUnderLease(proc[p].watch, proc[p].run, proc[p].token, proc[p].now) :
        deliveries' = Replace(deliveries, d, CompletedRow(d, proc[p].now, ok))
  BY DEF Settle, CompleteDelivery
<1>2. d \in deliveries /\ Handles(p, d) /\ d.owner = proc[p].token
  BY DEF DeliveryUnderLease, DeliveryOf, LeaseHeld, Handles
<1> DEFINE c == CompletedRow(d, proc[p].now, ok)
<1>3. d \in DeliveryRow
  BY <1>2 DEF TypeOK
<1>4. /\ c.watch = d.watch /\ c.run = d.run /\ c.target = d.target
      /\ c.attempts = d.attempts /\ c.owner = NULL
      /\ c.status = CompletedStatus(d, ok)
  BY <1>3 DEF DeliveryRow, CompletedRow
<1>5. CompletedStatus(d, ok) = "succeeded" => ok
  BY DEF CompletedStatus
<1>6. deliveries' = (deliveries \ {d}) \cup {c}
  BY <1>1 DEF Replace
<1> HIDE DEF c
<1>7. c.status = "succeeded" => proc[p].ok
  BY <1>4, <1>5
<1> QED
  BY <1>2, <1>4, <1>6, <1>7

\* A success is written by the holder of the lease, who has made a request for that
\* very row.
LEMMA SettleKeepsSends ==
  ASSUME TypeOK, ProcsOK, SendInv, NEW p \in Procs, Settle(p)
  PROVE  SendInv'
<1>1. PICK d \in deliveries, c \in deliveries' :
           /\ deliveries' = (deliveries \ {d}) \cup {c}
           /\ Handles(p, d) /\ d.owner = proc[p].token
           /\ c.watch = d.watch /\ c.run = d.run /\ c.target = d.target /\ c.owner = NULL
           /\ c.status = "succeeded" => proc[p].ok
  BY SettledDelivery
<1>2. PICK r : Becomes(p, r) /\ r.pc = "idle"
  BY ForgetFacts DEF Settle, PcSet
<1>3. UNCHANGED <<sent, detached>> /\ At(p, "settle")
  BY DEF Settle, history
<1>4. \A f \in deliveries : \E g \in deliveries' :
        g.watch = f.watch /\ g.run = f.run /\ g.target = f.target
  BY <1>1
<1>5. DetachedSends'
  BY <1>2, <1>3 DEF SendInv, DetachedSends, At, Becomes
<1>6. SendsKnown'
  <2>1. \A s \in sent' : \E f \in deliveries' : f.watch = s.watch /\ f.run = s.run
    BY <1>3, <1>4 DEF SendInv, SendsKnown
  <2>2. ASSUME NEW q \in Procs, proc'[q].pc = "send", q \notin detached'
        PROVE  \E f \in deliveries' : /\ proc'[q].watch = f.watch /\ proc'[q].run = f.run
                                      /\ f.target = proc'[q].config
    BY <1>2, <1>3, <1>4, <2>2 DEF Becomes, SendInv, SendsKnown, At, Handles
  <2> QED
    BY <2>1, <2>2 DEF SendsKnown, At, Handles
<1>7. LeaseMeansRow'
  <2>1. SUFFICES ASSUME NEW q \in Procs, NEW f \in deliveries', Handles(q, f)',
                        f.owner = proc'[q].token, proc'[q].pc \in {"send", "settle"}
                 PROVE  /\ proc'[q].pc = "send" => q \notin detached
                        /\ proc'[q].pc = "settle" /\ proc'[q].ok =>
                             SendsOf(f.watch, f.run) # {}
    BY <1>3 DEF LeaseMeansRow, At, SendsOf
  <2>2. q # p /\ proc'[q] = proc[q] /\ Handles(q, f)
    BY <1>2, <2>1 DEF Becomes, Handles
  <2>3. proc[q].token # NULL
    BY <2>1, <2>2, CallArguments, StoreAssumption DEF Flushing
  <2>4. f \in deliveries
    BY <1>1, <2>1, <2>2, <2>3
  <2> QED
    BY <2>1, <2>2, <2>4 DEF SendInv, LeaseMeansRow, At
<1>8. SuccessWasSent'
  <2>1. c.status = "succeeded" => SendsOf(d.watch, d.run) # {}
    BY <1>1, <1>3 DEF SendInv, LeaseMeansRow
  <2> QED
    BY <1>1, <1>3, <2>1 DEF SendInv, SuccessWasSent, SendsOf
<1> QED
  BY <1>5, <1>6, <1>7, <1>8 DEF SendInv

\* A row that is queued is new: nothing was sent under its key, and nobody is
\* about to.
LEMMA QueuedDelivery ==
  ASSUME OutboxInv, SendInv, NEW p \in Procs, CompleteRun(p)
  PROVE  \/ deliveries' = deliveries
         \/ \E c : /\ deliveries' = deliveries \cup {c}
                   /\ c.status = "pending" /\ c.owner = NULL /\ c.attempts = 0
                   /\ SendsOf(c.watch, c.run) = {} /\ Attempting(c.watch, c.run) = {}
<1> DEFINE w == proc[p].watch
           run == proc[p].run
           c == NewDelivery(w, run, proc[p].config, NewRecords(w, proc[p].seen), proc[p].now)
<1>1. RunningRun(w, run, proc[p].pid) # {}
  BY DEF CompleteRun, CompleteWatchRun
<1>2. DeliveryOf(w, run) = {}
  BY <1>1, CompletingRunHasNoBatch
<1>3. deliveries' = deliveries \/ deliveries' = deliveries \cup {c}
  BY DEF CompleteRun, CompleteWatchRun, InsertRunDelivery
<1>4. c.status = "pending" /\ c.owner = NULL /\ c.attempts = 0 /\ c.watch = w /\ c.run = run
  BY DEF NewDelivery
<1>5. SendsOf(w, run) = {}
  BY <1>2 DEF SendInv, SendsKnown, SendsOf, DeliveryOf
<1>6. Attempting(w, run) = {}
  BY <1>2 DEF SendInv, SendsKnown, Attempting, Handles, DeliveryOf
<1> HIDE DEF c
<1> QED
  BY <1>3, <1>4, <1>5, <1>6

\* A completed run queues a delivery that is pending, and takes none away.
LEMMA QueueKeepsSends ==
  ASSUME ProcsOK, OutboxInv, SendInv, NEW p \in Procs, CompleteRun(p)
  PROVE  SendInv'
<1>1. PICK r : Becomes(p, r) /\ r.pc = "flush"
  BY ForgetFacts DEF CompleteRun, PcSet
<1>2. UNCHANGED <<sent, detached>> /\ At(p, "complete")
  BY DEF CompleteRun, history
<1>3. CASE deliveries' = deliveries
  BY <1>1, <1>2, <1>3, MoveKeepsSends DEF At
<1>4. CASE deliveries' # deliveries
  <2>1. PICK c : /\ deliveries' = deliveries \cup {c}
                 /\ c.status = "pending" /\ c.owner = NULL
                 /\ SendsOf(c.watch, c.run) = {}
    BY <1>4, QueuedDelivery
  <2>2. DetachedSends'
    BY <1>1, <1>2 DEF SendInv, DetachedSends, At, Becomes
  <2>3. SendsKnown'
    BY <1>1, <1>2, <2>1 DEF SendInv, SendsKnown, Becomes, At, Handles
  <2>4. LeaseMeansRow'
    <3>1. SUFFICES ASSUME NEW q \in Procs, NEW f \in deliveries', Handles(q, f)',
                          f.owner = proc'[q].token, proc'[q].pc \in {"send", "settle"}
                   PROVE  /\ proc'[q].pc = "send" => q \notin detached
                          /\ proc'[q].pc = "settle" /\ proc'[q].ok =>
                               SendsOf(f.watch, f.run) # {}
      BY <1>2 DEF LeaseMeansRow, At, SendsOf
    <3>2. q # p /\ proc'[q] = proc[q] /\ Handles(q, f)
      BY <1>1, <3>1 DEF Becomes, Handles
    <3>3. proc[q].token # NULL
      BY <3>1, <3>2, CallArguments, StoreAssumption DEF Flushing
    <3>4. f \in deliveries
      BY <2>1, <3>1, <3>2, <3>3
    <3> QED
      BY <3>1, <3>2, <3>4 DEF SendInv, LeaseMeansRow, At
  <2>5. SuccessWasSent'
    BY <1>2, <2>1 DEF SendInv, SuccessWasSent, SendsOf
  <2> QED
    BY <2>2, <2>3, <2>4, <2>5 DEF SendInv
<1> QED
  BY <1>3, <1>4

\* A deletion takes the requests of the watch with it and detaches the attempts.
LEMMA RemoveKeepsSends ==
  ASSUME SendInv, RemoveWatch
  PROVE  SendInv'
<1>1. PICK x \in watches :
        /\ deliveries' = {d \in deliveries : d.watch # x.id}
        /\ sent' = {s \in sent : s.watch # x.id}
        /\ detached' = detached \cup {p \in Procs : At(p, "send") /\ proc[p].watch = x.id}
        /\ proc' = proc
  BY DEF RemoveWatch, DeleteWatch
<1>2. DetachedSends'
  BY <1>1 DEF SendInv, DetachedSends, At
<1>3. SendsKnown'
  BY <1>1 DEF SendInv, SendsKnown, At, Handles
<1>4. LeaseMeansRow'
  BY <1>1 DEF SendInv, LeaseMeansRow, At, Handles, SendsOf
<1>5. SuccessWasSent'
  BY <1>1 DEF SendInv, SuccessWasSent, SendsOf
<1> QED
  BY <1>2, <1>3, <1>4, <1>5 DEF SendInv

\* A step that neither touches the outbox and the requests nor begins or ends an
\* attempt.
QuietStep ==
  /\ UNCHANGED <<deliveries, sent, detached>>
  /\ \/ proc' = proc
     \/ \E p \in Procs : \E r :
          Becomes(p, r) /\ ~At(p, "send") /\ r.pc \notin {"send", "settle"}

\* The steps the outbox and the requests depend on, and all others.
LEMMA StepKinds ==
  TypeOK /\ ProcsOK /\ [NativeNext]_nativeVars =>
    \/ QuietStep
    \/ RemoveWatch
    \/ \E p \in Procs : \/ CompleteRun(p) \/ ClaimDelivery(p) \/ Send(p) \/ Oversized(p)
                        \/ Settle(p) \/ Crash(p)
<1> SUFFICES ASSUME TypeOK, ProcsOK, [NativeNext]_nativeVars, ~RemoveWatch,
                    \A p \in Procs : /\ ~CompleteRun(p) /\ ~ClaimDelivery(p) /\ ~Send(p)
                                     /\ ~Oversized(p) /\ ~Settle(p) /\ ~Crash(p)
             PROVE  QuietStep
  BY Zenon
<1>1. ASSUME NEW p \in Procs, NEW pc \in {"idle", "flush"}, ~At(p, "send"), Forget(p, pc)
      PROVE  \E r : Becomes(p, r) /\ r.pc \notin {"send", "settle"}
  BY <1>1, ForgetFacts DEF PcSet
<1>2. ASSUME NEW p \in Procs, RunSteps(p)
      PROVE  QuietStep
  <2>1. UNCHANGED <<deliveries, sent, detached>> /\ ~At(p, "send")
    BY <1>2 DEF RunSteps, Tick, ClaimWatch, ClaimDueWatch, NothingDue, StartRun, StartWatchRun,
                StartRefused, Search, CompleteRefused, At, storeVars, history
  <2>2. CASE NothingDue(p) \/ StartRefused(p) \/ CompleteRefused(p)
    BY <1>1, <2>1, <2>2 DEF NothingDue, StartRefused, CompleteRefused, QuietStep
  <2>3. CASE Tick(p)
    <3>1. PICK r : Becomes(p, r) /\ r.pc = "claim"
      BY <2>3, TickFacts
    <3> QED
      BY <2>1, <3>1 DEF QuietStep
  <2>4. CASE ClaimWatch(p)
    <3>1. PICK r : Becomes(p, r) /\ r.pc = "start"
      BY <2>4, ClaimWatchFacts
    <3> QED
      BY <2>1, <3>1 DEF QuietStep
  <2>5. CASE StartRun(p) \/ Search(p)
    <3>1. PICK r : Becomes(p, r) /\ r.pc \in {"search", "complete"}
      BY <2>5, StartRunFacts, SearchFacts
    <3> QED
      BY <2>1, <3>1 DEF QuietStep
  <2> QED
    BY <1>2, <2>2, <2>3, <2>4, <2>5 DEF RunSteps
<1>3. ASSUME NEW p \in Procs, FlushSteps(p)
      PROVE  QuietStep
  <2>1. UNCHANGED <<deliveries, sent, detached>> /\ ~At(p, "send")
    BY <1>3 DEF FlushSteps, BeginFlush, StampFlush, NothingPending, SettleRefused, At,
                storeVars, history
  <2>2. CASE NothingPending(p) \/ SettleRefused(p)
    BY <1>1, <2>1, <2>2 DEF NothingPending, SettleRefused, QuietStep
  <2>3. CASE BeginFlush(p)
    <3>1. PICK r : Becomes(p, r) /\ r.pc \in {"idle", "stamp"}
      BY <2>3, BeginFlushFacts
    <3> QED
      BY <2>1, <3>1 DEF QuietStep
  <2>4. CASE StampFlush(p)
    <3>1. PICK r : Becomes(p, r) /\ r.pc = "claimDelivery"
      BY <2>4, StampFlushFacts
    <3> QED
      BY <2>1, <3>1 DEF QuietStep
  <2> QED
    BY <1>3, <2>2, <2>3, <2>4 DEF FlushSteps
<1>4. ASSUME NEW p \in Procs, FaultSteps(p)
      PROVE  QuietStep
  <2>1. PICK pc \in {"claim", "start", "complete", "claimDelivery", "settle"},
             next \in {"idle", "flush"} : CallFails(p, pc, next)
    BY <1>4 DEF FaultSteps
  <2>2. UNCHANGED <<deliveries, sent, detached>> /\ ~At(p, "send") /\ Forget(p, next)
    BY <2>1 DEF CallFails, At, storeVars, history
  <2> QED
    BY <1>1, <2>2 DEF QuietStep
<1>5. ASSUME NEW p \in Procs, Boot(p)
      PROVE  QuietStep
  <2>1. PICK r : Becomes(p, r) /\ r.pc = "idle"
    BY <1>5, BootFacts
  <2> QED
    BY <1>5, <2>1 DEF QuietStep, Boot, At, storeVars, history
<1>6. CASE AddWatch \/ Advance \/ UNCHANGED nativeVars
  BY <1>6 DEF AddWatch, CreateWatch, Advance, nativeVars, storeVars, history, QuietStep
<1> QED
  BY <1>2, <1>3, <1>4, <1>5, <1>6 DEF NativeNext

\* Every step, action by action.
LEMMA SendStep ==
  TypeOK /\ ProcsOK /\ PidsApart /\ OutboxInv /\ SendInv /\ [NativeNext]_nativeVars => SendInv'
<1> SUFFICES ASSUME TypeOK, ProcsOK, PidsApart, OutboxInv, SendInv, [NativeNext]_nativeVars
             PROVE  SendInv'
  OBVIOUS
<1>0. TypeOK'
  BY StoreStep, TypeStep
<1>1. CASE QuietStep
  <2>1. CASE proc' = proc
    BY <1>1, <2>1, QuietForSends DEF QuietStep
  <2> QED
    BY <1>1, <2>1, MoveKeepsSends DEF QuietStep
<1>2. ASSUME NEW p \in Procs, Oversized(p)
      PROVE  SendInv'
  <2>1. PICK r : Becomes(p, r) /\ r.pc = "settle" /\ ~r.ok
    BY <1>2, SendFacts
  <2> QED
    BY <1>2, <2>1, EndsWithoutRequest DEF Oversized, storeVars
<1>3. ASSUME NEW p \in Procs, Crash(p)
      PROVE  SendInv'
  <2>1. PICK r : Becomes(p, r) /\ r.pc = "down"
    BY <1>3, CrashFacts
  <2> QED
    BY <1>3, <2>1, EndsWithoutRequest DEF Crash, storeVars
<1> QED
  BY <1>0, <1>1, <1>2, <1>3, StepKinds, ClaimKeepsSends, SendKeepsSends, SettleKeepsSends,
     QueueKeepsSends, RemoveKeepsSends

\* What the store guarantees any client, it guarantees the scheduler.
LEMMA StoreAlways == NativeSpec => [](OutboxInv /\ LeaseColumns)
BY SchedulerUsesStore, OutboxAlways, LeaseColumnsHold, PTL

\* What was sent and what is being sent is always of a delivery in the outbox.
LEMMA SendAlways == NativeSpec => []SendInv
<1>1. NativeInit => SendInv
  <2> SUFFICES ASSUME NativeInit
               PROVE  SendInv
    OBVIOUS
  <2>1. deliveries = {} /\ sent = {} /\ detached = {}
    BY DEF NativeInit, Init
  <2>2. \A p \in Procs : ~At(p, "send")
    <3>1. Fresh("down", NULL, NULL).pc = "down"
      BY FreshFacts DEF PcSet
    <3> QED
      BY <3>1 DEF NativeInit, At
  <2> QED
    BY <2>1, <2>2 DEF SendInv, DetachedSends, SendsKnown, LeaseMeansRow, SuccessWasSent
<1> QED
  BY <1>1, SendStep, ProcsAlways, StoreAlways, PTL DEF NativeSpec

\* A delivery recorded as succeeded was posted, and no request went anywhere but to
\* the destination the delivery was queued for: whatever store calls fail, and
\* although the webhook may be reconfigured between queueing and sending.
THEOREM SuccessesWereSent == NativeSpec => []SuccessWasSent
<1>1. SendInv => SuccessWasSent
  BY DEF SendInv
<1> QED
  BY <1>1, SendAlways, PTL

-----------------------------------------------------------------------------
(* How often a delivery is attempted.  From here on the result of an attempt   *)
(* is always written or refused: when that call fails instead, a process can   *)
(* use a lease token twice within a second, and the run NativeSendLimit        *)
(* shows what comes of it.                                                     *)

\* What process q knows of a row d in delivery under its pid: it is the row of its
\* own attempt, or a row it has lost, claimed under an earlier token.
Past(q, d, t) ==
  \/ /\ q.pc \in {"send", "settle"} /\ d.owner = q.token
     /\ q.watch = d.watch /\ q.run = d.run
  \/ q.pc \in Flushing /\ d.owner[2] < q.token[2]
  \/ q.pc \notin Flushing /\ d.owner[2] < t

TokensUsed ==
  \A d \in deliveries : d.owner # NULL =>
    /\ d.owner[1] \in usedPids /\ d.owner[2] \in Times
    /\ d.expires \in Nat /\ d.owner[2] < d.expires
    /\ \A p \in Procs : proc[p].pc # "down" /\ proc[p].pid = d.owner[1] =>
         Past(proc[p], d, clock)

\* One process moves, and no row is claimed: only what that process knows changes.
LEMMA MoveKeepsTokens ==
  ASSUME TokensUsed, NEW p \in Procs, NEW r, Becomes(p, r),
         clock' = clock, usedPids \subseteq usedPids',
         \A f \in deliveries' : f.owner # NULL =>
           /\ f \in deliveries
           /\ r.pc # "down" /\ r.pid = f.owner[1] => Past(r, f, clock)
  PROVE  TokensUsed'
<1> SUFFICES ASSUME NEW d \in deliveries', d.owner # NULL
             PROVE  /\ d.owner[1] \in usedPids' /\ d.owner[2] \in Times
                    /\ d.expires \in Nat /\ d.owner[2] < d.expires
                    /\ \A q \in Procs : proc'[q].pc # "down" /\ proc'[q].pid = d.owner[1] =>
                         Past(proc'[q], d, clock)
  BY DEF TokensUsed
<1>1. d \in deliveries /\ (r.pc # "down" /\ r.pid = d.owner[1] => Past(r, d, clock))
  OBVIOUS
<1>2. /\ d.owner[1] \in usedPids /\ d.owner[2] \in Times
      /\ d.expires \in Nat /\ d.owner[2] < d.expires
  BY <1>1 DEF TokensUsed
<1>3. ASSUME NEW q \in Procs, proc'[q].pc # "down", proc'[q].pid = d.owner[1]
      PROVE  Past(proc'[q], d, clock)
  <2>1. CASE q = p
    BY <1>1, <1>3, <2>1 DEF Becomes
  <2>2. CASE q # p
    BY <1>1, <1>3, <2>2 DEF Becomes, TokensUsed
  <2> QED
    BY <2>1, <2>2
<1> QED
  BY <1>2, <1>3

\* A process outside an attempt goes on outside one.
LEMMA MoveOutside ==
  ASSUME TokensUsed, NEW p \in Procs, NEW r, Becomes(p, r), r.pid = proc[p].pid,
         ~At(p, "down"), proc[p].pc \notin Flushing, r.pc \notin Flushing,
         UNCHANGED <<clock, usedPids>>,
         \A f \in deliveries' : f.owner # NULL => f \in deliveries
  PROVE  TokensUsed'
<1>1. ASSUME NEW f \in deliveries', f.owner # NULL, r.pid = f.owner[1]
      PROVE  Past(r, f, clock)
  <2>1. Past(proc[p], f, clock)
    BY <1>1 DEF TokensUsed, At
  <2> QED
    BY <2>1 DEF Past, Flushing
<1> QED
  BY <1>1, MoveKeepsTokens

\* A process that holds no lease any more has only tokens of the past.
LEMMA MoveAway ==
  ASSUME ProcsOK, TokensUsed, NEW p \in Procs, NEW r, Becomes(p, r), r.pid = proc[p].pid,
         proc[p].pc \in Flushing, r.pc \notin Flushing, UNCHANGED <<clock, usedPids>>,
         \A f \in deliveries' : f.owner # NULL =>
           /\ f \in deliveries
           /\ f.owner = proc[p].token /\ Handles(p, f) => f.expires <= clock
  PROVE  TokensUsed'
<1>0. PICK s \in Times : proc[p].token = <<proc[p].pid, s>> /\ s <= clock
  BY DEF ProcsOK, ProcOK
<1>00. s \in Nat /\ clock \in Nat /\ proc[p].token[2] = s /\ proc[p].pc # "down"
  BY <1>0, TimesFacts DEF ProcsOK, Flushing
<1>1. ASSUME NEW f \in deliveries', f.owner # NULL, r.pid = f.owner[1]
      PROVE  Past(r, f, clock)
  <2>1. /\ Past(proc[p], f, clock) /\ f.owner[2] \in Nat
        /\ f.expires \in Nat /\ f.owner[2] < f.expires
    BY <1>00, <1>1, TimesFacts DEF TokensUsed
  <2>2. f.owner[2] < clock
    <3>1. CASE f.owner = proc[p].token /\ Handles(p, f)
      <4>1. f.expires <= clock
        BY <1>1, <3>1
      <4> QED
        BY <1>00, <2>1, <4>1
    <3>2. CASE f.owner[2] < proc[p].token[2]
      BY <1>0, <1>00, <2>1, <3>2
    <3> QED
      BY <2>1, <3>1, <3>2 DEF Past, Handles
  <2> QED
    BY <2>2 DEF Past
<1> QED
  BY <1>1, MoveKeepsTokens

\* The token of a new attempt is later than all the process has used.
LEMMA BeginKeepsTokens ==
  ASSUME ProcsOK, TokensUsed, NEW p \in Procs, BeginFlush(p)
  PROVE  TokensUsed'
<1>1. PICK r : /\ Becomes(p, r) /\ r.pid = proc[p].pid
               /\ \/ r.pc = "idle"
                  \/ r.pc = "stamp" /\ r.token = <<proc[p].pid, clock>>
  BY BeginFlushFacts
<1>2. UNCHANGED <<deliveries, clock, usedPids>> /\ proc[p].pc = "flush"
  BY DEF BeginFlush, At, storeVars
<1>3. ASSUME NEW f \in deliveries, f.owner # NULL, r.pid = f.owner[1]
      PROVE  Past(r, f, clock)
  <2>1. Past(proc[p], f, clock)
    BY <1>1, <1>2, <1>3 DEF TokensUsed
  <2>2. f.owner[2] < clock
    BY <1>2, <2>1 DEF Past, Flushing
  <2> QED
    BY <1>1, <2>2 DEF Past, Flushing
<1> QED
  BY <1>1, <1>2, <1>3, MoveKeepsTokens

\* The row fetched after a claim is the row that was claimed.
LEMMA FetchesOwnClaim ==
  ASSUME TypeOK, ProcsOK, TokensUsed, NEW p \in Procs, At(p, "claimDelivery"),
         NEW d \in deliveries, NEW c, deliveries' = (deliveries \ {d}) \cup {c},
         NEW e \in deliveries', e.owner = proc[p].token
  PROVE  e = c
<1>0. PICK s \in Times : proc[p].token = <<proc[p].pid, s>>
  BY DEF At, Flushing, ProcsOK, ProcOK
<1>1. proc[p].token # NULL /\ s \in Nat
  BY <1>0, CallArguments, StoreAssumption, TimesFacts DEF At, Flushing
<1>2. SUFFICES ASSUME e \in deliveries
               PROVE  FALSE
  OBVIOUS
<1>3. Past(proc[p], e, clock)
  <2>1. e.owner # NULL /\ e.owner[1] = proc[p].pid /\ proc[p].pc # "down"
    BY <1>0, <1>1 DEF At
  <2> QED
    BY <1>2, <2>1 DEF TokensUsed
<1>4. e.owner[2] < proc[p].token[2]
  BY <1>3 DEF Past, At, Flushing
<1> QED
  BY <1>0, <1>1, <1>4

\* A claim: the token is later than every token of the same pid in the outbox, since
\* no call under an older one was left without an answer.
LEMMA ClaimKeepsTokens ==
  ASSUME TypeOK, TypeOK', ProcsOK, PidsApart, TokensUsed, NEW p \in Procs, ClaimDelivery(p)
  PROVE  TokensUsed'
<1>1. PICK d \in deliveries, e \in deliveries', r \in ProcRow :
           /\ ClaimPendingDelivery(d, proc[p].now, proc[p].token, DeliveryLease)
           /\ e.owner = proc[p].token
           /\ Becomes(p, r) /\ r.pid = proc[p].pid /\ r.token = proc[p].token
           /\ r.watch = e.watch /\ r.run = e.run /\ r.pc \in {"send", "settle"}
  BY ClaimDeliveryFacts
<1>2. At(p, "claimDelivery") /\ UNCHANGED <<clock, usedPids>>
  BY DEF ClaimDelivery
<1>3. PICK c : /\ deliveries' = (deliveries \ {d}) \cup {c}
               /\ c.owner = proc[p].token /\ c.expires = proc[p].now + DeliveryLease
  BY <1>1, <1>2, ClaimedDelivery
<1>4. e = c
  BY <1>1, <1>2, <1>3, FetchesOwnClaim
<1>5. PICK s \in Times : proc[p].token = <<proc[p].pid, s>> /\ s <= proc[p].now
  BY <1>2 DEF At, Flushing, ProcsOK, ProcOK
<1>6. s \in Nat /\ proc[p].now \in Nat /\ DeliveryLease \in Nat \ {0}
  BY CallArguments, TimesFacts, NativeAssumption, StoreAssumption
<1>7. c.expires \in Nat /\ s < c.expires
  BY <1>3, <1>5, <1>6
<1>8. c.owner[1] = proc[p].pid /\ c.owner[2] = s /\ proc[p].pid \in usedPids
  BY <1>2, <1>3, <1>5 DEF PidsApart, At
<1>9. SUFFICES ASSUME NEW f \in deliveries', f.owner # NULL
               PROVE  /\ f.owner[1] \in usedPids /\ f.owner[2] \in Times
                      /\ f.expires \in Nat /\ f.owner[2] < f.expires
                      /\ \A q \in Procs : proc'[q].pc # "down" /\ proc'[q].pid = f.owner[1] =>
                           Past(proc'[q], f, clock)
  BY <1>2 DEF TokensUsed
<1>10. CASE f = c
  <2>1. ASSUME NEW q \in Procs, proc'[q].pc # "down", proc'[q].pid = f.owner[1]
        PROVE  Past(proc'[q], f, clock)
    <3>1. q = p
      BY <1>1, <1>2, <1>8, <1>10, <2>1 DEF PidsApart, Becomes, At
    <3>2. proc'[q] = r
      BY <1>1, <3>1 DEF Becomes
    <3> QED
      BY <1>1, <1>3, <1>4, <1>10, <3>2 DEF Past
  <2> QED
    BY <1>7, <1>8, <1>10, <2>1
<1>11. CASE f \in deliveries /\ f # c
  <2>1. /\ f.owner[1] \in usedPids /\ f.owner[2] \in Times
        /\ f.expires \in Nat /\ f.owner[2] < f.expires
    BY <1>9, <1>11 DEF TokensUsed
  <2>2. ASSUME NEW q \in Procs, proc'[q].pc # "down", proc'[q].pid = f.owner[1]
        PROVE  Past(proc'[q], f, clock)
    <3>1. CASE q = p
      <4>1. proc'[q] = r /\ proc[p].pc # "down" /\ proc[p].pid = f.owner[1]
        BY <1>1, <1>2, <2>2, <3>1 DEF Becomes, At
      <4>2. Past(proc[p], f, clock)
        BY <1>9, <1>11, <4>1 DEF TokensUsed
      <4>3. f.owner[2] < proc[p].token[2]
        BY <1>2, <4>2 DEF Past, At, Flushing
      <4> QED
        BY <1>1, <4>1, <4>3 DEF Past, Flushing
    <3>2. CASE q # p
      BY <1>1, <1>9, <1>11, <2>2, <3>2 DEF Becomes, TokensUsed
    <3> QED
      BY <3>1, <3>2
  <2> QED
    BY <2>1, <2>2
<1> QED
  BY <1>3, <1>10, <1>11

\* Steps of the run of a watch leave every token where it was: a new delivery has
\* no owner.
LEMMA RunKeepsTokens ==
  ASSUME TypeOK, ProcsOK, OutboxInv, SendInv, TokensUsed, NEW p \in Procs,
         RunSteps(p) \/ \E pc \in {"claim", "start", "complete"} : CallFails(p, pc, "flush")
  PROVE  TokensUsed'
<1>1. /\ ~At(p, "down") /\ proc[p].pc \notin Flushing /\ UNCHANGED <<clock, usedPids>>
  BY DEF RunSteps, Tick, ClaimWatch, NothingDue, StartRun, StartRefused, Search, CompleteRun,
         CompleteRefused, CallFails, At, Flushing
<1>2. \E r : Becomes(p, r) /\ r.pid = proc[p].pid /\ r.pc \notin Flushing
  <2>1. CASE Forget(p, "flush")
    BY <2>1, ForgetFacts DEF PcSet, Flushing
  <2>2. CASE Tick(p)
    BY <2>2, TickFacts DEF Flushing
  <2>3. CASE ClaimWatch(p)
    <3>1. PICK r : Becomes(p, r) /\ r.pc = "start" /\ r.pid = proc[p].pid
      BY <2>3, ClaimWatchFacts
    <3> QED
      BY <3>1 DEF Flushing
  <2>4. CASE StartRun(p) \/ Search(p)
    <3>1. PICK r : /\ Becomes(p, r) /\ r.pc \in {"search", "complete"}
                   /\ r.pid = proc[p].pid
      BY <2>4, StartRunFacts, SearchFacts
    <3> QED
      BY <3>1 DEF Flushing
  <2> QED
    BY <2>1, <2>2, <2>3, <2>4 DEF RunSteps, NothingDue, StartRefused, CompleteRun,
       CompleteRefused, CallFails
<1>3. \A f \in deliveries' : f.owner # NULL => f \in deliveries
  <2>1. CASE CompleteRun(p)
    BY <2>1, QueuedDelivery
  <2>2. CASE ~CompleteRun(p)
    <3>1. deliveries' = deliveries
      BY <2>2 DEF RunSteps, Tick, ClaimWatch, ClaimDueWatch, NothingDue, StartRun,
                  StartWatchRun, StartRefused, Search, CompleteRefused, CallFails, storeVars
    <3> QED
      BY <3>1
  <2> QED
    BY <2>1, <2>2
<1> QED
  BY <1>1, <1>2, <1>3, MoveOutside

\* An attempt that claims nothing, or whose result is written or refused, leaves no
\* lease behind that its process could renew by chance.
LEMMA EndKeepsTokens ==
  ASSUME TypeOK, ProcsOK, OutboxInv, LeaseColumns, TokensUsed, NEW p \in Procs,
         \/ NothingPending(p) \/ Settle(p) \/ SettleRefused(p)
         \/ CallFails(p, "claimDelivery", "idle")
  PROVE  TokensUsed'
<1>1. /\ proc[p].pc \in {"claimDelivery", "settle"} /\ UNCHANGED <<clock, usedPids>>
      /\ Forget(p, "idle")
  BY DEF NothingPending, Settle, SettleRefused, CallFails, At
<1>2. PICK r : Becomes(p, r) /\ r.pid = proc[p].pid /\ r.pc = "idle"
  BY <1>1, ForgetFacts DEF PcSet
<1>3. PICK s \in Times : proc[p].token = <<proc[p].pid, s>>
  BY <1>1 DEF Flushing, ProcsOK, ProcOK
<1>4. proc[p].token # NULL /\ s \in Nat
  BY <1>1, <1>3, CallArguments, StoreAssumption, TimesFacts DEF Flushing
<1>5. CASE At(p, "claimDelivery")
  <2>1. UNCHANGED deliveries
    BY <1>5 DEF NothingPending, Settle, SettleRefused, CallFails, At, storeVars
  <2>2. ASSUME NEW f \in deliveries, f.owner = proc[p].token
        PROVE  FALSE
    <3>1. f.owner # NULL /\ f.owner[1] = proc[p].pid /\ proc[p].pc # "down"
      BY <1>1, <1>3, <1>4, <2>2
    <3>2. Past(proc[p], f, clock)
      BY <3>1 DEF TokensUsed
    <3>3. f.owner[2] < proc[p].token[2]
      BY <1>5, <3>2 DEF Past, At, Flushing
    <3> QED
      BY <1>3, <1>4, <2>2, <3>3
  <2> QED
    BY <1>1, <1>2, <2>1, <2>2, MoveAway DEF Flushing
<1>6. CASE Settle(p)
  <2>1. PICK d \in deliveries, c \in deliveries' :
          /\ Handles(p, d) /\ deliveries' = (deliveries \ {d}) \cup {c} /\ c.owner = NULL
    BY <1>6, SettledDelivery
  <2>2. ASSUME NEW f \in deliveries', f.owner # NULL
        PROVE  f \in deliveries /\ ~Handles(p, f)
    <3>1. f \in deliveries /\ f # d
      BY <2>1, <2>2
    <3> QED
      BY <2>1, <3>1 DEF Handles, OutboxInv, KeysUnique
  <2> QED
    BY <1>1, <1>2, <2>2, MoveAway DEF Flushing
<1>7. CASE SettleRefused(p)
  <2>1. UNCHANGED deliveries /\ proc[p].now \in Nat /\ clock \in Nat /\ proc[p].now <= clock
    BY <1>7, CallArguments, TimesFacts DEF SettleRefused, storeVars, ProcsOK, ProcOK
  <2>2. ASSUME NEW f \in deliveries, f.owner # NULL, f.owner = proc[p].token, Handles(p, f)
        PROVE  f.expires <= clock
    <3>1. f.status = "delivering" /\ f.expires # NULL /\ f.expires \in Nat
      BY <2>2 DEF LeaseColumns, TypeOK, DeliveryRow
    <3>2. ~(f.expires > proc[p].now)
      BY <1>7, <2>2, <3>1 DEF SettleRefused, DeliveryUnderLease, DeliveryOf, LeaseHeld, Handles
    <3> QED
      BY <2>1, <3>1, <3>2
  <2> QED
    BY <1>1, <1>2, <2>1, <2>2, MoveAway DEF Flushing
<1> QED
  BY <1>1, <1>5, <1>6, <1>7 DEF NothingPending, Settle, SettleRefused, CallFails, At

\* Boots, crashes, users and the passage of time: a new process has a pid of its
\* own, and a token of the past stays one.
LEMMA WorldKeepsTokens ==
  ASSUME ProcsOK, TokensUsed,
         \/ AddWatch \/ RemoveWatch \/ Advance \/ UNCHANGED nativeVars
         \/ \E p \in Procs : Boot(p) \/ Crash(p)
  PROVE  TokensUsed'
<1>1. CASE AddWatch \/ RemoveWatch \/ UNCHANGED nativeVars
  <2>1. deliveries' \subseteq deliveries /\ UNCHANGED <<clock, proc, usedPids>>
    BY <1>1 DEF AddWatch, CreateWatch, RemoveWatch, DeleteWatch, nativeVars
  <2> QED
    BY <2>1 DEF TokensUsed
<1>2. CASE Advance
  <2>1. UNCHANGED <<deliveries, proc, usedPids>> /\ clock' = clock + 1 /\ clock \in Nat
    BY <1>2, TimesFacts DEF Advance, storeVars, ProcsOK
  <2>2. ASSUME NEW d \in deliveries, NEW p \in Procs, d.owner[2] \in Times,
               Past(proc[p], d, clock)
        PROVE  Past(proc[p], d, clock')
    <3>1. d.owner[2] \in Nat
      BY <2>2, TimesFacts
    <3>2. d.owner[2] < clock => d.owner[2] < clock'
      BY <2>1, <3>1
    <3> QED
      BY <2>2, <3>2 DEF Past
  <2> QED
    BY <2>1, <2>2 DEF TokensUsed
<1>3. ASSUME NEW p \in Procs, Boot(p)
      PROVE  TokensUsed'
  <2>1. PICK r : Becomes(p, r) /\ r.pid \notin usedPids /\ usedPids' = usedPids \cup {r.pid}
    BY <1>3, BootFacts
  <2>2. UNCHANGED <<deliveries, clock>>
    BY <1>3 DEF Boot, storeVars
  <2>3. \A f \in deliveries : f.owner # NULL => r.pid # f.owner[1]
    BY <2>1 DEF TokensUsed
  <2> QED
    BY <2>1, <2>2, <2>3, MoveKeepsTokens
<1>4. ASSUME NEW p \in Procs, Crash(p)
      PROVE  TokensUsed'
  <2>1. PICK r : Becomes(p, r) /\ r.pc = "down"
    BY <1>4, CrashFacts
  <2>2. UNCHANGED <<deliveries, clock, usedPids>>
    BY <1>4 DEF Crash, storeVars
  <2> QED
    BY <2>1, <2>2, MoveKeepsTokens
<1> QED
  BY <1>1, <1>2, <1>3, <1>4

\* An attempt that goes on keeps the row and the token it was made with.
LEMMA AttemptKeepsTokens ==
  ASSUME ProcsOK, TokensUsed, NEW p \in Procs, StampFlush(p) \/ Send(p) \/ Oversized(p)
  PROVE  TokensUsed'
<1>1. PICK r : /\ Becomes(p, r) /\ r.pid = proc[p].pid /\ r.token = proc[p].token
               /\ r.pc \in Flushing
               /\ proc[p].pc \in {"send", "settle"} =>
                    /\ r.pc = "settle" /\ r.watch = proc[p].watch /\ r.run = proc[p].run
  <2>1. CASE StampFlush(p)
    <3>1. proc[p].pc = "stamp"
      BY <2>1 DEF StampFlush, At
    <3> QED
      BY <2>1, <3>1, StampFlushFacts DEF Flushing
  <2>2. CASE Send(p) \/ Oversized(p)
    BY <2>2, SendFacts DEF Flushing
  <2> QED
    BY <2>1, <2>2
<1>2. UNCHANGED <<deliveries, clock, usedPids>> /\ proc[p].pc \in Flushing
  BY DEF StampFlush, Send, Oversized, storeVars, At, Flushing
<1>3. ASSUME NEW f \in deliveries, f.owner # NULL, r.pid = f.owner[1]
      PROVE  Past(r, f, clock)
  <2>1. Past(proc[p], f, clock)
    BY <1>1, <1>2, <1>3 DEF TokensUsed, Flushing
  <2>2. CASE f.owner[2] < proc[p].token[2]
    BY <1>1, <2>2 DEF Past
  <2> QED
    BY <1>1, <1>2, <2>1, <2>2 DEF Past
<1> QED
  BY <1>1, <1>2, <1>3, MoveKeepsTokens

\* A process never comes to use a token that some row is still leased to.
LEMMA TokensStep ==
  ASSUME "settle" \notin StoreFaults
  PROVE  /\ TypeOK /\ ProcsOK /\ PidsApart /\ OutboxInv /\ LeaseColumns /\ SendInv
         /\ TokensUsed /\ [NativeNext]_nativeVars
         => TokensUsed'
<1> SUFFICES ASSUME TypeOK, ProcsOK, PidsApart, OutboxInv, LeaseColumns, SendInv, TokensUsed,
                    [NativeNext]_nativeVars
             PROVE  TokensUsed'
  OBVIOUS
<1>0. TypeOK'
  BY StoreStep, TypeStep
<1>1. ASSUME NEW p \in Procs, FlushSteps(p)
      PROVE  TokensUsed'
  BY <1>0, <1>1, BeginKeepsTokens, ClaimKeepsTokens, EndKeepsTokens, AttemptKeepsTokens
     DEF FlushSteps
<1>2. ASSUME NEW p \in Procs, FaultSteps(p)
      PROVE  TokensUsed'
  <2>1. \/ \E pc \in {"claim", "start", "complete"} : CallFails(p, pc, "flush")
        \/ CallFails(p, "claimDelivery", "idle")
    BY <1>2 DEF FaultSteps, CallFails
  <2> QED
    BY <2>1, RunKeepsTokens, EndKeepsTokens
<1> QED
  BY <1>1, <1>2, RunKeepsTokens, WorldKeepsTokens DEF NativeNext

-----------------------------------------------------------------------------
(* Every request is an attempt of its row, counted before the request is made *)

Attempters == {p \in Procs : At(p, "send") /\ p \notin detached}

\* The requests made for a delivery and the ones about to be made.
Used(w, run) == Cardinality(SendsOf(w, run)) + Cardinality(Attempting(w, run))

\* The inductive invariant: a request that is about to be made has been counted,
\* and was allowed by the limit.
CountInv ==
  /\ IsFiniteSet(sent) /\ IsFiniteSet(Attempters)
  /\ \A d \in deliveries :
       Used(d.watch, d.run) <= d.attempts /\ Used(d.watch, d.run) <= MaxAttempts

\* The counts are numbers, and grow with the sets counted.
LEMMA UsedFacts ==
  ASSUME IsFiniteSet(sent), IsFiniteSet(Attempters), NEW w, NEW run
  PROVE  /\ IsFiniteSet(SendsOf(w, run)) /\ IsFiniteSet(Attempting(w, run))
         /\ Cardinality(SendsOf(w, run)) \in Nat /\ Cardinality(Attempting(w, run)) \in Nat
         /\ Used(w, run) \in Nat
<1>1. SendsOf(w, run) \in SUBSET sent /\ Attempting(w, run) \in SUBSET Attempters
  BY DEF SendsOf, Attempting, Attempters
<1>2. IsFiniteSet(SendsOf(w, run)) /\ IsFiniteSet(Attempting(w, run))
  BY <1>1, FS_Subset
<1>3. Cardinality(SendsOf(w, run)) \in Nat /\ Cardinality(Attempting(w, run)) \in Nat
  BY <1>2, FS_CardinalityType
<1> QED
  BY <1>2, <1>3 DEF Used

\* A step that makes no request and begins no attempt, and lowers no count.
LEMMA NoMoreAttempts ==
  ASSUME TypeOK, TypeOK', CountInv, sent' \subseteq sent,
         \A q \in Procs : proc'[q].pc = "send" /\ q \notin detached' =>
           At(q, "send") /\ q \notin detached /\ proc'[q] = proc[q],
         \A f \in deliveries' :
           \/ SendsOf(f.watch, f.run) = {} /\ Attempting(f.watch, f.run) = {}
           \/ \E d \in deliveries :
                d.watch = f.watch /\ d.run = f.run /\ d.attempts <= f.attempts
  PROVE  CountInv'
<1>1. sent' \in SUBSET sent /\ Attempters' \in SUBSET Attempters
  BY DEF Attempters, At
<1>2. IsFiniteSet(sent)' /\ IsFiniteSet(Attempters)'
  BY <1>1, FS_Subset DEF CountInv
<1>3. ASSUME NEW f \in deliveries'
      PROVE  Used(f.watch, f.run)' <= f.attempts /\ Used(f.watch, f.run)' <= MaxAttempts
  <2> DEFINE w == f.watch
             run == f.run
  <2>1. /\ SendsOf(w, run)' \in SUBSET SendsOf(w, run)
        /\ Attempting(w, run)' \in SUBSET Attempting(w, run)
    BY DEF SendsOf, Attempting, At
  <2>2. /\ IsFiniteSet(SendsOf(w, run)) /\ IsFiniteSet(Attempting(w, run))
        /\ Cardinality(SendsOf(w, run)) \in Nat /\ Cardinality(Attempting(w, run)) \in Nat
    BY UsedFacts DEF CountInv
  <2>3. /\ Cardinality(SendsOf(w, run)') <= Cardinality(SendsOf(w, run))
        /\ Cardinality(Attempting(w, run)') <= Cardinality(Attempting(w, run))
        /\ IsFiniteSet(SendsOf(w, run)') /\ IsFiniteSet(Attempting(w, run)')
    BY <2>1, <2>2, FS_Subset
  <2>4. Cardinality(SendsOf(w, run)') \in Nat /\ Cardinality(Attempting(w, run)') \in Nat
    BY <2>3, FS_CardinalityType
  <2>5. Used(w, run)' = Cardinality(SendsOf(w, run)') + Cardinality(Attempting(w, run)')
    BY DEF Used
  <2>6. Used(w, run)' <= Used(w, run) /\ Used(w, run)' \in Nat /\ Used(w, run) \in Nat
    BY <2>2, <2>3, <2>4, <2>5 DEF Used
  <2>7. f.attempts \in Nat /\ MaxAttempts \in Nat
    BY StoreAssumption DEF TypeOK, DeliveryRow
  <2>8. CASE SendsOf(w, run) = {} /\ Attempting(w, run) = {}
    <3>1. Used(w, run) = 0
      BY <2>8, FS_EmptySet DEF Used
    <3> QED
      BY <2>6, <2>7, <3>1
  <2>9. ASSUME NEW d \in deliveries, d.watch = w, d.run = run, d.attempts <= f.attempts
        PROVE  Used(w, run)' <= f.attempts /\ Used(w, run)' <= MaxAttempts
    <3>1. Used(w, run) <= d.attempts /\ Used(w, run) <= MaxAttempts /\ d.attempts \in Nat
      BY <2>9 DEF CountInv, TypeOK, DeliveryRow
    <3> QED
      BY <2>6, <2>7, <2>9, <3>1
  <2> QED
    BY <2>8, <2>9
<1> QED
  BY <1>2, <1>3 DEF CountInv

\* A claim counts the attempt it allows.
LEMMA ClaimKeepsCount ==
  ASSUME TypeOK, TypeOK', ProcsOK, OutboxInv, SendInv, TokensUsed, CountInv,
         NEW p \in Procs, ClaimDelivery(p)
  PROVE  CountInv'
<1>1. PICK d \in deliveries, e \in deliveries', r \in ProcRow :
           /\ ClaimPendingDelivery(d, proc[p].now, proc[p].token, DeliveryLease)
           /\ e.owner = proc[p].token
           /\ Becomes(p, r) /\ r.watch = e.watch /\ r.run = e.run
           /\ \/ r.pc = "send" /\ MaySend(e, r.config)
              \/ r.pc = "settle"
  BY ClaimDeliveryFacts
<1>2. At(p, "claimDelivery") /\ UNCHANGED <<sent, detached>>
  BY DEF ClaimDelivery, history
<1>3. PICK c : /\ deliveries' = (deliveries \ {d}) \cup {c}
               /\ c.watch = d.watch /\ c.run = d.run /\ c.attempts = d.attempts + 1
  BY <1>1, <1>2, ClaimedDelivery
<1>4. e = c
  BY <1>1, <1>2, <1>3, FetchesOwnClaim
<1>5. d.attempts \in Nat /\ MaxAttempts \in Nat
  BY StoreAssumption DEF TypeOK, DeliveryRow
<1>6. \A f \in deliveries' : \E g \in deliveries :
        g.watch = f.watch /\ g.run = f.run /\ g.attempts <= f.attempts
  <2>1. \A f \in deliveries : f.attempts \in Nat
    BY DEF TypeOK, DeliveryRow
  <2> QED
    BY <1>3, <1>5, <2>1
<1>7. CASE r.pc = "settle"
  <2>1. \A q \in Procs : proc'[q].pc = "send" /\ q \notin detached' =>
          At(q, "send") /\ q \notin detached /\ proc'[q] = proc[q]
    BY <1>1, <1>2, <1>7 DEF Becomes, At
  <2> QED
    BY <1>2, <1>6, <2>1, NoMoreAttempts
<1>8. CASE r.pc = "send" /\ MaySend(e, r.config)
  <2>1. p \notin detached
    BY <1>2 DEF SendInv, DetachedSends, At
  <2>2. Attempters' = Attempters \cup {p}
    BY <1>1, <1>2, <1>8, <2>1 DEF Attempters, Becomes, At
  <2>3. IsFiniteSet(sent)' /\ IsFiniteSet(Attempters)'
    BY <1>2, <2>2, FS_AddElement DEF CountInv
  <2>4. Used(c.watch, c.run)' <= c.attempts /\ Used(c.watch, c.run)' <= MaxAttempts
    <3> DEFINE w == d.watch
               run == d.run
    <3>1. Attempting(w, run)' = Attempting(w, run) \cup {p} /\ p \notin Attempting(w, run)
      BY <1>1, <1>2, <1>3, <1>4, <1>8, <2>1 DEF Attempting, Becomes, At
    <3>2. SendsOf(w, run)' = SendsOf(w, run)
      BY <1>2 DEF SendsOf
    <3>3. /\ IsFiniteSet(Attempting(w, run)) /\ Cardinality(SendsOf(w, run)) \in Nat
          /\ Cardinality(Attempting(w, run)) \in Nat /\ Used(w, run) \in Nat
      BY UsedFacts DEF CountInv
    <3>4. Cardinality(Attempting(w, run)') = Cardinality(Attempting(w, run)) + 1
      BY <3>1, <3>3, FS_AddElement
    <3>5. Used(w, run)' = Cardinality(SendsOf(w, run)') + Cardinality(Attempting(w, run)')
      BY DEF Used
    <3>6. Used(w, run)' = Used(w, run) + 1
      BY <3>2, <3>3, <3>4, <3>5 DEF Used
    <3>7. Used(w, run) <= d.attempts
      BY DEF CountInv
    <3>8. c.attempts <= MaxAttempts
      BY <1>4, <1>8 DEF MaySend
    <3> HIDE DEF w, run
    <3>9. Used(w, run)' <= c.attempts /\ Used(w, run)' <= MaxAttempts
      BY <1>3, <1>5, <3>3, <3>6, <3>7, <3>8
    <3> QED
      BY <1>3, <3>9 DEF w, run
  <2>5. ASSUME NEW f \in deliveries, f # d
        PROVE  Used(f.watch, f.run)' <= f.attempts /\ Used(f.watch, f.run)' <= MaxAttempts
    <3>1. ~(f.watch = d.watch /\ f.run = d.run)
      BY <2>5 DEF OutboxInv, KeysUnique
    <3>2. Attempting(f.watch, f.run)' = Attempting(f.watch, f.run)
      BY <1>1, <1>2, <1>3, <1>4, <3>1 DEF Attempting, Becomes, At
    <3>3. SendsOf(f.watch, f.run)' = SendsOf(f.watch, f.run)
      BY <1>2 DEF SendsOf
    <3>4. Used(f.watch, f.run)' = Used(f.watch, f.run)
      BY <3>2, <3>3 DEF Used
    <3> QED
      BY <3>4 DEF CountInv
  <2> QED
    BY <1>3, <2>3, <2>4, <2>5 DEF CountInv
<1> QED
  BY <1>1, <1>7, <1>8

\* A request takes the place of the attempt it was.
LEMMA SendKeepsCount ==
  ASSUME TypeOK, TypeOK', ProcsOK, SendInv, CountInv, NEW p \in Procs, Send(p)
  PROVE  CountInv'
<1>1. PICK s : /\ s.watch = proc[p].watch /\ s.run = proc[p].run
               /\ sent' = IF p \in detached THEN sent ELSE sent \cup {s}
  BY SentFacts
<1>2. PICK r : Becomes(p, r) /\ r.pc = "settle"
  BY SendFacts
<1>3. detached' = detached \ {p} /\ deliveries' = deliveries /\ At(p, "send")
  BY DEF Send, storeVars
<1>4. \A q \in Procs : proc'[q].pc = "send" /\ q \notin detached' =>
        At(q, "send") /\ q \notin detached /\ proc'[q] = proc[q]
  BY <1>2, <1>3 DEF Becomes, At
<1>5. CASE p \in detached
  <2>1. \A f \in deliveries' : f.attempts <= f.attempts
    BY DEF TypeOK, DeliveryRow
  <2> QED
    BY <1>1, <1>3, <1>4, <1>5, <2>1, NoMoreAttempts
<1>6. CASE p \notin detached
  <2>1. Attempters' \in SUBSET Attempters
    BY <1>4 DEF Attempters, At
  <2>2. IsFiniteSet(sent)' /\ IsFiniteSet(Attempters)'
    BY <1>1, <1>6, <2>1, FS_AddElement, FS_Subset DEF CountInv
  <2>3. ASSUME NEW f \in deliveries
        PROVE  Used(f.watch, f.run)' <= Used(f.watch, f.run) /\ Used(f.watch, f.run)' \in Nat
    <3> DEFINE w == f.watch
               run == f.run
    <3>1. /\ IsFiniteSet(SendsOf(w, run)) /\ IsFiniteSet(Attempting(w, run))
          /\ Cardinality(SendsOf(w, run)) \in Nat /\ Cardinality(Attempting(w, run)) \in Nat
      BY UsedFacts DEF CountInv
    <3>2. Used(w, run)' = Cardinality(SendsOf(w, run)') + Cardinality(Attempting(w, run)')
      BY DEF Used
    <3>3. CASE proc[p].watch = w /\ proc[p].run = run
      <4>1. SendsOf(w, run)' = SendsOf(w, run) \cup {s}
        BY <1>1, <1>6, <3>3 DEF SendsOf
      <4>2. Attempting(w, run)' = Attempting(w, run) \ {p} /\ p \in Attempting(w, run)
        BY <1>2, <1>3, <1>6, <3>3 DEF Attempting, Becomes, At
      <4>3. Cardinality(SendsOf(w, run)') \in {Cardinality(SendsOf(w, run)),
                                              Cardinality(SendsOf(w, run)) + 1}
        BY <3>1, <4>1, FS_AddElement
      <4>4. /\ Cardinality(Attempting(w, run)') = Cardinality(Attempting(w, run)) - 1
            /\ IsFiniteSet(Attempting(w, run)')
        BY <3>1, <4>2, FS_RemoveElement
      <4>5. Cardinality(Attempting(w, run)') \in Nat
        BY <4>4, FS_CardinalityType
      <4> QED
        BY <3>1, <3>2, <4>3, <4>4, <4>5 DEF Used
    <3>4. CASE ~(proc[p].watch = w /\ proc[p].run = run)
      <4>1. SendsOf(w, run)' = SendsOf(w, run)
        BY <1>1, <1>6, <3>4 DEF SendsOf
      <4>2. Attempting(w, run)' = Attempting(w, run)
        BY <1>2, <1>3, <1>6, <3>4 DEF Attempting, Becomes, At
      <4> QED
        BY <3>1, <3>2, <4>1, <4>2 DEF Used
    <3> QED
      BY <3>3, <3>4
  <2>4. ASSUME NEW f \in deliveries
        PROVE  Used(f.watch, f.run)' <= f.attempts /\ Used(f.watch, f.run)' <= MaxAttempts
    <3>1. f.attempts \in Nat /\ MaxAttempts \in Nat /\ Used(f.watch, f.run) \in Nat
      BY StoreAssumption, UsedFacts DEF TypeOK, DeliveryRow, CountInv
    <3>2. Used(f.watch, f.run) <= f.attempts /\ Used(f.watch, f.run) <= MaxAttempts
      BY DEF CountInv
    <3>3. Used(f.watch, f.run)' <= Used(f.watch, f.run) /\ Used(f.watch, f.run)' \in Nat
      BY <2>3
    <3> QED
      BY <3>1, <3>2, <3>3
  <2> QED
    BY <1>3, <2>2, <2>4 DEF CountInv
<1> QED
  BY <1>5, <1>6

\* The other steps make no request, begin no attempt and lower no count.
LEMMA CountStep ==
  /\ TypeOK /\ ProcsOK /\ OutboxInv /\ SendInv /\ TokensUsed /\ CountInv
  /\ [NativeNext]_nativeVars
  => CountInv'
<1> SUFFICES ASSUME TypeOK, ProcsOK, OutboxInv, SendInv, TokensUsed, CountInv,
                    [NativeNext]_nativeVars
             PROVE  CountInv'
  OBVIOUS
<1>0. TypeOK'
  BY StoreStep, TypeStep
<1>1. \A f \in deliveries : f.attempts <= f.attempts
  BY DEF TypeOK, DeliveryRow
<1>2. CASE QuietStep
  <2>1. \A q \in Procs : proc'[q].pc = "send" /\ q \notin detached' =>
          At(q, "send") /\ q \notin detached /\ proc'[q] = proc[q]
    BY <1>2 DEF QuietStep, Becomes, At
  <2> QED
    BY <1>0, <1>1, <1>2, <2>1, NoMoreAttempts DEF QuietStep
<1>3. ASSUME NEW p \in Procs, NEW r, Becomes(p, r), r.pc # "send",
             UNCHANGED sent, detached' \in {detached, detached \ {p}},
             \A f \in deliveries' :
               \/ SendsOf(f.watch, f.run) = {} /\ Attempting(f.watch, f.run) = {}
               \/ \E d \in deliveries :
                    d.watch = f.watch /\ d.run = f.run /\ d.attempts <= f.attempts
      PROVE  CountInv'
  <2>1. \A q \in Procs : proc'[q].pc = "send" /\ q \notin detached' =>
          At(q, "send") /\ q \notin detached /\ proc'[q] = proc[q]
    BY <1>3 DEF Becomes, At
  <2> QED
    BY <1>0, <1>3, <2>1, NoMoreAttempts
<1>4. ASSUME NEW p \in Procs, Oversized(p) \/ Crash(p)
      PROVE  CountInv'
  <2>1. PICK r : Becomes(p, r) /\ r.pc \in {"settle", "down"}
    BY <1>4, SendFacts, CrashFacts
  <2>2. UNCHANGED <<deliveries, sent>> /\ detached' = detached \ {p}
    BY <1>4 DEF Oversized, Crash, storeVars
  <2> QED
    BY <1>1, <1>3, <2>1, <2>2
<1>5. ASSUME NEW p \in Procs, Settle(p)
      PROVE  CountInv'
  <2>1. PICK r : Becomes(p, r) /\ r.pc = "idle"
    BY <1>5, ForgetFacts DEF Settle, PcSet
  <2>2. PICK d \in deliveries, c \in deliveries' :
           /\ deliveries' = (deliveries \ {d}) \cup {c}
           /\ c.watch = d.watch /\ c.run = d.run /\ c.attempts = d.attempts
    BY <1>5, SettledDelivery
  <2>3. UNCHANGED <<sent, detached>>
    BY <1>5 DEF Settle, history
  <2> QED
    BY <1>1, <1>3, <2>1, <2>2, <2>3
<1>6. ASSUME NEW p \in Procs, CompleteRun(p)
      PROVE  CountInv'
  <2>1. PICK r : Becomes(p, r) /\ r.pc = "flush"
    BY <1>6, ForgetFacts DEF CompleteRun, PcSet
  <2>2. UNCHANGED <<sent, detached>>
    BY <1>6 DEF CompleteRun, history
  <2>3. \A f \in deliveries' :
          \/ SendsOf(f.watch, f.run) = {} /\ Attempting(f.watch, f.run) = {}
          \/ f \in deliveries
    BY <1>6, QueuedDelivery
  <2> QED
    BY <1>1, <1>3, <2>1, <2>2, <2>3
<1>7. CASE RemoveWatch
  <2>1. /\ deliveries' \subseteq deliveries /\ sent' \subseteq sent
        /\ detached \subseteq detached' /\ proc' = proc
    BY <1>7 DEF RemoveWatch, DeleteWatch
  <2>2. \A q \in Procs : proc'[q].pc = "send" /\ q \notin detached' =>
          At(q, "send") /\ q \notin detached /\ proc'[q] = proc[q]
    BY <2>1 DEF At
  <2> QED
    BY <1>0, <1>1, <2>1, <2>2, NoMoreAttempts
<1> QED
  BY <1>0, <1>2, <1>4, <1>5, <1>6, <1>7, StepKinds, ClaimKeepsCount, SendKeepsCount

\* Nothing has been queued, sent or begun at the start.
LEMMA CountInit == NativeInit => TokensUsed /\ CountInv
<1> SUFFICES ASSUME NativeInit
             PROVE  TokensUsed /\ CountInv
  OBVIOUS
<1>1. deliveries = {} /\ sent = {}
  BY DEF NativeInit, Init
<1>2. Attempters = {}
  <2>1. Fresh("down", NULL, NULL).pc = "down"
    BY FreshFacts DEF PcSet
  <2> QED
    BY <2>1 DEF NativeInit, At, Attempters
<1> QED
  BY <1>1, <1>2, FS_EmptySet DEF TokensUsed, CountInv

\* The requests and the attempts under way are always covered by the counter.
LEMMA CountAlways ==
  ASSUME "settle" \notin StoreFaults
  PROVE  NativeSpec => [](TypeOK /\ CountInv)
<1>1. /\ TypeOK /\ ProcsOK /\ PidsApart /\ OutboxInv /\ LeaseColumns /\ SendInv
      /\ TokensUsed /\ [NativeNext]_nativeVars
      => TokensUsed'
  BY TokensStep
<1> QED
  BY <1>1, CountInit, CountStep, ProcsAlways, StoreAlways, SendAlways, PTL DEF NativeSpec

\* Every request was counted in the row before it left, by a claim of its own: a
\* process that dies after the request has used up an attempt.  This holds over
\* all interleavings, crashes and lease expiries, as long as the call that
\* settles an attempt commits or is refused.
THEOREM RequestsAreCounted ==
  ASSUME "settle" \notin StoreFaults
  PROVE  NativeSpec => []SendsCounted
<1>1. TypeOK /\ CountInv => SendsCounted
  <2> SUFFICES ASSUME TypeOK, CountInv, NEW d \in deliveries
               PROVE  Cardinality(SendsOf(d.watch, d.run)) <= d.attempts
    BY DEF SendsCounted
  <2>1. /\ Cardinality(SendsOf(d.watch, d.run)) \in Nat
        /\ Cardinality(Attempting(d.watch, d.run)) \in Nat
    BY UsedFacts DEF CountInv
  <2>2. Used(d.watch, d.run) <= d.attempts /\ d.attempts \in Nat
    BY DEF CountInv, TypeOK, DeliveryRow
  <2> QED
    BY <2>1, <2>2 DEF Used
<1>2. NativeSpec => [](TypeOK /\ CountInv)
  BY CountAlways
<1> QED
  BY <1>1, <1>2, PTL

\* Under the same condition, no more than MaxAttempts requests are made for a
\* delivery, which is what the retry limit promises; with a failing settle call it
\* is not so (the run NativeSendLimit).
THEOREM RequestsAreBounded ==
  ASSUME "settle" \notin StoreFaults
  PROVE  NativeSpec => []SendBound
<1>1. TypeOK /\ CountInv => SendBound
  <2> SUFFICES ASSUME TypeOK, CountInv, NEW d \in deliveries
               PROVE  Cardinality(SendsOf(d.watch, d.run)) <= MaxAttempts
    BY DEF SendBound
  <2>1. /\ Cardinality(SendsOf(d.watch, d.run)) \in Nat
        /\ Cardinality(Attempting(d.watch, d.run)) \in Nat
    BY UsedFacts DEF CountInv
  <2>2. Used(d.watch, d.run) <= MaxAttempts /\ MaxAttempts \in Nat
    BY StoreAssumption DEF CountInv
  <2> QED
    BY <2>1, <2>2 DEF Used
<1>2. NativeSpec => [](TypeOK /\ CountInv)
  BY CountAlways
<1> QED
  BY <1>1, <1>2, PTL
=============================================================================
