--------------------------- MODULE TargetCommands ---------------------------
(***************************************************************************)
(* comsat fetch and comsat follow (commands/search.rs), the engine's fetch *)
(* (invoke.rs) and its counters (metrics.rs), and the thread that reads    *)
(* targets from stdin for them (main.rs).  A command takes its target from *)
(* its options or, on the command line and without options, one target     *)
(* after the other from stdin.  While it serves, the process runs several  *)
(* commands, which share the counters.  The engine's follow stream is taken*)
(* as what it delivers: records, then at most one failure.                 *)
(***************************************************************************)
EXTENDS SourceTypes, FiniteSets

CONSTANTS
  Clients,         \* commands that may run
  Cli,             \* the one that may read stdin
  Registered,      \* sources of the catalog: what each supports
  Stdin,           \* what stdin may hold: sequences of lines
  Given,           \* the options that may be given
  Codes,           \* error codes a tool may answer with
  MaxRecords       \* bound: records one follow delivers

ASSUME TargetsAssumption ==
  /\ IsFiniteSet(Clients) /\ Cli \in Clients
  /\ None # "stdin" /\ None \notin Nat /\ Codes \cap {"record", "large", "invalid"} = {}
  /\ \A ls \in Stdin : /\ ls \in Seq({ls[i] : i \in 1..Len(ls)})
                       /\ \A i \in 1..Len(ls) : ls[i].type \in {"target", "blank", "bad"}

VARIABLES
  serving,   \* comsat serve, or one command
  stdin,     \* lines that are not read yet
  reader,    \* the reader thread: StdinTargetState and whether it is blocked
  queue,     \* channel of the reader, of buffer 1
  cmd,       \* the command of each client
  meters,    \* EngineMetrics
  lines      \* history: what stdin held

targetVars == <<serving, stdin, reader, queue, cmd, meters, lines>>

NoCommand == [st |-> "none", op |-> None, from |-> None, strict |-> FALSE, target |-> None,
              saw |-> FALSE, events |-> 0, done |-> <<>>, exit |-> None]

Zero == [requests |-> 0, successes |-> 0, failures |-> 0, rate_limits |-> 0, cancelled |-> 0]

TargetsInit ==
  /\ serving \in BOOLEAN
  /\ lines \in Stdin
  /\ serving => lines = <<>>
  /\ stdin = lines
  /\ reader = [st |-> "none", emitted |-> FALSE, failed |-> FALSE]
  /\ queue = <<>>
  /\ cmd = [c \in Clients |-> NoCommand]
  /\ meters = [s \in DOMAIN Registered |-> [op \in {"fetch", "follow"} |-> Zero]]

Ended(c) == cmd[c].st \in {"ended", "dropped"}

-----------------------------------------------------------------------------
\* metrics.rs: OperationGuard.  The counters of an unknown source are not kept.

Count(m, s, op, field) == [m EXCEPT ![s][op][field] = @ + 1]

\* OperationGuard.failure and record_failure.
CountFailure(m, s, op, class) ==
  IF class = "cancelled" THEN Count(m, s, op, "cancelled")
  ELSE IF class = "rate_limit" THEN Count(Count(m, s, op, "failures"), s, op, "rate_limits")
  ELSE Count(m, s, op, "failures")

\* error_class: any letter case, the tool's own validation code, else upstream.
ClassOfCode(code) ==
  CASE code \in {"rate_limit", "RATE_LIMIT"} -> "rate_limit"
    [] code = "VALIDATION_ERROR" -> "invalid_query"
    [] code = "CANCELLED" -> "cancelled"
    [] OTHER -> "upstream"

-----------------------------------------------------------------------------
\* The reader thread.

\* send_target, then go on reading or end.  The channel of one sender and buffer 1
\* holds two items, and the second blocks the sender until one is taken.  When the
\* receiver is gone the send fails, which is ignored.
SendTarget(item, last) ==
  LET then == IF last THEN "ended" ELSE "reading"
  IN IF Ended(Cli) THEN [queue |-> queue, st |-> then]
     ELSE [queue |-> Append(queue, item),
           st |-> IF queue = <<>> THEN then ELSE IF last THEN "blocked-last" ELSE "blocked"]

\* One line of read_stdin_targets.  "bad" stands for a line that does not parse,
\* does not validate or is too long, and for a read error.
ReadLine ==
  /\ reader.st = "reading" /\ stdin # <<>>
  /\ stdin' = Tail(stdin)
  /\ LET line == Head(stdin)
         bad == line.type = "bad"
         sent == SendTarget(line, bad)
     IN IF line.type = "blank" THEN UNCHANGED <<queue, reader>>
        ELSE /\ queue' = sent.queue
             /\ reader' = [st |-> sent.st, emitted |-> reader.emitted \/ ~bad,
                           failed |-> reader.failed \/ bad]
  /\ UNCHANGED <<serving, cmd, meters, lines>>

\* Mutant of Eof: an empty stdin is a stream without targets.
MutEof ==
  /\ reader.st = "reading" /\ stdin = <<>>
  /\ reader' = [reader EXCEPT !.st = "ended"]
  /\ UNCHANGED <<serving, stdin, queue, cmd, meters, lines>>

\* The end of stdin, which is an error when there was no target.
Eof ==
  /\ reader.st = "reading" /\ stdin = <<>>
  /\ LET sent == SendTarget([type |-> "bad"], TRUE)
     IN IF reader.emitted \/ reader.failed
          THEN reader' = [reader EXCEPT !.st = "ended"] /\ UNCHANGED queue
          ELSE reader' = [reader EXCEPT !.st = sent.st] /\ queue' = sent.queue
  /\ UNCHANGED <<serving, stdin, cmd, meters, lines>>

Unblocked(st) ==
  CASE st = "blocked" -> "reading" [] st = "blocked-last" -> "ended" [] OTHER -> st

-----------------------------------------------------------------------------
\* The commands.  A step gives the command and the counters after it.

CommandStep(command, m) == [command |-> command, meters |-> m]

Exits(command, code) == [command EXCEPT !.st = "ended", !.exit = code]

Does(command, outcome) ==
  [command EXCEPT !.done = Append(@, [target |-> command.target, outcome |-> outcome]),
                  !.target = None, !.saw = FALSE, !.events = 0]

\* After a target that did not end the command: the next one, or exit 0.
GoesOn(command) == IF command.from = "stdin" THEN [command EXCEPT !.st = "next"]
                                             ELSE Exits(command, 0)

FailureExit(command) == IF command.strict THEN 3 ELSE 1

\* RecordStreamState.terminal, one source being expected.
EndsCommand(command, failed) == command.strict \/ (failed /\ ~command.saw)

\* fetch up to its await.
BeginFetch(command, t) ==
  LET asked == [command EXCEPT !.target = t]
      started == Count(meters, t.source, "fetch", "requests")
  IN IF t.source \notin DOMAIN Registered THEN CommandStep(Exits(Does(asked, "failed"), 1), meters)
     ELSE IF "fetch" \notin Registered[t.source]
       THEN CommandStep(Exits(Does(asked, "failed"), 1), Count(started, t.source, "fetch", "failures"))
       ELSE CommandStep([asked EXCEPT !.st = "calling"], started)

\* plan_follow: without a source that follows, the stream holds one failure.
BeginFollow(command, t) ==
  LET asked == [command EXCEPT !.target = t]
  IN IF t.source \in DOMAIN Registered /\ "follow" \in Registered[t.source]
       THEN CommandStep([asked EXCEPT !.st = "streaming"], Count(meters, t.source, "follow", "requests"))
       ELSE CommandStep(Exits(Does(asked, "failed"), FailureExit(command)), meters)

BeginTarget(command, t) ==
  IF command.op = "fetch" THEN BeginFetch(command, t) ELSE BeginFollow(command, t)

\* The command after the step; when it ends, its receiver goes and frees the reader.
Becomes(c, step) ==
  /\ cmd' = [cmd EXCEPT ![c] = step.command]
  /\ meters' = step.meters

FreesReader(c, command) ==
  reader' = IF c = Cli /\ command.st \in {"ended", "dropped"}
              THEN [reader EXCEPT !.st = Unblocked(@)] ELSE reader

\* FetchCommand and FollowCommand up to their first await: options that are no
\* target are refused, unless there are none and native_targets can read stdin.
StartCommand(c, op, options) ==
  /\ cmd[c].st = "none"
  /\ serving \/ c = Cli
  /\ LET native == options.type = "none" /\ ~serving
         command == [NoCommand EXCEPT !.op = op, !.from = IF native THEN "stdin" ELSE "options",
                                      !.strict = options.strict]
         step == IF native THEN CommandStep([command EXCEPT !.st = "next"], meters)
                 ELSE IF options.type = "target" THEN BeginTarget(command, options)
                 ELSE CommandStep(Exits(command, 2), meters)
     IN /\ Becomes(c, step)
        /\ reader' = IF native THEN [reader EXCEPT !.st = "reading"] ELSE reader
  /\ UNCHANGED <<serving, stdin, queue, lines>>

\* The next item of the target stream.
TakeTarget(c) ==
  /\ cmd[c].st = "next" /\ queue # <<>>
  /\ LET item == Head(queue)
         step == IF item.type = "bad" THEN CommandStep(Exits(cmd[c], 2), meters)
                                      ELSE BeginTarget(cmd[c], item)
     IN Becomes(c, step)
  /\ queue' = Tail(queue)
  /\ reader' = [reader EXCEPT !.st = Unblocked(@)]
  /\ UNCHANGED <<serving, stdin, lines>>

\* The stream is over once the reader has ended and dropped its sender.
NoMoreTargets(c) ==
  /\ cmd[c].st = "next" /\ queue = <<>> /\ reader.st = "ended"
  /\ Becomes(c, CommandStep(Exits(cmd[c], 0), meters))
  /\ UNCHANGED <<serving, stdin, reader, queue, lines>>

\* finish_fetch_outcome and finish_fetch_record: a record, data that is too large
\* or no record, or an error code.
FetchAnswers(c, answer) ==
  /\ cmd[c].st = "calling"
  /\ LET s == cmd[c].target.source
         step == CASE answer = "record" ->
                        CommandStep(GoesOn(Does(cmd[c], "whole")), Count(meters, s, "fetch", "successes"))
                   [] answer \in {"large", "invalid"} ->
                        CommandStep(Exits(Does(cmd[c], "failed"), 1), Count(meters, s, "fetch", "failures"))
                   [] answer \in Codes ->
                        CommandStep(Exits(Does(cmd[c], "failed"), 1),
                             CountFailure(meters, s, "fetch", ClassOfCode(answer)))
     IN Becomes(c, step) /\ FreesReader(c, step.command)
  /\ UNCHANGED <<serving, stdin, queue, lines>>

\* A record of the follow stream.  A terminal one ends the command, which drops
\* the stream: its worker is cancelled, unless it is already through.
FollowRecord(c, through) ==
  /\ cmd[c].st = "streaming" /\ cmd[c].events < MaxRecords
  /\ LET s == cmd[c].target.source
         seen == [cmd[c] EXCEPT !.saw = TRUE, !.events = @ + 1]
         step == IF EndsCommand(seen, FALSE)
                   THEN CommandStep(Exits(Does(seen, "failed"), FailureExit(seen)),
                             Count(meters, s, "follow", IF through THEN "successes" ELSE "cancelled"))
                   ELSE CommandStep(seen, meters)
     IN Becomes(c, step) /\ FreesReader(c, step.command)
  /\ UNCHANGED <<serving, stdin, queue, lines>>

FollowEnds(c) ==
  /\ cmd[c].st = "streaming"
  /\ Becomes(c, CommandStep(GoesOn(Does(cmd[c], "whole")),
                     Count(meters, cmd[c].target.source, "follow", "successes")))
  /\ UNCHANGED <<serving, stdin, reader, queue, lines>>

\* The failure is printed; after records it does not end the command.
FollowFails(c, code) ==
  /\ cmd[c].st = "streaming"
  /\ LET m == CountFailure(meters, cmd[c].target.source, "follow", ClassOfCode(code))
         step == IF EndsCommand(cmd[c], TRUE)
                   THEN CommandStep(Exits(Does(cmd[c], "failed"), FailureExit(cmd[c])), m)
                   ELSE CommandStep(GoesOn(Does(cmd[c], "partial")), m)
     IN Becomes(c, step) /\ FreesReader(c, step.command)
  /\ UNCHANGED <<serving, stdin, queue, lines>>

\* Mutant of InterruptCommand: only a call that ends is counted.
MutInterruptCommand(c) ==
  /\ cmd[c].st \in {"next", "calling", "streaming"}
  /\ LET dropped == [cmd[c] EXCEPT !.st = "dropped"]
     IN Becomes(c, CommandStep(dropped, meters)) /\ FreesReader(c, dropped)
  /\ UNCHANGED <<serving, stdin, queue, lines>>

\* The caller drops the command: the call is cancelled, and its guard counts it.
InterruptCommand(c) ==
  /\ cmd[c].st \in {"next", "calling", "streaming"}
  /\ LET dropped == [cmd[c] EXCEPT !.st = "dropped"]
         m == IF cmd[c].st = "next" THEN meters
              ELSE Count(meters, cmd[c].target.source, cmd[c].op, "cancelled")
     IN Becomes(c, CommandStep(dropped, m)) /\ FreesReader(c, dropped)
  /\ UNCHANGED <<serving, stdin, queue, lines>>

TargetsNext ==
  \/ ReadLine \/ Eof
  \/ \E c \in Clients, op \in {"fetch", "follow"}, options \in Given : StartCommand(c, op, options)
  \/ \E c \in Clients : TakeTarget(c) \/ NoMoreTargets(c) \/ FollowEnds(c) \/ InterruptCommand(c)
  \/ \E c \in Clients, answer \in {"record", "large", "invalid"} \cup Codes : FetchAnswers(c, answer)
  \/ \E c \in Clients, through \in BOOLEAN : FollowRecord(c, through)
  \/ \E c \in Clients, code \in Codes : FollowFails(c, code)

TargetsSpec == TargetsInit /\ [][TargetsNext]_targetVars

-----------------------------------------------------------------------------
\* Properties.

Live(s, op) ==
  {c \in Clients : cmd[c].st \in {"calling", "streaming"} /\ cmd[c].op = op
                   /\ cmd[c].target.source = s}

\* However calls overlap, fail or are dropped, each source operation that was
\* started is running or was counted once: as a success, a failure or cancelled.
MetersBalance ==
  \A s \in DOMAIN Registered, op \in {"fetch", "follow"} :
    LET m == meters[s][op]
    IN /\ m.requests = m.successes + m.failures + m.cancelled + Cardinality(Live(s, op))
       /\ m.rate_limits <= m.failures

BadLines == {i \in DOMAIN lines : lines[i].type = "bad"}

\* The lines with a target before the first bad one, and the place of one among them.
TargetLines ==
  {i \in DOMAIN lines : lines[i].type = "target" /\ \A j \in BadLines : i < j}

Place(i) == Cardinality({j \in TargetLines : j <= i})

\* A command that reads stdin works through its targets in their order, whatever
\* the reader thread is ahead: it stops at the first target that fails as a
\* whole, with exit 1, or at the first line that is no target, with exit 2; exit
\* 0 means that there was a target and all were done.  It never waits for a
\* reader that waits for it.
StdinInOrder ==
  LET command == cmd[Cli]
      done == command.done
      failures == {i \in DOMAIN done : done[i].outcome = "failed"}
  IN command.from = "stdin" =>
       /\ Len(done) <= Cardinality(TargetLines)
       /\ \A i \in TargetLines : Place(i) <= Len(done) => done[Place(i)].target = lines[i]
       /\ failures \subseteq {Len(done)} /\ (failures # {} <=> command.exit \in {1, 3})
       /\ command.exit \in {0, 2} => Len(done) = Cardinality(TargetLines)
       /\ command.exit = 0 => TargetLines # {} /\ BadLines = {}
       /\ command.exit = 2 => TargetLines = {} \/ BadLines # {}
       /\ command.st = "next" /\ queue = <<>> => reader.st \in {"reading", "ended"}
       /\ Len(queue) <= 2
=============================================================================
