---------------------------- MODULE RecordStream ----------------------------
(***************************************************************************)
(* comsat search: the command that consumes a search stream, prints its    *)
(* records and diagnostics and decides the exit code (comsat-app           *)
(* commands/search.rs and errors.rs), composed with the search engine.     *)
(***************************************************************************)
EXTENDS SearchEngine

VARIABLES
  state,   \* RecordStreamState, and how many events have been printed
  exit     \* the exit code, or RUNNING

streamVars == <<engineVars, state, exit>>

RUNNING == 99

StreamInit ==
  /\ EngineInit
  /\ state = [saw_record |-> FALSE, failed_sources |-> {}, printed |-> 0]
  /\ exit = RUNNING

\* selected_source_count: the ids that were selected, known or not.
ExpectedSources == Len(Order) + Len(request.missing)

Observe(e) ==
  [state EXCEPT
     !.saw_record = @ \/ e.type = "record",
     !.failed_sources = IF e.type = "failed" THEN @ \cup {e.source} ELSE @,
     !.printed = @ + 1]

\* Mutant of Terminal: records seen before the failures do not count.
MutTerminal(st) ==
  \/ request.strict
  \/ /\ ExpectedSources > 0
     /\ Cardinality(st.failed_sources) >= ExpectedSources

Terminal(st) ==
  \/ request.strict
  \/ /\ ~st.saw_record
     /\ ExpectedSources > 0
     /\ Cardinality(st.failed_sources) >= ExpectedSources

\* source_failures_stream_error.
FailureExit == IF request.strict THEN 3 ELSE 1

Waiting == state.printed = Len(out)

\* Mutant of TakeEvent: the stream is not dropped on the way out.
MutKeepStream ==
  /\ exit = RUNNING
  /\ At("rest") /\ ~Waiting
  /\ LET st == Observe(out[state.printed + 1])
     IN  /\ state' = st
         /\ exit' = IF Terminal(st) THEN FailureExit ELSE exit
         /\ UNCHANGED engineVars

\* One event: observe it, print it and, if it is terminal, report the failures
\* and break, which drops the stream.
TakeEvent ==
  /\ exit = RUNNING
  /\ At("rest") /\ ~Waiting
  /\ LET st == Observe(out[state.printed + 1])
     IN  /\ state' = st
         /\ IF Terminal(st) THEN exit' = FailureExit /\ Drop
            ELSE UNCHANGED <<exit, engineVars>>

\* The stream returned None.
EndOfStream ==
  /\ exit = RUNNING
  /\ At("ended")
  /\ exit' = 0
  /\ UNCHANGED <<engineVars, state>>

EngineRuns ==
  /\ exit = RUNNING
  /\ \/ Waiting /\ PollNext
     \/ PollStep
     \/ \E s \in Sources : UpstreamAnswers(s)
  /\ UNCHANGED <<state, exit>>

StreamNext == EngineRuns \/ TakeEvent \/ EndOfStream

StreamFairness ==
  /\ WF_streamVars(EngineRuns /\ (PollNext \/ PollStep))
  /\ \A s \in Sources : WF_streamVars(EngineRuns /\ UpstreamAnswers(s))
  /\ WF_streamVars(TakeEvent)
  /\ WF_streamVars(EndOfStream)

StreamSpec == StreamInit /\ [][StreamNext]_streamVars /\ StreamFairness

-----------------------------------------------------------------------------
(* Properties *)

SourcesFailed == {e.source : e \in {f \in ToSet(out) : f.type = "failed"}}
RecordsPrinted == {e \in ToSet(out) : e.type = "record"}

\* Without --strict the command exits 1 exactly when every selected source
\* failed and nothing was found, and 0 otherwise, in whatever order failures
\* and records arrive.
TotalFailureExit ==
  exit # RUNNING /\ ~request.strict =>
    exit = IF /\ Cardinality(SourcesFailed) = ExpectedSources
              /\ ExpectedSources > 0
              /\ RecordsPrinted = {}
           THEN 1 ELSE 0

\* With --strict the command exits 3 if, and only if, a selected source failed.
StrictExit ==
  exit # RUNNING /\ request.strict => (exit = 3 <=> SourcesFailed # {})

\* Whatever the code, the command has printed every event the engine
\* delivered, and no worker is left running behind it.
NothingLeftBehind ==
  exit # RUNNING =>
    /\ Waiting
    /\ \A s \in Sources : worker[s].pc \in {"none", "done", "dropped"}
    /\ \A s \in Sources :
         metrics[s].requests
           = metrics[s].successes + metrics[s].failures + metrics[s].cancelled

\* The command ends.
CommandEnds == <>(exit # RUNNING)
=============================================================================
