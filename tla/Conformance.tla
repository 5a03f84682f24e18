---------------------------- MODULE Conformance ----------------------------
(***************************************************************************)
(* A source as a tool (comsat-source command.rs, descriptor.rs) and the    *)
(* conformance suite that calls it through a tool catalog (conformance.rs, *)
(* conformance/cancellation.rs).  The runtime behind the tool is any       *)
(* runtime: it may answer with anything, at once or never.                 *)
(***************************************************************************)
EXTENDS SourceTypes, FiniteSets

CONSTANTS
  Profiles,     \* SourceProfiles a descriptor may have
  Streams,      \* what a runtime may yield: sequences of ids and failures
  ExpectedClass \* the class of the error fixture

Bad == "bad"    \* the id of a record that does not validate

ASSUME SuiteAssumption ==
  /\ None \notin ErrorClasses \cup {"serialization"} /\ None \notin Streams
  /\ \A s \in Streams :
       /\ s = [i \in 1..Len(s) |-> [id |-> s[i].id, class |-> s[i].class]]
       /\ Len(s) \in Nat /\ \A i \in 1..Len(s) : s[i] # None

VARIABLES
  profile,    \* of the descriptor under test
  fixtures,   \* which optional fixtures are given, and whether all are valid
  contract,   \* external: the tools whose schemas are declared and consistent
  suite,      \* where the suite is, and what it keeps between its awaits
  ledger,     \* RequestLedger: opened and live
  verdict,    \* "running", "rejected" or "reported"; the report is suite.checked
  truth       \* history: what the runtime and the catalog really did

suiteVars == <<profile, fixtures, contract, suite, ledger, verdict, truth>>

\* SourceDescriptor.supports; source_commands makes a search tool in any case.
Supports(op) == op \in profile

Tools == profile \cup {"search"}

-----------------------------------------------------------------------------
\* command.rs

\* validate_and_serialize and source_result_to_record: one item of the stream.
Chunk(item) ==
  IF item.class # None THEN [code |-> item.class]
  ELSE IF item.id = Bad THEN [code |-> "serialization"] ELSE [code |-> None]

\* External: ToolCatalog.call collects a record stream up to its first error.
CallOutcome(stream) ==
  LET errors == {i \in DOMAIN stream : Chunk(stream[i]).code # None}
      first == CHOOSE i \in errors : \A j \in errors : i <= j
  IN IF errors = {} THEN [ok |-> TRUE, code |-> None, ids |-> [i \in DOMAIN stream |-> stream[i].id]]
     ELSE [ok |-> FALSE, code |-> Chunk(stream[first]).code, ids |-> <<>>]

-----------------------------------------------------------------------------
\* conformance.rs

SuiteInit ==
  /\ profile \in Profiles
  /\ fixtures \in [target : BOOLEAN, error : BOOLEAN, cancellation : BOOLEAN, valid : BOOLEAN]
  /\ contract \in SUBSET Operations
  /\ suite = [at |-> "begin", first |-> <<>>, checked |-> {}]
  /\ ledger = [opened |-> 0, live |-> 0]
  /\ verdict = "running"
  /\ truth = [streams |-> <<>>, fetched |-> None, followed |-> None, class |-> None,
              reached |-> FALSE, pending |-> FALSE, kept |-> FALSE]

Rejects(cond) == verdict' = IF cond THEN "rejected" ELSE "running"

\* The step after a check that passed.
Goes(cond, next) == suite' = IF cond THEN suite ELSE next

\* require_tool: the tool exists, with an input and an output schema.
Required(op) == op \in Tools /\ op \in contract

\* Where the suite goes on after one of its optional checks: a check without its
\* fixture, or of an operation the source does not offer, is skipped.
Steps == <<"fetch", "follow", "error", "cancel", "report">>

Wanted(step) ==
  CASE step = "fetch" -> fixtures.target /\ Supports("fetch")
    [] step = "follow" -> fixtures.target /\ Supports("follow")
    [] step = "error" -> fixtures.error
    [] step = "cancel" -> fixtures.cancellation
    [] step = "report" -> TRUE

StepAfter(n) == Steps[CHOOSE i \in DOMAIN Steps :
                    i > n /\ Wanted(Steps[i]) /\ \A j \in (n + 1)..(i - 1) : ~Wanted(Steps[j])]

\* run_with_fixtures up to its first await.
Begin ==
  /\ suite.at = "begin" /\ verdict = "running"
  /\ LET fails == ~Supports("search") \/ ~fixtures.valid \/ ~Required("search")
     IN Rejects(fails) /\ Goes(fails, [suite EXCEPT !.at = "search1"])
  /\ UNCHANGED <<profile, fixtures, contract, ledger, truth>>

\* A call that ends: ObservedRuntime opens the request, the stream is collected
\* and dropped with its guard before the call returns.
Opened == ledger' = [ledger EXCEPT !.opened = @ + 1]

FirstSearch(stream) ==
  /\ suite.at = "search1" /\ verdict = "running"
  /\ LET out == CallOutcome(stream)
     IN Rejects(~out.ok) /\ Goes(~out.ok, [suite EXCEPT !.at = "search2", !.first = out.ids])
  /\ Opened
  /\ truth' = [truth EXCEPT !.streams = Append(@, stream)]
  /\ UNCHANGED <<profile, fixtures, contract>>

SecondSearch(stream) ==
  /\ suite.at = "search2" /\ verdict = "running"
  /\ LET out == CallOutcome(stream)
         fails == ~out.ok \/ suite.first = <<>> \/ suite.first # out.ids
     IN Rejects(fails) /\ Goes(fails, [suite EXCEPT !.at = StepAfter(0)])
  /\ Opened
  /\ truth' = [truth EXCEPT !.streams = Append(@, stream)]
  /\ UNCHANGED <<profile, fixtures, contract>>

\* check_fetch and check_follow.  The target fixture may name another source: the
\* command then refuses it (validate_target_source) before the runtime sees it.
CheckFetch(item, mine) ==
  /\ suite.at = "fetch" /\ verdict = "running"
  /\ LET fails == ~Required("fetch") \/ ~mine \/ Chunk(item).code # None
     IN /\ Rejects(fails)
        /\ Goes(fails, [suite EXCEPT !.at = StepAfter(1), !.checked = @ \cup {"fetch"}])
  /\ IF Required("fetch") /\ mine
       THEN Opened /\ truth' = [truth EXCEPT !.fetched = item]
       ELSE UNCHANGED <<ledger, truth>>
  /\ UNCHANGED <<profile, fixtures, contract>>

CheckFollow(stream, mine) ==
  /\ suite.at = "follow" /\ verdict = "running"
  /\ LET fails == ~Required("follow") \/ ~mine \/ ~CallOutcome(stream).ok
     IN /\ Rejects(fails)
        /\ Goes(fails, [suite EXCEPT !.at = StepAfter(2), !.checked = @ \cup {"follow"}])
  /\ IF Required("follow") /\ mine
       THEN Opened /\ truth' = [truth EXCEPT !.followed = stream]
       ELSE UNCHANGED <<ledger, truth>>
  /\ UNCHANGED <<profile, fixtures, contract>>

\* check_error: the call must fail, with a code that is an error class, the
\* expected one.
CheckError(stream) ==
  /\ suite.at = "error" /\ verdict = "running"
  /\ LET out == CallOutcome(stream)
         fails == out.ok \/ out.code \notin ErrorClasses \/ out.code # ExpectedClass
     IN /\ Rejects(fails)
        /\ Goes(fails, [suite EXCEPT !.at = StepAfter(3), !.checked = @ \cup {"error"}])
  /\ Opened
  /\ truth' = [truth EXCEPT !.class = CallOutcome(stream).code]
  /\ UNCHANGED <<profile, fixtures, contract>>

\* call_and_cancel: one poll of the call.  It may be ready, pending before it
\* reached the runtime, or pending on a source request.
Poll(ready, reached) ==
  /\ suite.at = "cancel" /\ verdict = "running"
  /\ Rejects(ready)
  /\ Goes(ready, [suite EXCEPT !.at = "cancelling", !.first = <<ledger.opened, ledger.live>>])
  /\ ledger' = IF reached
                 THEN [opened |-> ledger.opened + 1,
                       live |-> IF ready THEN ledger.live ELSE ledger.live + 1]
                 ELSE ledger
  /\ truth' = [truth EXCEPT !.reached = reached, !.pending = ~ready]
  /\ UNCHANGED <<profile, fixtures, contract>>

\* Mutant of Cancel: what is still live is not counted.
MutCancel(cancelled, kept) ==
  /\ suite.at = "cancelling" /\ verdict = "running"
  /\ kept => truth.reached
  /\ ledger' = [ledger EXCEPT !.live = IF truth.reached /\ ~kept THEN @ - 1 ELSE @]
  /\ LET fails == ~cancelled \/ ledger.opened = suite.first[1]
     IN /\ Rejects(fails)
        /\ Goes(fails, [suite EXCEPT !.at = "report", !.checked = @ \cup {"cancellation"}])
  /\ truth' = [truth EXCEPT !.kept = kept]
  /\ UNCHANGED <<profile, fixtures, contract>>

\* The token is cancelled and the call awaited.  External: the catalog reports
\* CANCELLED or something else, and drops the pending request or keeps it.
Cancel(cancelled, kept) ==
  /\ suite.at = "cancelling" /\ verdict = "running"
  /\ kept => truth.reached
  /\ ledger' = [ledger EXCEPT !.live = IF truth.reached /\ ~kept THEN @ - 1 ELSE @]
  /\ LET fails == ~cancelled \/ ledger.opened = suite.first[1] \/ ledger'.live > suite.first[2]
     IN /\ Rejects(fails)
        /\ Goes(fails, [suite EXCEPT !.at = "report", !.checked = @ \cup {"cancellation"}])
  /\ truth' = [truth EXCEPT !.kept = kept]
  /\ UNCHANGED <<profile, fixtures, contract>>

Reports ==
  /\ suite.at = "report" /\ verdict = "running"
  /\ verdict' = "reported"
  /\ UNCHANGED <<profile, fixtures, contract, suite, ledger, truth>>

SuiteNext ==
  \/ Begin
  \/ \E s \in Streams : FirstSearch(s) \/ SecondSearch(s) \/ CheckError(s)
  \/ \E s \in Streams, mine \in BOOLEAN : CheckFollow(s, mine)
  \/ \E s \in Streams, mine \in BOOLEAN : s # <<>> /\ CheckFetch(s[1], mine)
  \/ \E ready, reached \in BOOLEAN : Poll(ready, reached)
  \/ \E cancelled, kept \in BOOLEAN : Cancel(cancelled, kept)
  \/ Reports

SuiteSpec == SuiteInit /\ [][SuiteNext]_suiteVars

-----------------------------------------------------------------------------
\* Properties.

Sound(stream) == \A i \in DOMAIN stream : stream[i].class = None /\ stream[i].id # Bad

\* A report is honest: both searches gave the same valid records in the same order
\* and at least one; a flag is set only when the source offers the operation and
\* did what the flag says; and the cancellation flag only when a source request
\* was pending at the cancellation and was dropped by it ("actually drops the
\* pending source request instead of only reporting a cancelled outcome",
\* conformance/cancellation.rs:12-14).
ReportSound ==
  verdict = "reported" =>
    /\ Len(truth.streams) = 2 /\ truth.streams[1] = truth.streams[2]
    /\ truth.streams[1] # <<>> /\ Sound(truth.streams[1])
    /\ "fetch" \in suite.checked => Supports("fetch") /\ truth.fetched # None /\ Sound(<<truth.fetched>>)
    /\ "follow" \in suite.checked => Supports("follow") /\ truth.followed # None /\ Sound(truth.followed)
    /\ "error" \in suite.checked => truth.class = ExpectedClass
    /\ "cancellation" \in suite.checked => truth.reached /\ truth.pending /\ ~truth.kept
    /\ ledger.live = 0
=============================================================================
