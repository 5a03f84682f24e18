--------------------------- MODULE Sources_proofs ---------------------------
(***************************************************************************)
(* Proofs about the calls of a source, for any number of callers and       *)
(* whatever upstreams answer, and about the conformance suite, for every   *)
(* source under test.                                                      *)
(***************************************************************************)
EXTENDS SourceCalls, Conformance, SequenceTheorems, WellFoundedInduction, TLAPS

-----------------------------------------------------------------------------
(* Least numbers *)

\* A set of natural numbers has a least one.
LEMMA LeastNat ==
  ASSUME NEW T, T \subseteq Nat, T # {}
  PROVE  \E x \in T : \A y \in T : x <= y
<1> DEFINE R == OpToRel(<, Nat)
<1>1. IsWellFoundedOn(R, Nat)
  BY NatLessThanWellFounded
<1>2. \A x, y \in Nat : <<y, x>> \in R <=> y < x
  BY DEF OpToRel
<1> HIDE DEF R
<1>3. \E x \in T : \A y \in T : ~(<<y, x>> \in R)
  BY <1>1, WFMin
<1>4. PICK x \in T : \A y \in T : ~(<<y, x>> \in R)
  BY <1>3
<1>5. x \in Nat /\ \A y \in T : y \in Nat
  OBVIOUS
<1>6. ASSUME NEW y \in T PROVE x <= y
  <2>1. ~(y < x)
    BY <1>2, <1>4, <1>5
  <2> QED BY <1>5, <2>1
<1> QED BY <1>6

\* The least member of a set of natural numbers, as the community modules write it.
LEMMA MinIsLeast ==
  ASSUME NEW T, T \subseteq Nat, T # {}
  PROVE  Min(T) \in T /\ \A y \in T : Min(T) <= y
  BY LeastNat DEF Min

-----------------------------------------------------------------------------
(* The checks a source makes before it sends *)

\* A list of checks, in which each one that fails has a class.
IsChecks(checks) ==
  \E n \in Nat : /\ DOMAIN checks = 1..n
                 /\ \A i \in 1..n : checks[i].fails => checks[i].class # None

\* Nothing is refused exactly when no check fails.
LEMMA Unrefused ==
  ASSUME NEW checks, IsChecks(checks), NEW requests
  PROVE  /\ Decide(checks, requests).refusal = None
              <=> \A i \in DOMAIN checks : ~checks[i].fails
         /\ Decide(checks, requests).refusal = None
              => Decide(checks, requests).requests = requests
<1> DEFINE failed == {i \in DOMAIN checks : checks[i].fails}
<1>1. failed \subseteq Nat /\ \A i \in failed : checks[i].class # None
  BY DEF IsChecks
<1>2. FirstFailure(checks) = IF failed = {} THEN None ELSE checks[Min(failed)].class
  BY DEF FirstFailure
<1> HIDE DEF failed
<1>3. failed # {} => Min(failed) \in failed
  BY <1>1, MinIsLeast
<1>4. failed \subseteq DOMAIN checks
  BY DEF failed
<1>5. FirstFailure(checks) = None <=> failed = {}
  BY <1>1, <1>2, <1>3, <1>4
<1>6. Decide(checks, requests) =
        [refusal |-> FirstFailure(checks),
         requests |-> IF FirstFailure(checks) = None THEN requests ELSE <<>>]
  BY DEF Decide
<1>7. failed = {} <=> \A i \in DOMAIN checks : ~checks[i].fails
  BY DEF failed
<1> QED BY <1>5, <1>6, <1>7

\* What the first failure is of a list of one check.
LEMMA OneCheck ==
  ASSUME NEW f, NEW c, f => c # None, NEW requests
  PROVE  LET d == Decide(<<Check(f, c)>>, requests)
         IN (d.refusal = None <=> ~f) /\ (d.refusal = None => d.requests = requests)
<1> DEFINE checks == <<Check(f, c)>>
<1>1. IsChecks(checks) /\ DOMAIN checks = {1} /\ (~checks[1].fails <=> ~f)
  BY DEF IsChecks, Check
<1> HIDE DEF checks
<1>2. (\A i \in DOMAIN checks : ~checks[i].fails) <=> ~f
  BY <1>1
<1> QED BY <1>1, <1>2, Unrefused DEF checks

\* Of a list of two checks.
LEMMA TwoChecks ==
  ASSUME NEW f1, NEW c1, f1 => c1 # None, NEW f2, NEW c2, f2 => c2 # None, NEW requests
  PROVE  LET d == Decide(<<Check(f1, c1), Check(f2, c2)>>, requests)
         IN (d.refusal = None <=> ~f1 /\ ~f2) /\ (d.refusal = None => d.requests = requests)
<1> DEFINE checks == <<Check(f1, c1), Check(f2, c2)>>
<1>1. /\ IsChecks(checks) /\ DOMAIN checks = {1, 2}
      /\ (~checks[1].fails <=> ~f1) /\ (~checks[2].fails <=> ~f2)
  BY DEF IsChecks, Check
<1> HIDE DEF checks
<1>2. (\A i \in DOMAIN checks : ~checks[i].fails) <=> ~f1 /\ ~f2
  BY <1>1
<1> QED BY <1>1, <1>2, Unrefused DEF checks

\* Of a list of three checks.
LEMMA ThreeChecks ==
  ASSUME NEW f1, NEW c1, f1 => c1 # None, NEW f2, NEW c2, f2 => c2 # None,
         NEW f3, NEW c3, f3 => c3 # None, NEW requests
  PROVE  LET d == Decide(<<Check(f1, c1), Check(f2, c2), Check(f3, c3)>>, requests)
         IN /\ d.refusal = None <=> ~f1 /\ ~f2 /\ ~f3
            /\ d.refusal = None => d.requests = requests
<1> DEFINE checks == <<Check(f1, c1), Check(f2, c2), Check(f3, c3)>>
<1>1. /\ IsChecks(checks) /\ DOMAIN checks = {1, 2, 3}
      /\ (~checks[1].fails <=> ~f1) /\ (~checks[2].fails <=> ~f2)
      /\ (~checks[3].fails <=> ~f3)
  BY DEF IsChecks, Check
<1> HIDE DEF checks
<1>2. (\A i \in DOMAIN checks : ~checks[i].fails) <=> ~f1 /\ ~f2 /\ ~f3
  BY <1>1
<1> QED BY <1>1, <1>2, Unrefused DEF checks

\* Of two checks the first that fails decides.
LEMMA FirstOfTwo ==
  ASSUME NEW f1, NEW c1, NEW f2, NEW c2
  PROVE  FirstFailure(<<Check(f1, c1), Check(f2, c2)>>) =
           IF f1 THEN c1 ELSE IF f2 THEN c2 ELSE None
<1> DEFINE checks == <<Check(f1, c1), Check(f2, c2)>>
           failed == {i \in DOMAIN checks : checks[i].fails}
<1>1. /\ (1 \in failed <=> f1) /\ (2 \in failed <=> f2) /\ failed \subseteq {1, 2}
      /\ checks[1].class = c1 /\ checks[2].class = c2
  BY DEF Check
<1>2. FirstFailure(checks) = IF failed = {} THEN None ELSE checks[Min(failed)].class
  BY DEF FirstFailure
<1> HIDE DEF checks, failed
<1>3. failed # {} => Min(failed) \in failed /\ \A y \in failed : Min(failed) <= y
  <2>1. failed \subseteq Nat
    BY <1>1
  <2> QED BY <2>1, MinIsLeast
<1>4. CASE 1 \in failed
  <2>1. Min(failed) \in {1, 2} /\ Min(failed) <= 1
    BY <1>1, <1>3, <1>4
  <2>2. Min(failed) = 1
    BY <2>1
  <2> QED BY <1>1, <1>2, <1>4, <2>2 DEF checks
<1>5. CASE 1 \notin failed /\ 2 \in failed
  <2>1. Min(failed) \in {1, 2} /\ Min(failed) \in failed
    BY <1>1, <1>3, <1>5
  <2>2. Min(failed) = 2
    BY <1>5, <2>1
  <2> QED BY <1>1, <1>2, <1>5, <2>2 DEF checks
<1>6. CASE 1 \notin failed /\ 2 \notin failed
  <2>1. failed = {}
    BY <1>1, <1>6
  <2> QED BY <1>1, <1>2, <1>6, <2>1 DEF checks
<1> QED BY <1>4, <1>5, <1>6

\* The four sources make their checks alike.
LEMMA SameChecks ==
  ASSUME NEW checks, NEW requests
  PROVE  /\ SE!FirstFailure(checks) = FirstFailure(checks)
         /\ GH!Decide(checks, requests) = Decide(checks, requests)
         /\ SE!Decide(checks, requests) = Decide(checks, requests)
         /\ HN!Decide(checks, requests) = Decide(checks, requests)
         /\ WB!Decide(checks, requests) = Decide(checks, requests)
<1>1. /\ GH!FirstFailure(checks) = FirstFailure(checks)
      /\ SE!FirstFailure(checks) = FirstFailure(checks)
      /\ HN!FirstFailure(checks) = FirstFailure(checks)
      /\ WB!FirstFailure(checks) = FirstFailure(checks)
  BY DEF FirstFailure, GH!FirstFailure, SE!FirstFailure, HN!FirstFailure, WB!FirstFailure,
         Min, GH!Min, SE!Min, HN!Min, WB!Min
<1> QED
  BY <1>1 DEF Decide, GH!Decide, SE!Decide, HN!Decide, WB!Decide

-----------------------------------------------------------------------------
(* Cooldowns *)

\* The seconds a response may state.
Waits == Nat \cup {None}

\* External: what upstreams send, as far as the cooldowns read it.
WiresStateWaits ==
  \A s \in Sources : \A req : \A response \in Responses(s, req) : StatesWaits(response)

\* A source that keeps a cooldown cools down at least as long as upstream asked.
CoolInv ==
  /\ source \in [id : Sources, credential : BOOLEAN]
  /\ DOMAIN calls = Calls
  /\ \A c \in Calls : calls[c].st = "waiting" => calls[c].op \in Operations
  /\ cool \in [Operations -> Nat] /\ promised \in [Operations -> Nat]
  /\ \A op \in Operations : promised[op] <= cool[op]
  /\ source.id \notin {GH!Id, SE!Id} => \A op \in Operations : promised[op] = 0

\* A plan without a refusal is made while nothing cools down, if the source asks.
LEMMA PlansAskCooldown ==
  ASSUME NEW op \in Operations, NEW arg, source.id \in {GH!Id, SE!Id}, cool \in [Operations -> Nat],
         Plan(op, arg).refusal = None
  PROVE  cool[op] = 0
<1> DEFINE cooling == cool[op] > 0
           key == source.credential
<1>0. GH!Id = "github" /\ SE!Id = "stack-exchange" /\ HN!Id = "hacker-news" /\ WB!Id = "web"
  BY DEF GH!Id, SE!Id, HN!Id, WB!Id
<1>5. \A class \in {"invalid_query", "rate_limit", "authentication", "protocol"} : class # None
  BY CallsAssumption DEF ErrorClasses
<1>1. CASE source.id = GH!Id /\ op = "search"
  <2>1. Plan(op, arg) = GH!SearchPlan(arg, cooling, key)
    BY <1>0, <1>1 DEF Plan
  <2> DEFINE large == GH!Limit(arg) > GhLimit
             requests == <<GH!SearchRequest(arg)>>
             tokenless == ~key /\ GH!NeedsToken(requests)
  <2>2. GH!SearchPlan(arg, cooling, key) =
          Decide(<<Check(large, "invalid_query"), Check(cooling, "rate_limit"),
                   Check(tokenless, "authentication")>>, requests)
    BY SameChecks DEF GH!SearchPlan, GH!Check, Check
  <2> HIDE DEF cooling, large, requests, tokenless
  <2>3. ~cooling
    BY <1>5, <2>1, <2>2, ThreeChecks
  <2> QED BY <2>3 DEF cooling
<1>2. CASE source.id = GH!Id /\ op # "search"
  <2> DEFINE target == GH!FromTarget(arg)
             wrong == target.class # None
             requests == IF wrong THEN <<>>
                         ELSE IF op = "fetch" THEN <<GH!FetchRequest(target)>>
                                              ELSE GH!FollowRequests(target)
             tokenless == ~key /\ GH!NeedsToken(requests)
  <2>1. Plan(op, arg) = GH!TargetPlan(op, arg, cooling, key)
    BY <1>0, <1>2 DEF Plan
  <2>2. GH!TargetPlan(op, arg, cooling, key) =
          Decide(<<Check(cooling, "rate_limit"), Check(wrong, target.class),
                   Check(tokenless, "authentication")>>, requests)
    BY SameChecks DEF GH!TargetPlan, GH!Check, Check
  <2>3. wrong => target.class # None
    OBVIOUS
  <2> HIDE DEF cooling, target, wrong, requests, tokenless
  <2>4. ~cooling
    BY <1>5, <2>1, <2>2, <2>3, ThreeChecks
  <2> QED BY <2>4 DEF cooling
<1>3. CASE source.id = SE!Id /\ op = "search"
  <2>1. Plan(op, arg) = SE!SearchPlan(arg, cooling)
    BY <1>0, <1>3 DEF Plan
  <2> DEFINE large == SE!Limit(arg) > SE!MAX_LIMIT
             untimely == SE!BadTime \in {arg.since, arg.until}
             requests == <<SE!Get("search", [text |-> arg.terms, limit |-> SE!Limit(arg),
                                             fromdate |-> arg.since, todate |-> arg.until])>>
  <2>2. SE!SearchPlan(arg, cooling) =
          Decide(<<Check(large, "invalid_query"), Check(cooling, "rate_limit"),
                   Check(untimely, "protocol")>>, requests)
    BY SameChecks DEF SE!SearchPlan, SE!Check, Check
  <2> HIDE DEF cooling, large, untimely, requests
  <2>3. ~cooling
    BY <1>5, <2>1, <2>2, ThreeChecks
  <2> QED BY <2>3 DEF cooling
<1>4. CASE source.id = SE!Id /\ op # "search"
  <2>1. Plan(op, arg) = SE!TargetPlan(op, arg, cooling)
    BY <1>0, <1>4 DEF Plan
  <2> DEFINE id == SE!QuestionId(arg)
             requests == <<SE!Get(IF op = "fetch" THEN "question" ELSE "answers", id)>>
  <2>2. SE!TargetPlan(op, arg, cooling) =
          Decide(<<Check(cooling, "rate_limit"), Check(id = None, "invalid_query")>>, requests)
    BY SameChecks DEF SE!TargetPlan, SE!Check, Check
  <2> HIDE DEF cooling, id, requests
  <2>3. ~cooling
    BY <1>5, <2>1, <2>2, TwoChecks
  <2> QED BY <2>3 DEF cooling
<1> QED BY <1>1, <1>2, <1>3, <1>4

\* What a response does to a cooldown: what upstream asked for is observed, and a
\* cooldown is changed only by a response that asked for one.
LEMMA WaitsAreKept ==
  ASSUME source.id \in Sources, NEW req, NEW response,
         response.retry_after \in Waits, response.body.backoff \in Waits
  PROVE  LET asked == Asked(response)
             wait == Answer(req, response).wait
         IN /\ wait \in Waits /\ asked \in Waits
            /\ asked = None <=> wait = None
            /\ asked # None => asked <= wait
            /\ source.id \notin {GH!Id, SE!Id} => asked = None
<1>0. GH!Id = "github" /\ SE!Id = "stack-exchange" /\ HN!Id = "hacker-news" /\ WB!Id = "web"
  BY DEF GH!Id, SE!Id, HN!Id, WB!Id
<1>1. CASE source.id = GH!Id
  <2>1. Answer(req, response).wait = GH!Cooldown(response)
    BY <1>0, <1>1 DEF Answer, GH!Answer, GH!Outcome
  <2>2. Asked(response) = IF response.status \in {403, 429}
                          THEN IF response.retry_after = None THEN 0 ELSE response.retry_after
                          ELSE None
    BY <1>0, <1>1 DEF Asked
  <2> QED BY <1>1, <2>1, <2>2, CallsAssumption DEF GH!Cooldown, Waits
<1>2. CASE source.id = SE!Id
  <2> DEFINE body == response.body
             envelope == body.parses /\ (Success(response.status) \/ body.error # None)
             declared == SE!EnvelopeClass(body)
  <2>1. Answer(req, response).wait = SE!Cooldown(response)
    BY <1>0, <1>2 DEF Answer, SE!Answer, SE!Outcome
  <2>2. Asked(response) = IF envelope THEN body.backoff
                          ELSE IF response.status = 429 THEN response.retry_after ELSE None
    BY <1>0, <1>2 DEF Asked
  <2>3. envelope <=> ~(declared = "protocol" \/ (declared = None /\ ~Success(response.status)))
    <3> DEFINE broken == ~body.parses
               failing == body.error # None
               class == SE!ErrorClass(body.error)
    <3>1. class \in {"rate_limit", "authentication", "authorization", "invalid_query", "upstream"}
      BY DEF SE!ErrorClass
    <3>2. class # None /\ class # "protocol" /\ "protocol" # None
      BY <3>1, CallsAssumption DEF ErrorClasses
    <3>3. declared = FirstFailure(<<Check(broken, "protocol"), Check(failing, class)>>)
      BY SameChecks DEF SE!EnvelopeClass, SE!Check, Check
    <3>4. envelope <=> ~broken /\ (Success(response.status) \/ failing)
      OBVIOUS
    <3> HIDE DEF broken, failing, class, declared, envelope
    <3>5. declared = IF broken THEN "protocol" ELSE IF failing THEN class ELSE None
      BY <3>3, FirstOfTwo
    <3> QED BY <3>2, <3>4, <3>5
  <2>4. SE!Cooldown(response) =
          IF declared = "protocol" \/ (declared = None /\ ~Success(response.status))
          THEN IF response.status = 429 THEN response.retry_after ELSE None
          ELSE response.body.backoff
    BY DEF SE!Cooldown, SE!Success, Success
  <2> HIDE DEF envelope, declared
  <2>5. Asked(response) = Answer(req, response).wait /\ Asked(response) \in Waits
    BY <2>1, <2>2, <2>3, <2>4 DEF Waits
  <2> QED BY <1>2, <2>5 DEF Waits
<1>3. CASE source.id \in {HN!Id, WB!Id}
  <2>1. Answer(req, response).wait = None
    BY <1>0, <1>3 DEF Answer, HN!Answer, HN!Outcome, WB!Answer, WB!Outcome
  <2>2. Asked(response) = None
    BY <1>0, <1>3 DEF Asked
  <2> QED BY <2>1, <2>2 DEF Waits
<1> QED BY <1>1, <1>2, <1>3 DEF Sources

\* At the start no wait is promised and none is kept.
LEMMA CoolStart == SourceCallsInit => CoolInv
  BY DEF SourceCallsInit, CoolInv, Idle

\* A response keeps the cooldown at least as long as the wait that was asked for.
LEMMA RespondKeepsCool ==
  ASSUME CoolInv, WiresStateWaits, NEW c \in Calls, Answered(c) PROVE CoolInv'
<1>1. PICK response : /\ response.retry_after \in Waits /\ response.body.backoff \in Waits
                      /\ Respond(c, response)
  BY DEF Answered, WiresStateWaits, StatesWaits, Waits, CoolInv
<1> DEFINE op == calls[c].op
           req == Head(calls[c].todo)
           asked == Asked(response)
           wait == Answer(req, response).wait
<1>2. /\ wait \in Waits /\ asked \in Waits
      /\ asked = None <=> wait = None
      /\ asked # None => asked <= wait
      /\ source.id \notin {GH!Id, SE!Id} => asked = None
  BY <1>1, WaitsAreKept DEF CoolInv
<1>3. /\ calls[c].st = "waiting" /\ op \in Operations /\ source' = source
      /\ calls' = [calls EXCEPT ![c] = After(calls[c], Answer(req, response))]
      /\ cool' = SetCooldown(op, wait)
      /\ promised' = IF asked = None THEN promised ELSE [promised EXCEPT ![op] = asked]
  BY <1>1 DEF Respond, CoolInv
<1>4. After(calls[c], Answer(req, response)).op = op
  BY DEF After
<1> HIDE DEF asked, wait
<1>5. DOMAIN calls' = Calls /\ \A d \in Calls : calls'[d].st = "waiting" => calls'[d].op \in Operations
  BY <1>3, <1>4 DEF CoolInv
<1>6. CASE asked = None
  <2>1. cool' = cool /\ promised' = promised
    BY <1>2, <1>3, <1>6 DEF SetCooldown
  <2> QED BY <1>3, <1>5, <2>1 DEF CoolInv
<1>7. CASE asked # None
  <2>1. /\ cool' = [cool EXCEPT ![op] = IF wait > 1 THEN wait ELSE 1]
        /\ promised' = [promised EXCEPT ![op] = asked]
    BY <1>2, <1>3, <1>7 DEF SetCooldown
  <2>2. wait \in Nat /\ asked \in Nat /\ asked <= wait /\ source.id \in {GH!Id, SE!Id}
    BY <1>2, <1>7 DEF Waits
  <2> QED BY <1>3, <1>5, <2>1, <2>2 DEF CoolInv
<1> QED BY <1>6, <1>7

\* Every step keeps the cooldowns up to what upstream asked for.
LEMMA CoolStep ==
  ASSUME CoolInv, WiresStateWaits, [SourceCallsNext]_callVars PROVE CoolInv'
<1>1. ASSUME NEW c \in Calls, NEW op \in Operations, NEW arg, Start(c, op, arg) PROVE CoolInv'
  BY <1>1 DEF Start, CoolInv
<1>2. ASSUME NEW c \in Calls, TransportFails(c) PROVE CoolInv'
  BY <1>2 DEF TransportFails, After, CoolInv
<1>3. ASSUME NEW c \in Calls, Drop(c) \/ Forget(c) PROVE CoolInv'
  BY <1>3 DEF Drop, Forget, Idle, CoolInv
<1>4. CASE Tick
  BY <1>4 DEF Tick, Less, CoolInv
<1>5. CASE UNCHANGED callVars
  BY <1>5 DEF callVars, CoolInv
<1> QED
  BY <1>1, <1>2, <1>3, <1>4, <1>5, RespondKeepsCool DEF SourceCallsNext

\* Only the start of a call sends it, and not while its operation cools down.
LEMMA SendsWhenCool ==
  ASSUME CoolInv, SourceCallsNext, NEW c \in Calls,
         calls[c].st = "idle", calls'[c].st = "waiting"
  PROVE  promised[calls'[c].op] = 0
<1>0. PICK op \in Operations : \E arg : Start(c, op, arg)
  <2>1. ASSUME NEW d \in Calls, NEW op \in Operations, NEW arg, Start(d, op, arg)
        PROVE  d = c
    BY <2>1 DEF Start, CoolInv
  <2>2. ASSUME NEW d \in Calls, Answered(d) \/ TransportFails(d) \/ Drop(d) \/ Forget(d) PROVE FALSE
    BY <2>2 DEF Answered, Respond, TransportFails, Drop, Forget, CoolInv, Idle
  <2>3. ~Tick
    BY DEF Tick
  <2> QED BY <2>1, <2>2, <2>3 DEF SourceCallsNext
<1>1. PICK arg : Start(c, op, arg)
  BY <1>0
<1>2. /\ calls'[c].op = op /\ ~CommandRefuses(op, arg) /\ Plan(op, arg).refusal = None
  <2> DEFINE refusal == Decide(<<Check(TRUE, "invalid_query")>>, <<>>)
             plan == IF CommandRefuses(op, arg) THEN refusal ELSE Plan(op, arg)
             refused == plan.refusal # None
             row == [st |-> IF refused THEN "done" ELSE "waiting", op |-> op,
                     arg |-> IF op = "follow" THEN arg ELSE None,
                     todo |-> plan.requests, sent |-> First(plan.requests),
                     got |-> IF refused THEN <<Failed(plan.refusal)>> ELSE <<>>]
  <2>1. refusal.refusal # None
    BY OneCheck, CallsAssumption DEF ErrorClasses
  <2>2. calls' = [calls EXCEPT ![c] = row]
    BY <1>1 DEF Start
  <2>3. calls'[c] = row
    BY <2>2 DEF CoolInv
  <2> QED BY <2>1, <2>3
<1>3. CASE source.id \in {GH!Id, SE!Id}
  <2>1. cool[op] = 0
    BY <1>2, <1>3, PlansAskCooldown DEF CoolInv
  <2> QED BY <1>2, <2>1 DEF CoolInv
<1>4. CASE source.id \notin {GH!Id, SE!Id}
  BY <1>2, <1>4 DEF CoolInv
<1> QED BY <1>3, <1>4

\* No call of a source is sent while the wait that upstream last asked for is
\* running, for any number of callers and whatever upstreams answer.
THEOREM WaitsAreHonoured ==
  ASSUME WiresStateWaits PROVE SourceCallsSpec => RefusalHonoured
<1>1. CoolInv /\ [SourceCallsNext]_callVars => CoolInv'
  BY CoolStep
<1>2. CoolInv /\ [SourceCallsNext]_callVars =>
        [\A c \in Calls : calls[c].st = "idle" /\ calls'[c].st = "waiting"
           => promised[calls'[c].op] = 0]_callVars
  BY SendsWhenCool
<1> QED
  BY <1>1, <1>2, CoolStart, PTL DEF SourceCallsSpec, RefusalHonoured

-----------------------------------------------------------------------------
(* The conformance suite *)

\* A call that collects a stream succeeds exactly when every item is a valid
\* record, and returns their ids.
LEMMA CallsCollect ==
  ASSUME NEW s \in Streams
  PROVE  LET out == CallOutcome(s)
         IN /\ out.ok <=> Sound(s)
            /\ out.ok => out.ids = [i \in 1..Len(s) |-> s[i].id]
<1> DEFINE errors == {i \in DOMAIN s : Chunk(s[i]).code # None}
           first == CHOOSE i \in errors : \A j \in errors : i <= j
           Good(i) == s[i].class = None /\ s[i].id # Bad
<1>1. CallOutcome(s) = IF errors = {} THEN [ok |-> TRUE, code |-> None,
                                            ids |-> [i \in DOMAIN s |-> s[i].id]]
                       ELSE [ok |-> FALSE, code |-> Chunk(s[first]).code, ids |-> <<>>]
  BY DEF CallOutcome
<1>2. \A i \in DOMAIN s : Chunk(s[i]).code = None <=> Good(i)
  BY SuiteAssumption DEF Chunk
<1>3. errors = {} <=> Sound(s)
  BY <1>2 DEF Sound
<1>4. DOMAIN s = 1..Len(s)
  BY SuiteAssumption
<1> HIDE DEF errors, first
<1> QED BY <1>1, <1>3, <1>4

\* Two valid answers with the same ids in the same order are the same answer.
LEMMA SameIdsSameStream ==
  ASSUME NEW s \in Streams, NEW t \in Streams, Sound(s), Sound(t),
         CallOutcome(s).ids = CallOutcome(t).ids
  PROVE  s = t
<1>1. /\ s = [i \in 1..Len(s) |-> [id |-> s[i].id, class |-> s[i].class]] /\ Len(s) \in Nat
      /\ t = [i \in 1..Len(t) |-> [id |-> t[i].id, class |-> t[i].class]] /\ Len(t) \in Nat
      /\ DOMAIN s = 1..Len(s) /\ DOMAIN t = 1..Len(t)
  BY SuiteAssumption
<1>2. [i \in 1..Len(s) |-> s[i].id] = [i \in 1..Len(t) |-> t[i].id]
  BY CallsCollect
<1>3. Len(s) = Len(t) /\ \A i \in 1..Len(s) : s[i].id = t[i].id
  <2>1. 1..Len(s) = 1..Len(t)
    BY <1>2
  <2>2. Len(s) = Len(t)
    <3>1. \A m, n \in Nat : 1..m = 1..n => m = n
      <4> TAKE m \in Nat, n \in Nat
      <4> HAVE 1..m = 1..n
      <4>1. m \in 1..m \/ m = 0
        OBVIOUS
      <4>2. n \in 1..n \/ n = 0
        OBVIOUS
      <4>3. m <= n /\ n <= m
        BY <4>1, <4>2
      <4> QED BY <4>3
    <3> QED BY <1>1, <2>1, <3>1
  <2>3. \A i \in 1..Len(s) : [j \in 1..Len(s) |-> s[j].id][i] = [j \in 1..Len(t) |-> t[j].id][i]
    BY <1>2
  <2> QED BY <2>1, <2>2, <2>3
<1>4. \A i \in 1..Len(s) : s[i].class = None /\ t[i].class = None
  BY <1>1, <1>3 DEF Sound
<1> QED BY <1>1, <1>3, <1>4

\* The suite goes on with a check that is wanted and comes later.
LEMMA StepsAreWanted ==
  ASSUME NEW n \in 0..3
  PROVE  /\ StepAfter(n) \in {"fetch", "follow", "error", "cancel", "report"}
         /\ StepAfter(n) \in {"fetch", "follow"} => Supports(StepAfter(n))
<1> DEFINE Next(i) == i > n /\ Wanted(Steps[i]) /\ \A j \in (n + 1)..(i - 1) : ~Wanted(Steps[j])
           wanted == {i \in (n + 1)..5 : Wanted(Steps[i])}
           at == CHOOSE i \in DOMAIN Steps : Next(i)
<1>1. DOMAIN Steps = 1..5 /\ Steps[5] = "report" /\ \A i \in 1..5 :
        Steps[i] \in {"fetch", "follow", "error", "cancel", "report"}
  BY DEF Steps
<1>2. wanted \subseteq Nat /\ 5 \in wanted
  <2>1. Wanted("report")
    BY DEF Wanted
  <2> QED BY <1>1, <2>1
<1>3. PICK i \in wanted : \A j \in wanted : i <= j
  BY <1>2, LeastNat
<1>4. i \in DOMAIN Steps /\ Next(i)
  BY <1>1, <1>3
<1>5. at \in DOMAIN Steps /\ Next(at)
  BY <1>4
<1> HIDE DEF Next, wanted, at
<1>6. StepAfter(n) = Steps[at]
  BY DEF StepAfter, at, Next
<1>7. Wanted(Steps[at])
  BY <1>5 DEF Next
<1>8. (Wanted("fetch") => Supports("fetch")) /\ (Wanted("follow") => Supports("follow"))
  BY DEF Wanted
<1> QED BY <1>1, <1>5, <1>6, <1>7, <1>8

-----------------------------------------------------------------------------

SearchesAgree ==
  /\ Len(truth.streams) = 2 /\ truth.streams[1] = truth.streams[2]
  /\ truth.streams[1] # <<>> /\ Sound(truth.streams[1])

\* What the flags that are set so far rest on.
FlagsEarned ==
  /\ "fetch" \in suite.checked => Supports("fetch") /\ truth.fetched # None /\ Sound(<<truth.fetched>>)
  /\ "follow" \in suite.checked => Supports("follow") /\ truth.followed # None /\ Sound(truth.followed)
  /\ "error" \in suite.checked => truth.class = ExpectedClass
  /\ "cancellation" \in suite.checked => truth.reached /\ truth.pending /\ ~truth.kept

Checks == {"fetch", "follow", "error", "cancel", "cancelling", "report"}

SuiteShape ==
  /\ suite = [at |-> suite.at, first |-> suite.first, checked |-> suite.checked]
  /\ ledger \in [opened : Nat, live : Int]
  /\ truth = [streams |-> truth.streams, fetched |-> truth.fetched, followed |-> truth.followed,
              class |-> truth.class, reached |-> truth.reached, pending |-> truth.pending,
              kept |-> truth.kept]

\* The inductive invariant: what the suite knows at each await.
SuiteInv ==
  verdict # "rejected" =>
    /\ SuiteShape
    /\ suite.at \in {"begin", "search1", "search2"} \cup Checks
    /\ suite.at \in {"begin", "search1", "search2"} => suite.checked = {}
    /\ suite.at \in {"begin", "search1"} => truth.streams = <<>>
    /\ suite.at = "search2" =>
         \E s \in Streams : truth.streams = <<s>> /\ Sound(s) /\ suite.first = CallOutcome(s).ids
    /\ suite.at \in Checks => SearchesAgree
    /\ suite.at \in {"fetch", "follow"} => Supports(suite.at)
    /\ suite.at # "report" => "cancellation" \notin suite.checked
    /\ FlagsEarned
    /\ suite.at # "cancelling" => ledger.live = 0
    /\ suite.at = "cancelling" =>
         /\ suite.first = <<suite.first[1], 0>> /\ suite.first[1] \in Nat /\ truth.pending
         /\ ledger = IF truth.reached THEN [opened |-> suite.first[1] + 1, live |-> 1]
                                      ELSE [opened |-> suite.first[1], live |-> 0]
    /\ verdict = "reported" => suite.at = "report"

\* The suite starts without outcomes.
LEMMA SuiteStart == SuiteInit => SuiteInv
  BY DEF SuiteInit, SuiteInv, SuiteShape, Checks, FlagsEarned

\* Short sequences that grow by one.
LEMMA Appended ==
  ASSUME NEW s, NEW t
  PROVE  Append(<<>>, s) = <<s>> /\ Append(<<t>>, s) = <<t, s>>
<1> DEFINE one == Append(<<>>, s)
           two == Append(<<t>>, s)
<1>1. <<>> \in Seq({s, t}) /\ Len(<<>>) = 0 /\ <<t>> \in Seq({s, t}) /\ Len(<<t>>) = 1
  OBVIOUS
<1>2. /\ one \in Seq({s, t}) /\ Len(one) = 1 /\ one[1] = s
      /\ two \in Seq({s, t}) /\ Len(two) = 2 /\ two[1] = t /\ two[2] = s
  BY <1>1
<1>3. /\ <<s>> \in Seq({s, t}) /\ Len(<<s>>) = 1
      /\ <<t, s>> \in Seq({s, t}) /\ Len(<<t, s>>) = 2
  OBVIOUS
<1>4. one = <<s>>
  BY <1>2, <1>3
<1>5. \A i \in 1..2 : two[i] = <<t, s>>[i]
  BY <1>2
<1> HIDE DEF two
<1>6. two = <<t, s>>
  BY <1>2, <1>3, <1>5, SeqEqual
<1> QED BY <1>4, <1>6 DEF two

\* A step that ends in a rejection needs no more.
LEMMA RejectionKeepsSuite == ASSUME verdict' = "rejected" PROVE SuiteInv'
  BY DEF SuiteInv

\* The searches keep the invariant.
LEMMA SearchesKeepSuite ==
  ASSUME SuiteInv, NEW s \in Streams, FirstSearch(s) \/ SecondSearch(s) PROVE SuiteInv'
<1>1. CASE FirstSearch(s)
  <2>1. CASE ~CallOutcome(s).ok
    BY <1>1, <2>1, RejectionKeepsSuite DEF FirstSearch, Rejects
  <2>2. CASE CallOutcome(s).ok
    <3>1. Sound(s)
      BY <2>2, CallsCollect
    <3>2. /\ suite.at = "search1" /\ verdict = "running" /\ verdict' = "running"
          /\ suite' = [suite EXCEPT !.at = "search2", !.first = CallOutcome(s).ids]
          /\ ledger' = [ledger EXCEPT !.opened = @ + 1]
          /\ truth' = [truth EXCEPT !.streams = Append(@, s)]
          /\ UNCHANGED <<profile, fixtures, contract>>
      BY <1>1, <2>2 DEF FirstSearch, Rejects, Goes, Opened
    <3>3. /\ SuiteShape /\ truth.streams = <<>> /\ suite.checked = {} /\ ledger.live = 0
      BY <3>2 DEF SuiteInv
    <3>4. /\ suite' = [at |-> "search2", first |-> CallOutcome(s).ids, checked |-> {}]
      BY <3>2, <3>3 DEF SuiteShape
    <3>5. ledger' \in [opened : Nat, live : Int] /\ ledger'.live = 0
      BY <3>2, <3>3 DEF SuiteShape
    <3>6. truth' = [truth EXCEPT !.streams = <<s>>]
      BY <3>2, <3>3, Appended
    <3>7. truth'.streams = <<s>> /\ SuiteShape'
      BY <3>3, <3>4, <3>5, <3>6 DEF SuiteShape
    <3> QED BY <3>1, <3>2, <3>4, <3>5, <3>7 DEF SuiteInv, FlagsEarned, Checks
  <2> QED BY <2>1, <2>2
<1>2. CASE SecondSearch(s)
  <2> DEFINE fails == ~CallOutcome(s).ok \/ suite.first = <<>> \/ suite.first # CallOutcome(s).ids
  <2>1. CASE fails
    BY <1>2, <2>1, RejectionKeepsSuite DEF SecondSearch, Rejects
  <2>2. CASE ~fails
    <3>1. /\ suite.at = "search2" /\ verdict = "running" /\ verdict' = "running"
          /\ suite' = [suite EXCEPT !.at = StepAfter(0)]
          /\ ledger' = [ledger EXCEPT !.opened = @ + 1]
          /\ truth' = [truth EXCEPT !.streams = Append(@, s)]
          /\ UNCHANGED <<profile, fixtures, contract>>
      BY <1>2, <2>2 DEF SecondSearch, Rejects, Goes, Opened
    <3>2. PICK t \in Streams : truth.streams = <<t>> /\ Sound(t) /\ suite.first = CallOutcome(t).ids
      BY <3>1 DEF SuiteInv
    <3>3. Sound(s) /\ s = t
      BY <2>2, <3>2, CallsCollect, SameIdsSameStream
    <3>4. s # <<>>
      <4>1. CallOutcome(s).ids = [i \in 1..Len(s) |-> s[i].id] /\ CallOutcome(s).ids # <<>>
        BY <2>2, CallsCollect
      <4> QED BY <4>1
    <3>5. SuiteShape /\ suite.checked = {} /\ ledger.live = 0
      BY <3>1 DEF SuiteInv
    <3>6. truth' = [truth EXCEPT !.streams = <<s, s>>]
      BY <3>1, <3>2, <3>3, Appended
    <3>7. suite' = [at |-> StepAfter(0), first |-> suite.first, checked |-> {}]
      BY <3>1, <3>5 DEF SuiteShape
    <3>8. ledger' \in [opened : Nat, live : Int] /\ ledger'.live = 0
      BY <3>1, <3>5 DEF SuiteShape
    <3>9. truth'.streams = <<s, s>> /\ SuiteShape'
      BY <3>5, <3>6, <3>7, <3>8 DEF SuiteShape
    <3>10. SearchesAgree'
      BY <3>3, <3>4, <3>9 DEF SearchesAgree, Sound
    <3>11. /\ StepAfter(0) \in {"fetch", "follow", "error", "cancel", "report"}
           /\ StepAfter(0) \in {"fetch", "follow"} => Supports(StepAfter(0))
      BY StepsAreWanted
    <3>12. suite'.at = StepAfter(0) /\ suite'.checked = {}
      BY <3>7
    <3>13. FlagsEarned' /\ (suite.at \in {"fetch", "follow"} => Supports(suite.at))'
      BY <3>1, <3>11, <3>12 DEF FlagsEarned, Supports
    <3> HIDE DEF fails
    <3> QED
      BY <3>1, <3>8, <3>9, <3>10, <3>11, <3>12, <3>13 DEF SuiteInv, Checks
  <2> QED BY <2>1, <2>2
<1> QED BY <1>1, <1>2

\* So does the choice of what to check.
LEMMA BeginKeepsSuite == ASSUME SuiteInv, Begin PROVE SuiteInv'
<1> DEFINE fails == ~Supports("search") \/ ~fixtures.valid \/ ~Required("search")
<1>1. CASE fails
  BY <1>1, RejectionKeepsSuite DEF Begin, Rejects
<1>2. CASE ~fails
  <2>1. /\ suite.at = "begin" /\ verdict' = "running"
        /\ suite' = [suite EXCEPT !.at = "search1"]
        /\ UNCHANGED <<profile, ledger, truth>>
    BY <1>2 DEF Begin, Rejects, Goes
  <2>2. SuiteShape /\ suite.checked = {} /\ ledger.live = 0 /\ truth.streams = <<>>
    BY <2>1 DEF SuiteInv, Begin
  <2>3. suite' = [at |-> "search1", first |-> suite.first, checked |-> {}] /\ SuiteShape'
    BY <2>1, <2>2 DEF SuiteShape
  <2> QED BY <2>1, <2>2, <2>3 DEF SuiteInv, FlagsEarned, Checks
<1> QED BY <1>1, <1>2

\* What a check that passes leaves: it adds its flag and what the flag rests on,
\* and the suite goes on with a later check.
LEMMA PassingKeepsSuite ==
  ASSUME SuiteInv, verdict = "running", suite.at \in {"fetch", "follow", "error"},
         NEW flag \in {"fetch", "follow", "error"}, NEW n \in 1..3,
         verdict' = "running", UNCHANGED <<profile, fixtures>>,
         suite' = [suite EXCEPT !.at = StepAfter(n), !.checked = @ \cup {flag}],
         ledger' \in [opened : Nat, live : Int], ledger'.live = ledger.live,
         NEW v,
         truth' = CASE flag = "fetch" -> [truth EXCEPT !.fetched = v]
                    [] flag = "follow" -> [truth EXCEPT !.followed = v]
                    [] flag = "error" -> [truth EXCEPT !.class = v],
         flag = "fetch" => Supports("fetch") /\ v # None /\ Sound(<<v>>),
         flag = "follow" => Supports("follow") /\ v # None /\ Sound(v),
         flag = "error" => v = ExpectedClass
  PROVE  SuiteInv'
<1>1. /\ SuiteShape /\ SearchesAgree /\ FlagsEarned /\ ledger.live = 0
      /\ "cancellation" \notin suite.checked
  BY DEF SuiteInv, Checks
<1>2. suite' = [at |-> StepAfter(n), first |-> suite.first, checked |-> suite.checked \cup {flag}]
  BY <1>1 DEF SuiteShape
<1>3. /\ StepAfter(n) \in {"fetch", "follow", "error", "cancel", "report"}
      /\ StepAfter(n) \in {"fetch", "follow"} => Supports(StepAfter(n))
  BY StepsAreWanted
<1>4. /\ SuiteShape'
      /\ UNCHANGED <<truth.streams, truth.reached, truth.pending, truth.kept>>
      /\ truth'.fetched = IF flag = "fetch" THEN v ELSE truth.fetched
      /\ truth'.followed = IF flag = "follow" THEN v ELSE truth.followed
      /\ truth'.class = IF flag = "error" THEN v ELSE truth.class
  BY <1>1, <1>2 DEF SuiteShape
<1>5. SearchesAgree'
  BY <1>1, <1>4 DEF SearchesAgree
<1>6. FlagsEarned'
  BY <1>1, <1>2, <1>4 DEF FlagsEarned, Supports, Sound
<1>7. (suite.at \in {"fetch", "follow"} => Supports(suite.at))'
  BY <1>2, <1>3 DEF Supports
<1>8. suite'.at = StepAfter(n) /\ "cancellation" \notin suite'.checked
  BY <1>1, <1>2
<1>9. ledger'.live = 0
  BY <1>1
<1> QED BY <1>3, <1>4, <1>5, <1>6, <1>7, <1>8, <1>9 DEF SuiteInv, Checks

\* So do the checks of the other operations.
LEMMA ChecksKeepSuite ==
  ASSUME SuiteInv, NEW s \in Streams, NEW mine \in BOOLEAN,
         \/ s # <<>> /\ CheckFetch(s[1], mine)
         \/ CheckFollow(s, mine)
         \/ CheckError(s)
  PROVE  SuiteInv'
<1>1. CASE s # <<>> /\ CheckFetch(s[1], mine)
  <2> DEFINE fails == ~Required("fetch") \/ ~mine \/ Chunk(s[1]).code # None
  <2>1. CASE fails
    BY <1>1, <2>1, RejectionKeepsSuite DEF CheckFetch, Rejects
  <2>2. CASE ~fails
    <3>1. /\ suite.at = "fetch" /\ verdict = "running" /\ verdict' = "running"
          /\ suite' = [suite EXCEPT !.at = StepAfter(1), !.checked = @ \cup {"fetch"}]
          /\ ledger' = [ledger EXCEPT !.opened = @ + 1]
          /\ truth' = [truth EXCEPT !.fetched = s[1]]
          /\ UNCHANGED <<profile, fixtures>>
      BY <1>1, <2>2 DEF CheckFetch, Rejects, Goes, Opened
    <3>2. Supports("fetch") /\ ledger \in [opened : Nat, live : Int]
      BY <3>1 DEF SuiteInv, SuiteShape
    <3>3. ledger' \in [opened : Nat, live : Int] /\ ledger'.live = ledger.live
      BY <3>1, <3>2
    <3>4. Len(s) \in Nat /\ Len(s) # 0 /\ s[1] # None
      BY <1>1, SuiteAssumption
    <3>5. s[1].class = None /\ s[1].id # Bad
      BY <2>2, SuiteAssumption DEF Chunk
    <3>6. Sound(<<s[1]>>)
      BY <3>5 DEF Sound
    <3> HIDE DEF fails
    <3> QED BY <3>1, <3>2, <3>3, <3>4, <3>6, PassingKeepsSuite
  <2> QED BY <2>1, <2>2
<1>2. CASE CheckFollow(s, mine)
  <2> DEFINE fails == ~Required("follow") \/ ~mine \/ ~CallOutcome(s).ok
  <2>1. CASE fails
    BY <1>2, <2>1, RejectionKeepsSuite DEF CheckFollow, Rejects
  <2>2. CASE ~fails
    <3>1. /\ suite.at = "follow" /\ verdict = "running" /\ verdict' = "running"
          /\ suite' = [suite EXCEPT !.at = StepAfter(2), !.checked = @ \cup {"follow"}]
          /\ ledger' = [ledger EXCEPT !.opened = @ + 1]
          /\ truth' = [truth EXCEPT !.followed = s]
          /\ UNCHANGED <<profile, fixtures>>
      BY <1>2, <2>2 DEF CheckFollow, Rejects, Goes, Opened
    <3>2. Supports("follow") /\ ledger \in [opened : Nat, live : Int]
      BY <3>1 DEF SuiteInv, SuiteShape
    <3>3. ledger' \in [opened : Nat, live : Int] /\ ledger'.live = ledger.live
      BY <3>1, <3>2
    <3>4. s # None /\ Sound(s)
      BY <2>2, CallsCollect, SuiteAssumption
    <3> HIDE DEF fails
    <3> QED BY <3>1, <3>2, <3>3, <3>4, PassingKeepsSuite
  <2> QED BY <2>1, <2>2
<1>3. CASE CheckError(s)
  <2> DEFINE out == CallOutcome(s)
             fails == out.ok \/ out.code \notin ErrorClasses \/ out.code # ExpectedClass
  <2>1. CASE fails
    BY <1>3, <2>1, RejectionKeepsSuite DEF CheckError, Rejects
  <2>2. CASE ~fails
    <3>1. /\ suite.at = "error" /\ verdict = "running" /\ verdict' = "running"
          /\ suite' = [suite EXCEPT !.at = StepAfter(3), !.checked = @ \cup {"error"}]
          /\ ledger' = [ledger EXCEPT !.opened = @ + 1]
          /\ truth' = [truth EXCEPT !.class = out.code]
          /\ UNCHANGED <<profile, fixtures>>
      BY <1>3, <2>2 DEF CheckError, Rejects, Goes, Opened
    <3>2. ledger \in [opened : Nat, live : Int]
      BY <3>1 DEF SuiteInv, SuiteShape
    <3>3. ledger' \in [opened : Nat, live : Int] /\ ledger'.live = ledger.live
      BY <3>1, <3>2
    <3>4. out.code = ExpectedClass
      BY <2>2
    <3> HIDE DEF fails, out
    <3> QED BY <3>1, <3>3, <3>4, PassingKeepsSuite
  <2> QED BY <2>1, <2>2
<1> QED BY <1>1, <1>2, <1>3

\* The poll leaves at most one request pending, and the suite remembers how many
\* there were before.
LEMMA PollKeepsSuite ==
  ASSUME SuiteInv, NEW ready \in BOOLEAN, NEW reached \in BOOLEAN, Poll(ready, reached)
  PROVE  SuiteInv'
<1>1. CASE ready
  BY <1>1, RejectionKeepsSuite DEF Poll, Rejects
<1>2. CASE ~ready
  <2>1. /\ suite.at = "cancel" /\ verdict = "running" /\ verdict' = "running"
        /\ suite' = [suite EXCEPT !.at = "cancelling", !.first = <<ledger.opened, ledger.live>>]
        /\ ledger' = IF reached THEN [opened |-> ledger.opened + 1, live |-> ledger.live + 1]
                                ELSE ledger
        /\ truth' = [truth EXCEPT !.reached = reached, !.pending = TRUE]
        /\ UNCHANGED profile
    BY <1>2 DEF Poll, Rejects, Goes
  <2>2. /\ SuiteShape /\ SearchesAgree /\ FlagsEarned /\ ledger.live = 0
        /\ "cancellation" \notin suite.checked
    BY <2>1 DEF SuiteInv, Checks
  <2>3. suite' = [at |-> "cancelling", first |-> <<ledger.opened, 0>>, checked |-> suite.checked]
    BY <2>1, <2>2 DEF SuiteShape
  <2>4. /\ ledger = [opened |-> ledger.opened, live |-> 0] /\ ledger.opened \in Nat
        /\ ledger' = IF reached THEN [opened |-> ledger.opened + 1, live |-> 1]
                                ELSE [opened |-> ledger.opened, live |-> 0]
    BY <2>1, <2>2 DEF SuiteShape
  <2>5. /\ SuiteShape' /\ truth'.pending = TRUE /\ truth'.reached = reached
        /\ UNCHANGED <<truth.streams, truth.fetched, truth.followed, truth.class>>
    <3>1. ledger' \in [opened : Nat, live : Int]
      BY <2>4
    <3>2. /\ truth'.pending = TRUE /\ truth'.reached = reached
          /\ UNCHANGED <<truth.streams, truth.fetched, truth.followed, truth.class>>
          /\ truth' = [streams |-> truth'.streams, fetched |-> truth'.fetched,
                       followed |-> truth'.followed, class |-> truth'.class,
                       reached |-> truth'.reached, pending |-> truth'.pending,
                       kept |-> truth'.kept]
      BY <2>1, <2>2 DEF SuiteShape
    <3>3. suite' = [at |-> suite'.at, first |-> suite'.first, checked |-> suite'.checked]
      BY <2>3
    <3> QED BY <3>1, <3>2, <3>3 DEF SuiteShape
  <2>6. SearchesAgree'
    BY <2>2, <2>5 DEF SearchesAgree
  <2>7. FlagsEarned' /\ "cancellation" \notin suite'.checked
    BY <2>1, <2>2, <2>3, <2>5 DEF FlagsEarned, Supports
  <2>8. /\ suite'.at = "cancelling" /\ suite'.first[1] = ledger.opened
        /\ suite'.first = <<suite'.first[1], 0>>
    BY <2>3
  <2>9. ledger' = IF truth'.reached THEN [opened |-> suite'.first[1] + 1, live |-> 1]
                                    ELSE [opened |-> suite'.first[1], live |-> 0]
    BY <2>4, <2>5, <2>8
  <2> QED BY <2>1, <2>4, <2>5, <2>6, <2>7, <2>8, <2>9 DEF SuiteInv, Checks
<1> QED BY <1>1, <1>2

\* A cancellation that passes found a request and left none.
LEMMA CancelKeepsSuite ==
  ASSUME SuiteInv, NEW cancelled \in BOOLEAN, NEW kept \in BOOLEAN, Cancel(cancelled, kept)
  PROVE  SuiteInv'
<1> DEFINE live == IF truth.reached /\ ~kept THEN ledger.live - 1 ELSE ledger.live
           fails == ~cancelled \/ ledger.opened = suite.first[1] \/ live > suite.first[2]
<1>1. /\ suite.at = "cancelling" /\ verdict = "running" /\ (kept => truth.reached)
      /\ SuiteShape /\ SearchesAgree /\ FlagsEarned
      /\ suite.first[1] \in Nat /\ suite.first[2] = 0 /\ truth.pending
      /\ ledger = IF truth.reached THEN [opened |-> suite.first[1] + 1, live |-> 1]
                                   ELSE [opened |-> suite.first[1], live |-> 0]
  BY DEF Cancel, SuiteInv, Checks
<1>2. /\ ledger' = [ledger EXCEPT !.live = IF truth.reached /\ ~kept THEN @ - 1 ELSE @]
      /\ truth' = [truth EXCEPT !.kept = kept] /\ UNCHANGED profile
  BY DEF Cancel
<1>3. ledger'.live = live /\ ledger' \in [opened : Nat, live : Int]
  BY <1>1, <1>2
<1>4. CASE fails
  BY <1>3, <1>4, RejectionKeepsSuite DEF Cancel, Rejects
<1>5. CASE ~fails
  <2>1. /\ verdict' = "running"
        /\ suite' = [suite EXCEPT !.at = "report", !.checked = @ \cup {"cancellation"}]
    BY <1>3, <1>5 DEF Cancel, Rejects, Goes
  <2>2. truth.reached /\ ~kept /\ ledger'.live = 0
    BY <1>1, <1>3, <1>5
  <2>3. suite' = [at |-> "report", first |-> suite.first, checked |-> suite.checked \cup {"cancellation"}]
    BY <1>1, <2>1 DEF SuiteShape
  <2>4. /\ SuiteShape' /\ truth'.kept = kept
        /\ UNCHANGED <<truth.streams, truth.fetched, truth.followed, truth.class, truth.reached,
                       truth.pending>>
    BY <1>1, <1>2, <1>3, <2>3 DEF SuiteShape
  <2>5. SearchesAgree'
    BY <1>1, <2>4 DEF SearchesAgree
  <2>6. FlagsEarned'
    BY <1>1, <1>2, <2>2, <2>3, <2>4 DEF FlagsEarned, Supports
  <2> QED BY <2>1, <2>2, <2>3, <2>4, <2>5, <2>6 DEF SuiteInv, Checks
<1> QED BY <1>4, <1>5

\* Every step of the suite keeps the invariant.
LEMMA SuiteStep == SuiteInv /\ [SuiteNext]_suiteVars => SuiteInv'
<1> SUFFICES ASSUME SuiteInv, [SuiteNext]_suiteVars PROVE SuiteInv'
  OBVIOUS
<1>1. CASE Reports
  BY <1>1 DEF Reports, SuiteInv, SuiteShape, SearchesAgree, FlagsEarned, Supports
<1>2. CASE UNCHANGED suiteVars
  BY <1>2 DEF suiteVars, SuiteInv, SuiteShape, SearchesAgree, FlagsEarned, Supports
<1>3. ASSUME NEW s \in Streams, NEW mine \in BOOLEAN,
             CheckError(s) \/ CheckFollow(s, mine) \/ (s # <<>> /\ CheckFetch(s[1], mine))
      PROVE  SuiteInv'
  BY <1>3, ChecksKeepSuite
<1> QED
  BY <1>1, <1>2, <1>3, BeginKeepsSuite, SearchesKeepSuite, PollKeepsSuite, CancelKeepsSuite
     DEF SuiteNext

\* A report of the conformance suite is honest, for every source that may stand
\* behind the tool.
THEOREM ReportsAreSound == SuiteSpec => []ReportSound
<1>1. SuiteInv => ReportSound
  BY DEF SuiteInv, ReportSound, SearchesAgree, FlagsEarned, Checks
<1> QED
  BY <1>1, SuiteStart, SuiteStep, PTL DEF SuiteSpec

-----------------------------------------------------------------------------
(* Sequences of requests and outcomes *)

IsSeq(s) == \E T : s \in Seq(T)

LEMMA SeqParts ==
  ASSUME NEW s, IsSeq(s)
  PROVE  /\ Len(s) \in Nat /\ DOMAIN s = 1..Len(s) /\ (s = <<>> <=> Len(s) = 0)
         /\ s # <<>> => /\ Head(s) = s[1] /\ IsSeq(Tail(s)) /\ Len(Tail(s)) = Len(s) - 1
                        /\ \A i \in 1..Len(Tail(s)) : Tail(s)[i] = s[i + 1]
<1>1. PICK T : s \in Seq(T)
  BY DEF IsSeq
<1>2. Len(s) \in Nat /\ DOMAIN s = 1..Len(s) /\ (s = <<>> <=> Len(s) = 0)
  BY <1>1
<1>3. ASSUME s # <<>>
      PROVE  /\ Head(s) = s[1] /\ Tail(s) \in Seq(T) /\ Len(Tail(s)) = Len(s) - 1
             /\ \A i \in 1..Len(Tail(s)) : Tail(s)[i] = s[i + 1]
  BY <1>1, <1>3
<1> QED
  BY <1>2, <1>3 DEF IsSeq

LEMMA Joined ==
  ASSUME NEW a, IsSeq(a), NEW b, IsSeq(b)
  PROVE  /\ IsSeq(a \o b) /\ Len(a \o b) = Len(a) + Len(b)
         /\ \A i \in 1..Len(a) : (a \o b)[i] = a[i]
         /\ \A i \in 1..Len(b) : (a \o b)[Len(a) + i] = b[i]
         /\ a = <<>> => a \o b = b
         /\ b = <<>> => a \o b = a
<1>1. PICK T : a \in Seq(T)
  BY DEF IsSeq
<1>2. PICK U : b \in Seq(U)
  BY DEF IsSeq
<1> DEFINE V == T \cup U
<1>3. a \in Seq(V) /\ b \in Seq(V)
  BY <1>1, <1>2
<1> HIDE DEF V
<1>4. /\ a \o b \in Seq(V) /\ Len(a \o b) = Len(a) + Len(b)
      /\ \A i \in 1..Len(a) : (a \o b)[i] = a[i]
      /\ \A i \in 1..Len(b) : (a \o b)[Len(a) + i] = b[i]
  BY <1>3
<1>5. (a = <<>> => a \o b = b) /\ (b = <<>> => a \o b = a)
  BY <1>3
<1> QED
  BY <1>4, <1>5 DEF IsSeq

LEMMA Grown ==
  ASSUME NEW a, IsSeq(a), NEW x
  PROVE  /\ IsSeq(Append(a, x)) /\ Len(Append(a, x)) = Len(a) + 1
         /\ \A i \in 1..Len(a) : Append(a, x)[i] = a[i]
         /\ Append(a, x)[Len(a) + 1] = x
<1>1. PICK T : a \in Seq(T)
  BY DEF IsSeq
<1> DEFINE V == T \cup {x}
<1>2. a \in Seq(V) /\ x \in V
  BY <1>1
<1> HIDE DEF V
<1>3. /\ Append(a, x) \in Seq(V) /\ Len(Append(a, x)) = Len(a) + 1
      /\ \A i \in 1..Len(a) : Append(a, x)[i] = a[i]
      /\ Append(a, x)[Len(a) + 1] = x
  BY <1>2
<1> QED
  BY <1>3 DEF IsSeq

LEMMA Short ==
  ASSUME NEW x, NEW y, NEW z
  PROVE  /\ IsSeq(<<>>) /\ Len(<<>>) = 0
         /\ IsSeq(<<x>>) /\ Len(<<x>>) = 1 /\ Tail(<<x>>) = <<>> /\ <<x>> # <<>>
         /\ IsSeq(<<x, y, z>>) /\ Len(<<x, y, z>>) = 3 /\ <<x, y, z>> # <<>>
<1>1. <<>> \in Seq({x}) /\ <<x>> \in Seq({x}) /\ <<x, y, z>> \in Seq({x, y, z})
  OBVIOUS
<1>2. Len(<<>>) = 0 /\ Len(<<x>>) = 1 /\ Len(<<x, y, z>>) = 3
  OBVIOUS
<1>3. Tail(<<x>>) \in Seq({x}) /\ Len(Tail(<<x>>)) = 0
  BY <1>1, <1>2
<1>4. Tail(<<x>>) = <<>>
  BY <1>3
<1> QED
  BY <1>1, <1>2, <1>4 DEF IsSeq

\* Taking the head of one sequence to the end of another.
LEMMA HeadOver ==
  ASSUME NEW a, IsSeq(a), NEW b, IsSeq(b), b # <<>>
  PROVE  Append(a, Head(b)) \o Tail(b) = a \o b
<1> DEFINE t == Tail(b)
           c == Append(a, Head(b))
           x == c \o t
           y == a \o b
<1>1. /\ Len(a) \in Nat /\ Len(b) \in Nat \ {0} /\ Head(b) = b[1] /\ IsSeq(t)
      /\ Len(t) = Len(b) - 1 /\ \A i \in 1..Len(t) : t[i] = b[i + 1]
  BY SeqParts
<1> HIDE DEF t
<1>2. /\ IsSeq(c) /\ Len(c) = Len(a) + 1 /\ \A i \in 1..Len(a) : c[i] = a[i]
      /\ c[Len(a) + 1] = b[1]
  BY <1>1, Grown
<1> HIDE DEF c
<1>3. /\ IsSeq(x) /\ Len(x) = Len(c) + Len(t) /\ \A i \in 1..Len(c) : x[i] = c[i]
      /\ \A i \in 1..Len(t) : x[Len(c) + i] = t[i]
  <2>1. IsSeq(c) /\ IsSeq(t)
    BY <1>1, <1>2
  <2>2. /\ IsSeq(c \o t) /\ Len(c \o t) = Len(c) + Len(t)
        /\ \A i \in 1..Len(c) : (c \o t)[i] = c[i]
        /\ \A i \in 1..Len(t) : (c \o t)[Len(c) + i] = t[i]
    BY <2>1, Joined
  <2> QED BY <2>2
<1>4. /\ IsSeq(y) /\ Len(y) = Len(a) + Len(b) /\ \A i \in 1..Len(a) : y[i] = a[i]
      /\ \A i \in 1..Len(b) : y[Len(a) + i] = b[i]
  BY Joined
<1> HIDE DEF x, y
<1>5. Len(x) = Len(y)
  <2>1. Len(x) = Len(c) + Len(t) /\ Len(c) = Len(a) + 1 /\ Len(y) = Len(a) + Len(b)
    BY <1>2, <1>3, <1>4
  <2>2. Len(a) \in Nat /\ Len(b) \in Nat /\ Len(t) = Len(b) - 1
    BY <1>1
  <2> QED BY <2>1, <2>2
<1>6. ASSUME NEW i \in 1..Len(x) PROVE x[i] = y[i]
  <2>1. CASE i <= Len(a)
    <3>1. i \in 1..Len(a) /\ i \in 1..Len(c)
      BY <1>1, <1>2, <1>3, <2>1
    <3> QED BY <1>2, <1>3, <1>4, <3>1
  <2>2. CASE i = Len(a) + 1
    <3>1. i \in 1..Len(c) /\ 1 \in 1..Len(b)
      BY <1>1, <1>2, <2>2
    <3> QED BY <1>2, <1>3, <1>4, <2>2, <3>1
  <2>3. CASE i > Len(a) + 1
    <3>1. PICK j \in 1..Len(t) : i = Len(c) + j
      <4>1. i - Len(c) \in 1..Len(t) /\ i = Len(c) + (i - Len(c))
        BY <1>1, <1>2, <1>3, <2>3
      <4> QED BY <4>1
    <3>2. x[i] = b[j + 1] /\ j + 1 \in 1..Len(b) /\ i = Len(a) + (j + 1)
      BY <1>1, <1>2, <1>3, <3>1
    <3> QED BY <1>4, <3>2
  <2> QED BY <1>1, <1>3, <2>1, <2>2, <2>3
<1>7. (\E T : x \in Seq(T)) /\ (\E T : y \in Seq(T))
  BY <1>3, <1>4 DEF IsSeq
<1>8. PICK T : x \in Seq(T)
  BY <1>7
<1>9. PICK U : y \in Seq(U)
  BY <1>7
<1>10. x = y
  <2>1. x = [i \in 1..Len(x) |-> x[i]] /\ y = [i \in 1..Len(y) |-> y[i]]
    BY <1>8, <1>9
  <2> HIDE DEF x, y
  <2> QED BY <1>5, <1>6, <2>1
<1> QED BY <1>10 DEF x, y, c, t

-----------------------------------------------------------------------------
(* What a response makes of a call *)

IsCall(call) ==
  /\ call = [st |-> call.st, op |-> call.op, arg |-> call.arg, todo |-> call.todo,
             sent |-> call.sent, got |-> call.got]
  /\ IsSeq(call.todo) /\ IsSeq(call.sent) /\ IsSeq(call.got)

IsOutcome(out) ==
  /\ IsSeq(out.records) /\ IsSeq(out.next)
  /\ out.class # None => out.records = <<>> /\ out.next = <<>>

\* The requests of a call that goes on, from the first to the last.
Course(call) == call.sent \o Tail(call.todo)

\* A call that goes on after out.
GoesOn(call, out) == out.class = None \/ Progressive(call)

\* The outcomes of a call after a good outcome: its own, and the new ones.
Extended(before, records, after) ==
  /\ Len(after) = Len(before) + Len(records)
  /\ \A i \in 1..Len(before) : after[i] = before[i]
  /\ \A i \in 1..Len(records) : after[Len(before) + i] = Emitted(records[i])

LEMMA AfterParts ==
  ASSUME NEW call, IsCall(call), call.todo # <<>>, NEW out, IsOutcome(out)
  PROVE  LET next == After(call, out)
             todo == IF GoesOn(call, out) THEN out.next \o Tail(call.todo) ELSE <<>>
         IN /\ IsCall(next) /\ next.op = call.op /\ next.arg = call.arg
            /\ next.todo = todo
            /\ next.st = IF todo = <<>> THEN "done" ELSE "waiting"
            /\ todo = <<>> => next.sent = <<>>
            /\ todo # <<>> => next.sent = Append(call.sent, Head(todo))
            /\ out.class = None => Extended(call.got, out.records, next.got)
            /\ out.class # None /\ GoesOn(call, out) =>
                 next.got = Append(call.got, Failed(out.class))
            /\ ~GoesOn(call, out) => next.got = <<Failed(out.class)>>
<1> DEFINE goes == GoesOn(call, out)
           n == Len(out.records)
           records == [i \in DOMAIN out.records |-> Emitted(out.records[i])]
           todo == IF goes THEN out.next \o Tail(call.todo) ELSE <<>>
           got == IF out.class = None THEN call.got \o records
                  ELSE IF goes THEN Append(call.got, Failed(out.class))
                  ELSE <<Failed(out.class)>>
           sent == IF todo = <<>> THEN <<>> ELSE Append(call.sent, Head(todo))
           st == IF todo = <<>> THEN "done" ELSE "waiting"
           next == After(call, out)
<1>1. /\ call = [st |-> call.st, op |-> call.op, arg |-> call.arg, todo |-> call.todo,
                 sent |-> call.sent, got |-> call.got]
      /\ IsSeq(call.todo) /\ IsSeq(call.sent) /\ IsSeq(call.got)
      /\ IsSeq(out.records) /\ IsSeq(out.next)
  BY DEF IsCall, IsOutcome
<1>2. n \in Nat /\ DOMAIN out.records = 1..n
  BY <1>1, SeqParts
<1>3. IsSeq(records) /\ Len(records) = n /\ \A i \in 1..n : records[i] = Emitted(out.records[i])
  <2> DEFINE r == [i \in 1..n |-> Emitted(out.records[i])]
             T == {Emitted(out.records[i]) : i \in 1..n}
  <2>1. r \in Seq(T) /\ Len(r) = n /\ \A i \in 1..n : r[i] = Emitted(out.records[i])
    <3> HIDE DEF n
    <3>1. \A i \in 1..n : Emitted(out.records[i]) \in T
      OBVIOUS
    <3> HIDE DEF T
    <3> QED BY <1>2, <3>1
  <2>2. records = r
    BY <1>2
  <2> HIDE DEF r, T, records
  <2> QED BY <2>1, <2>2 DEF IsSeq
<1>4. IsSeq(Tail(call.todo))
  BY <1>1, SeqParts
<1>5. IsSeq(todo)
  <2>1. IsSeq(out.next \o Tail(call.todo))
    BY <1>1, <1>4, Joined
  <2> QED BY <2>1, Short
<1>6. IsSeq(sent)
  BY <1>1, Grown, Short
<1> HIDE DEF records
<1>7. /\ IsSeq(got)
      /\ out.class = None =>
           /\ Len(got) = Len(call.got) + n
           /\ \A i \in 1..Len(call.got) : got[i] = call.got[i]
           /\ \A i \in 1..n : got[Len(call.got) + i] = records[i]
  <2> DEFINE g == call.got
  <2>5. IsSeq(g) /\ IsSeq(records)
    BY <1>1, <1>3
  <2> HIDE DEF g, n
  <2>1. /\ IsSeq(g \o records) /\ Len(g \o records) = Len(g) + Len(records)
        /\ \A i \in 1..Len(g) : (g \o records)[i] = g[i]
        /\ \A i \in 1..Len(records) : (g \o records)[Len(g) + i] = records[i]
    BY <2>5, Joined
  <2>2. IsSeq(Append(call.got, Failed(out.class))) /\ IsSeq(<<Failed(out.class)>>)
    BY <1>1, Grown, Short
  <2>3. CASE out.class = None
    <3>1. got = g \o records
      BY <2>3 DEF g
    <3> HIDE DEF got
    <3>2. /\ IsSeq(got) /\ Len(got) = Len(g) + n /\ \A i \in 1..Len(g) : got[i] = g[i]
          /\ \A i \in 1..n : got[Len(g) + i] = records[i]
      BY <1>3, <2>1, <3>1
    <3> QED BY <3>2 DEF g
  <2>4. CASE out.class # None
    <3>1. got \in {Append(call.got, Failed(out.class)), <<Failed(out.class)>>}
      BY <2>4
    <3> HIDE DEF got
    <3> QED BY <2>2, <2>4, <3>1
  <2> QED BY <2>3, <2>4
<1>8. next = [call EXCEPT !.st = st, !.todo = todo, !.got = got, !.sent = sent]
  BY DEF After, GoesOn, records
<1> HIDE DEF todo, got, sent, st, next, goes
<1>9. next = [st |-> st, op |-> call.op, arg |-> call.arg, todo |-> todo, sent |-> sent, got |-> got]
  BY <1>1, <1>8
<1>10. /\ next.st = st /\ next.op = call.op /\ next.arg = call.arg /\ next.todo = todo
       /\ next.sent = sent /\ next.got = got
  BY <1>9
<1>11. IsCall(next)
  BY <1>5, <1>6, <1>7, <1>9, <1>10 DEF IsCall
<1>12. /\ todo = <<>> => sent = <<>>
       /\ todo # <<>> => sent = Append(call.sent, Head(todo))
       /\ st = IF todo = <<>> THEN "done" ELSE "waiting"
  BY DEF sent, st
<1>13. /\ out.class # None /\ goes => got = Append(call.got, Failed(out.class))
       /\ ~goes => got = <<Failed(out.class)>>
  BY DEF got, goes, GoesOn
<1> HIDE DEF n
<1>14. out.class = None =>
         /\ Len(next.got) = Len(call.got) + n
         /\ \A i \in 1..Len(call.got) : next.got[i] = call.got[i]
         /\ \A i \in 1..n : next.got[Len(call.got) + i] = Emitted(out.records[i])
  BY <1>3, <1>7, <1>10
<1>15. out.class = None => Extended(call.got, out.records, next.got)
  BY <1>14 DEF n, Extended
<1> QED
  BY <1>10, <1>11, <1>12, <1>13, <1>15 DEF todo, goes, next

\* The course of a call that goes on: only what follows from a response is new in it.
LEMMA CourseAfter ==
  ASSUME NEW call, IsCall(call), call.todo # <<>>, NEW out, IsOutcome(out),
         After(call, out).todo # <<>>
  PROVE  /\ Course(After(call, out)) = call.sent \o After(call, out).todo
         /\ out.next = <<>> => Course(After(call, out)) = Course(call)
<1> DEFINE next == After(call, out)
           todo == IF GoesOn(call, out) THEN out.next \o Tail(call.todo) ELSE <<>>
<1>1. IsCall(next) /\ next.todo = todo /\ next.sent = Append(call.sent, Head(todo))
  BY AfterParts
<1>2. IsSeq(next.todo) /\ IsSeq(call.sent) /\ IsSeq(call.todo)
  BY <1>1 DEF IsCall
<1> HIDE DEF next
<1>3. next.todo # <<>>
  BY DEF next
<1>4. next.sent = Append(call.sent, Head(next.todo))
  BY <1>1
<1>5. Course(next) = call.sent \o next.todo
  BY <1>2, <1>3, <1>4, HeadOver DEF Course
<1>6. ASSUME out.next = <<>> PROVE next.todo = Tail(call.todo)
  <2>1. GoesOn(call, out)
    BY <1>1, <1>3
  <2>2. IsSeq(Tail(call.todo)) /\ IsSeq(out.next)
    BY <1>2, SeqParts DEF IsOutcome
  <2>3. out.next \o Tail(call.todo) = Tail(call.todo)
    BY <1>6, <2>2, Joined
  <2> QED BY <1>1, <2>1, <2>3
<1> QED BY <1>5, <1>6 DEF Course, next

-----------------------------------------------------------------------------
(* What the sources make of honest answers *)

\* External: what upstreams hold is sound, and what they answer is true or a failure.
UpstreamIsHonest ==
  /\ SoundObjects /\ RightTargets
  /\ \A s \in Sources : \A req : \A response \in Responses(s, req) : Honest(s, req, response)

LEMMA Ids ==
  /\ GH!Id = "github" /\ SE!Id = "stack-exchange" /\ HN!Id = "hacker-news" /\ WB!Id = "web"
  /\ Sources = {GH!Id, SE!Id, HN!Id, WB!Id}
  BY DEF GH!Id, SE!Id, HN!Id, WB!Id, Sources

\* What a good outcome is made of.
LEMMA Outcomes ==
  ASSUME NEW class, NEW records, IsSeq(records), NEW next, IsSeq(next), NEW wait
  PROVE  LET out == Outcome(class, records, next, wait)
         IN /\ IsOutcome(out) /\ out.class = class
            /\ out.records = IF class = None THEN records ELSE <<>>
            /\ out.next = IF class = None THEN next ELSE <<>>
<1> DEFINE out == Outcome(class, records, next, wait)
<1>1. /\ out.class = class
      /\ out.records = IF class = None THEN records ELSE <<>>
      /\ out.next = IF class = None THEN next ELSE <<>>
  BY DEF Outcome
<1> HIDE DEF out
<1>2. IsSeq(out.records) /\ IsSeq(out.next)
  BY <1>1, Short
<1>3. IsOutcome(out)
  BY <1>1, <1>2 DEF IsOutcome
<1> QED BY <1>1, <1>3 DEF out

LEMMA SameOutcomes ==
  ASSUME NEW class, NEW records, NEW next, NEW wait
  PROVE  /\ GH!Outcome(class, records, next, wait) = Outcome(class, records, next, wait)
         /\ SE!Outcome(class, records, next, wait) = Outcome(class, records, next, wait)
         /\ HN!Outcome(class, records, next, wait) = Outcome(class, records, next, wait)
         /\ WB!Outcome(class, records, next, wait) = Outcome(class, records, next, wait)
  BY DEF Outcome, GH!Outcome, SE!Outcome, HN!Outcome, WB!Outcome

\* A function over the places of a sequence is one.
LEMMA Mapped ==
  ASSUME NEW items, IsSeq(items), NEW r, r = [i \in DOMAIN items |-> r[i]]
  PROVE  IsSeq(r) /\ Len(r) = Len(items)
<1> DEFINE n == Len(items)
           T == {r[i] : i \in 1..n}
<1>1. n \in Nat /\ r = [i \in 1..n |-> r[i]]
  BY SeqParts
<1>2. r \in Seq(T) /\ Len(r) = n
  <2> HIDE DEF n
  <2>1. \A i \in 1..n : r[i] \in T
    OBVIOUS
  <2> HIDE DEF T
  <2> QED BY <1>1, <2>1
<1> QED BY <1>2 DEF IsSeq

LEMMA DiscussionParts ==
  ASSUME NEW of, NEW pull \in BOOLEAN
  PROVE  LET d == GH!Discussion(of, pull)
         IN /\ IsSeq(d) /\ d # <<>>
            /\ d = IF pull THEN <<GH!Rest("comments", GH!Page(of)), GH!Rest("reviews", GH!Page(of)),
                                  GH!Rest("review-comments", GH!Page(of))>>
                           ELSE <<GH!Rest("comments", GH!Page(of))>>
<1> DEFINE c == GH!Rest("comments", GH!Page(of))
           r == GH!Rest("reviews", GH!Page(of))
           w == GH!Rest("review-comments", GH!Page(of))
<1>1. /\ pull => GH!Discussion(of, pull) = <<c>> \o <<r, w>>
      /\ ~pull => GH!Discussion(of, pull) = <<c>> \o <<>>
  BY DEF GH!Discussion
<1> HIDE DEF c, r, w
<1>2. <<c>> \o <<r, w>> = <<c, r, w>> /\ <<c>> \o <<>> = <<c>>
  <2> DEFINE V == {c, r, w}
             x == <<c>> \o <<r, w>>
             y == <<c, r, w>>
  <2>1. <<c>> \in Seq(V) /\ <<r, w>> \in Seq(V) /\ y \in Seq(V)
    OBVIOUS
  <2>2. /\ x \in Seq(V) /\ Len(x) = 3 /\ x[1] = c /\ x[2] = r /\ x[3] = w
        /\ Len(y) = 3 /\ y[1] = c /\ y[2] = r /\ y[3] = w
    BY <2>1
  <2> HIDE DEF x, y, V
  <2>3. \A i \in 1..Len(x) : x[i] = y[i]
    BY <2>2
  <2>4. y \in Seq(V)
    BY <2>1
  <2>5. x = y
    BY <2>2, <2>3, <2>4, SeqEqual
  <2>6. <<c>> \o <<>> = <<c>>
    BY Joined, Short
  <2> QED BY <2>5, <2>6 DEF x, y
<1> QED BY <1>1, <1>2, Short DEF c, r, w

\* GitHub: records of what was asked for, or the requests for a discussion.
LEMMA GitHubAnswers ==
  ASSUME UpstreamIsHonest, source.id = GH!Id, NEW req, NEW response \in Responses(GH!Id, req)
  PROVE  LET out == Answer(req, response)
             items == response.body.items
         IN /\ IsOutcome(out)
            /\ req.what = "is-pull" =>
                 /\ out.records = <<>>
                 /\ out.class = None =>
                      /\ items # <<>> /\ items[1] \in Objects /\ items[1].source = GH!Id
                      /\ items[1].kind = "issue" /\ items[1].number = req.of.number
                      /\ out.next = GH!Discussion(req.of, items[1].pull)
            /\ req.what # "is-pull" =>
                 /\ out.next = <<>>
                 /\ out.class = None =>
                      /\ IsSeq(items) /\ Len(out.records) = Len(items)
                      /\ \A i \in 1..Len(items) :
                           /\ items[i] \in Objects /\ items[i].source = GH!Id
                           /\ out.records[i] = GH!RecordOf(items[i])
                      /\ req.what \in ReplyRequests => ToSet(items) = PageOf(req)
<1> DEFINE out == Answer(req, response)
           items == response.body.items
           class == out.class
           records == [i \in DOMAIN items |-> GH!RecordOf(items[i])]
           asked == req.what = "is-pull"
<1>1. out = GH!Answer(req, response)
  BY Ids DEF Answer
<1>2. class = None =>
        /\ items \in Seq({o \in Objects : o.source = GH!Id})
        /\ asked => items # <<>> /\ items[1].kind = "issue" /\ items[1].number = req.of.number
        /\ req.what \in ReplyRequests => ToSet(items) = PageOf(req)
  <2>1. Honest(GH!Id, req, response)
    BY Ids DEF UpstreamIsHonest, Sources
  <2> HIDE DEF out
  <2>2. GH!Answer(req, response).class = None <=> class = None
    BY <1>1
  <2> QED BY <2>1, <2>2, Ids DEF Honest
<1>3. \E cl, wait : out = Outcome(cl, IF asked THEN <<>> ELSE records,
                            IF asked THEN GH!Discussion(req.of, items[1].pull) ELSE <<>>, wait)
  <2> DEFINE r == IF asked THEN <<>> ELSE records
             n == IF asked THEN GH!Discussion(req.of, items[1].pull) ELSE <<>>
             c == IF ~GH!Success(response.status) THEN GH!StatusClass(response.status)
                  ELSE IF req.api = "graphql" THEN GH!GraphQlClass(req, response.body)
                  ELSE IF response.body.parses THEN None ELSE "protocol"
             w == GH!Cooldown(response)
  <2>1. out = GH!Outcome(c, r, n, w)
    BY <1>1 DEF GH!Answer
  <2> HIDE DEF r, n, c, w, out
  <2>2. out = Outcome(c, r, n, w)
    BY <2>1, SameOutcomes
  <2> QED BY <2>2 DEF r, n
<1>4. PICK cl, wait : out = Outcome(cl, IF asked THEN <<>> ELSE records,
                               IF asked THEN GH!Discussion(req.of, items[1].pull) ELSE <<>>, wait)
  BY <1>3
<1> HIDE DEF records, out
<1>5. /\ class = cl
      /\ out.records = IF cl = None THEN IF asked THEN <<>> ELSE records ELSE <<>>
      /\ out.next = IF cl = None THEN IF asked THEN GH!Discussion(req.of, items[1].pull) ELSE <<>>
                    ELSE <<>>
  BY <1>4 DEF Outcome
<1>6. ASSUME class = None
      PROVE  /\ IsSeq(items) /\ Len(items) \in Nat
             /\ \A i \in 1..Len(items) : items[i] \in Objects /\ items[i].source = GH!Id
             /\ IsSeq(records) /\ Len(records) = Len(items)
             /\ \A i \in 1..Len(items) : records[i] = GH!RecordOf(items[i])
             /\ asked => items[1] \in Objects /\ items[1].source = GH!Id
             /\ asked => IsSeq(GH!Discussion(req.of, items[1].pull))
  <2> DEFINE mine == {o \in Objects : o.source = GH!Id}
  <2>1. items \in Seq(mine)
    BY <1>2, <1>6
  <2> HIDE DEF mine
  <2>2. IsSeq(items) /\ Len(items) \in Nat /\ \A i \in 1..Len(items) : items[i] \in mine
    BY <2>1 DEF IsSeq
  <2>3. IsSeq(records) /\ Len(records) = Len(items)
        /\ \A i \in 1..Len(items) : records[i] = GH!RecordOf(items[i])
    <3>1. records = [i \in DOMAIN items |-> records[i]]
      BY DEF records
    <3>2. \A i \in DOMAIN items : records[i] = GH!RecordOf(items[i])
      BY DEF records
    <3>3. DOMAIN items = 1..Len(items)
      BY <2>2, SeqParts
    <3> QED BY <2>2, <3>1, <3>2, <3>3, Mapped
  <2>4. asked => 1 \in 1..Len(items)
    BY <1>2, <1>6, <2>1
  <2>5. asked => items[1].pull \in BOOLEAN
    BY <1>2, <1>6, <2>2, <2>4 DEF UpstreamIsHonest, SoundObjects, SoundOnGitHub, mine
  <2> QED BY <2>2, <2>3, <2>4, <2>5, DiscussionParts DEF mine
<1>7. IsSeq(out.records) /\ IsSeq(out.next)
  BY <1>5, <1>6, Short
<1>8. IsOutcome(out)
  BY <1>5, <1>7 DEF IsOutcome
<1> QED BY <1>2, <1>5, <1>6, <1>8 DEF out

\* The object a record stands for.
GhKnown(r) == \E o \in Objects : o.source = GH!Id /\ r = GH!RecordOf(o)

SeKnown(r) ==
  \E o \in Objects : /\ o.source = SE!Id
                     /\ r.source = SE!Id /\ r.metadata = o.thread /\ Last(r.id) = o.name

HnKnown(r) == \E o \in Objects : o.source = HN!Id /\ r = HN!RecordOf(o)

\* Stack Exchange: a record names the question it belongs to.
LEMMA QuestionsAreKnown ==
  ASSUME NEW o \in Objects, o.source = SE!Id, o.thread = o.name
  PROVE  SeKnown(SE!QuestionRecord(o))
<1> DEFINE r == SE!QuestionRecord(o)
           id == <<SE!Id, SE!Site, "question", o.name>>
<1>1. r.source = SE!Id /\ r.metadata = o.name /\ r.id = id
  BY DEF SE!QuestionRecord, SE!Record
<1>2. Last(id) = o.name
  BY DEF Last
<1> QED BY <1>1, <1>2 DEF SeKnown

LEMMA AnswersAreKnown ==
  ASSUME NEW o \in Objects, o.source = SE!Id, o.question \in {None, o.thread}
  PROVE  SeKnown(SE!AnswerRecord(o, o.thread))
<1> DEFINE r == SE!AnswerRecord(o, o.thread)
           id == <<SE!Id, SE!Site, "answer", o.name>>
<1>1. r.source = SE!Id /\ r.metadata = o.thread /\ r.id = id
  BY DEF SE!AnswerRecord, SE!Record
<1>2. Last(id) = o.name
  BY DEF Last
<1> QED BY <1>1, <1>2 DEF SeKnown

LEMMA StackAnswers ==
  ASSUME UpstreamIsHonest, source.id = SE!Id, NEW req, NEW response \in Responses(SE!Id, req)
  PROVE  LET out == Answer(req, response)
         IN /\ IsOutcome(out) /\ out.next = <<>>
            /\ out.class = None => \A i \in 1..Len(out.records) : SeKnown(out.records[i])
<1> DEFINE out == Answer(req, response)
           items == response.body.items
           cl == SE!ResponseClass(response)
           missing == cl = None /\ req.what = "question" /\ items = <<>>
           class == IF missing THEN "not_found" ELSE cl
           records == [i \in DOMAIN items |->
                         IF req.what = "answers" THEN SE!AnswerRecord(items[i], req.of)
                                                 ELSE SE!QuestionRecord(items[i])]
           some == IF req.what = "question" THEN SubSeq(records, 1, 1) ELSE records
           wait == SE!Cooldown(response)
<1>1. out = SE!Answer(req, response)
  BY Ids DEF Answer
<1>2. out = SE!Outcome(class, some, <<>>, wait)
  BY <1>1 DEF SE!Answer
<1> HIDE DEF out, some, wait
<1>3. out = Outcome(class, some, <<>>, wait)
  BY <1>2, SameOutcomes
<1>4. /\ out.class = class /\ out.records = IF class = None THEN some ELSE <<>>
      /\ out.next = <<>>
  BY <1>3 DEF Outcome
<1>5. ASSUME class = None
      PROVE  IsSeq(some) /\ \A i \in 1..Len(some) : SeKnown(some[i])
  <2> DEFINE mine == {o \in Objects : o.source = SE!Id}
  <2>1. SE!Answer(req, response).class = None
    BY <1>1, <1>4, <1>5
  <2>2. /\ items \in Seq(mine)
        /\ \A o \in ToSet(items) :
             IF req.what = "answers" THEN o.kind = "answer" /\ o.thread = req.of
                                     ELSE o.kind = "question"
    <3>1. Honest(SE!Id, req, response)
      BY Ids DEF UpstreamIsHonest
    <3> HIDE DEF items
    <3>2. /\ response.body.items \in Seq({o \in Objects : o.source = SE!Id})
          /\ \A o \in ToSet(response.body.items) :
               IF req.what = "answers" THEN o.kind = "answer" /\ o.thread = req.of
                                       ELSE o.kind = "question"
      BY <2>1, <3>1, Zenon DEF Honest
    <3> QED BY <3>2 DEF items
  <2> HIDE DEF mine
  <2>3. IsSeq(items) /\ Len(items) \in Nat /\ DOMAIN items = 1..Len(items)
        /\ \A i \in 1..Len(items) : items[i] \in mine /\ items[i] \in ToSet(items)
    BY <2>2 DEF IsSeq, ToSet
  <2>4. \A i \in DOMAIN items :
          records[i] = IF req.what = "answers" THEN SE!AnswerRecord(items[i], req.of)
                                               ELSE SE!QuestionRecord(items[i])
    OBVIOUS
  <2>5. records = [i \in DOMAIN items |-> records[i]]
    OBVIOUS
  <2>6. class = None => cl = None /\ ~missing
    <3>1. "not_found" # None
      BY CallsAssumption DEF ErrorClasses
    <3> HIDE DEF cl, items
    <3> QED BY <3>1
  <2> HIDE DEF records
  <2>7. IsSeq(records) /\ Len(records) = Len(items)
    BY <2>3, <2>5, Mapped
  <2>8. ASSUME NEW i \in 1..Len(items) PROVE SeKnown(records[i])
    <3>1. items[i] \in Objects /\ items[i].source = SE!Id /\ items[i] \in ToSet(items)
      BY <2>3 DEF mine
    <3>2. CASE req.what = "answers"
      <4>1. items[i].thread = req.of /\ items[i].question \in {None, items[i].thread}
        BY <2>2, <3>1, <3>2 DEF UpstreamIsHonest, SoundObjects
      <4>2. records[i] = SE!AnswerRecord(items[i], items[i].thread)
        BY <2>3, <2>4, <3>2, <4>1
      <4> QED BY <3>1, <4>1, <4>2, AnswersAreKnown
    <3>3. CASE req.what # "answers"
      <4>1. items[i].thread = items[i].name
        BY <2>2, <3>1, <3>3 DEF UpstreamIsHonest, SoundObjects
      <4>2. records[i] = SE!QuestionRecord(items[i])
        BY <2>3, <2>4, <3>3
      <4> QED BY <3>1, <4>1, <4>2, QuestionsAreKnown
    <3> QED BY <3>2, <3>3
  <2>9. CASE req.what = "question"
    <3>1. Len(items) >= 1
      <4>1. items # <<>>
        BY <1>5, <2>6, <2>9
      <4> QED BY <2>3, <4>1, SeqParts
    <3>2. PICK T : records \in Seq(T)
      BY <2>7 DEF IsSeq
    <3>3. some = SubSeq(records, 1, 1)
      BY <2>9 DEF some
    <3>4. some \in Seq(T) /\ Len(some) = 1 /\ some[1] = records[1]
      BY <2>3, <2>7, <3>1, <3>2, <3>3
    <3>5. SeKnown(records[1])
      BY <2>3, <2>8, <3>1
    <3> QED BY <3>4, <3>5 DEF IsSeq
  <2>10. CASE req.what # "question"
    <3>1. some = records
      BY <2>10 DEF some
    <3> QED BY <2>7, <2>8, <3>1
  <2> QED BY <2>9, <2>10
<1> HIDE DEF class
<1>6. IsSeq(out.records) /\ IsSeq(out.next)
  BY <1>4, <1>5, Short
<1>7. IsOutcome(out)
  BY <1>4, <1>6 DEF IsOutcome
<1> QED BY <1>4, <1>5, <1>7 DEF out

\* Hacker News: the items that were asked for, or the requests for the kids of one.
LEMMA HackerNewsAnswers ==
  ASSUME UpstreamIsHonest, source.id = HN!Id, NEW req, NEW response \in Responses(HN!Id, req)
  PROVE  LET out == Answer(req, response)
             items == response.body.items
         IN /\ IsOutcome(out)
            /\ out.class = None /\ req.what \in {"item", "kids"} =>
                 items[1] \in Objects /\ items[1].source = HN!Id /\ items[1].name = req.of
            /\ req.what = "kids" =>
                 /\ out.records = <<>>
                 /\ out.class = None => out.next = HN!Children(items[1])
            /\ req.what # "kids" =>
                 /\ out.next = <<>>
                 /\ out.class = None => \A i \in 1..Len(out.records) : HnKnown(out.records[i])
                 /\ out.class = None /\ req.what = "item" =>
                      Len(out.records) = 1 /\ out.records[1] = HN!RecordOf(items[1])
<1> DEFINE out == Answer(req, response)
           items == response.body.items
           class == HN!ResponseClass(req, response)
           asked == req.what = "kids"
           records == [i \in DOMAIN items |-> HN!RecordOf(items[i])]
           some == IF asked THEN <<>> ELSE records
           next == IF asked THEN HN!Children(items[1]) ELSE <<>>
<1>1. out = HN!Answer(req, response)
  BY Ids DEF Answer
<1>2. out = HN!Outcome(class, some, next, None)
  BY <1>1 DEF HN!Answer
<1> HIDE DEF out, some, next, class
<1>3. out = Outcome(class, some, next, None)
  BY <1>2, SameOutcomes
<1>4. /\ out.class = class /\ out.records = IF class = None THEN some ELSE <<>>
      /\ out.next = IF class = None THEN next ELSE <<>>
  BY <1>3 DEF Outcome
<1>5. ASSUME class = None
      PROVE  /\ IsSeq(records) /\ Len(records) = Len(items) /\ Len(items) \in Nat
             /\ \A i \in 1..Len(items) : records[i] = HN!RecordOf(items[i]) /\ HnKnown(records[i])
             /\ req.what \in {"item", "kids"} =>
                  /\ Len(items) = 1
                  /\ items[1] \in Objects /\ items[1].source = HN!Id /\ items[1].name = req.of
             /\ asked => IsSeq(HN!Children(items[1]))
  <2> DEFINE mine == {o \in Objects : o.source = HN!Id}
  <2>1. HN!Answer(req, response).class = None
    BY <1>1, <1>4, <1>5
  <2>2. /\ items \in Seq(mine)
        /\ req.what \in {"item", "kids"} => Len(items) = 1 /\ items[1].name = req.of
    BY <2>1, Ids DEF UpstreamIsHonest, Honest
  <2>3. \A o \in mine : o \in Objects /\ o.source = HN!Id
    OBVIOUS
  <2> HIDE DEF mine
  <2>4. IsSeq(items) /\ Len(items) \in Nat /\ DOMAIN items = 1..Len(items)
        /\ \A i \in 1..Len(items) : items[i] \in mine
    BY <2>2 DEF IsSeq
  <2>5. /\ records = [i \in DOMAIN items |-> records[i]]
        /\ \A i \in DOMAIN items : records[i] = HN!RecordOf(items[i])
    OBVIOUS
  <2> HIDE DEF records
  <2>6. IsSeq(records) /\ Len(records) = Len(items)
    BY <2>4, <2>5, Mapped
  <2>7. \A i \in 1..Len(items) : records[i] = HN!RecordOf(items[i]) /\ HnKnown(records[i])
    BY <2>3, <2>4, <2>5 DEF HnKnown
  <2>8. req.what \in {"item", "kids"} =>
          /\ Len(items) = 1
          /\ items[1] \in Objects /\ items[1].source = HN!Id /\ items[1].name = req.of
    BY <2>2, <2>3, <2>4
  <2>9. ASSUME asked PROVE IsSeq(HN!Children(items[1]))
    <3> DEFINE kids == items[1].kids
               m == IF Len(kids) < HnLimit THEN Len(kids) ELSE HnLimit
               ch == [i \in 1..m |-> HN!Get("item", kids[i])]
               T == {HN!Get("item", kids[i]) : i \in 1..m}
    <3>1. items[1] \in Objects /\ items[1].source = HN!Id
      BY <2>8, <2>9
    <3>2. kids \in Seq(ToSet(kids))
      BY <3>1 DEF UpstreamIsHonest, SoundObjects
    <3>3. m \in Nat
      BY <3>2, CallsAssumption
    <3>4. HN!Children(items[1]) = ch
      BY DEF HN!Children
    <3> HIDE DEF m
    <3>5. ch \in Seq(T)
      <4>1. \A i \in 1..m : HN!Get("item", kids[i]) \in T
        OBVIOUS
      <4> HIDE DEF T
      <4> QED BY <3>3, <4>1
    <3> QED BY <3>4, <3>5 DEF IsSeq
  <2> QED BY <2>4, <2>6, <2>7, <2>8, <2>9
<1> HIDE DEF records
<1>6. /\ class = None => some = IF asked THEN <<>> ELSE records
      /\ class = None => next = IF asked THEN HN!Children(items[1]) ELSE <<>>
  BY DEF some, next
<1>7. IsSeq(out.records) /\ IsSeq(out.next)
  BY <1>4, <1>5, <1>6, Short
<1>8. IsOutcome(out)
  BY <1>4, <1>7 DEF IsOutcome
<1>9. asked => out.records = <<>> /\ (class = None => out.next = HN!Children(items[1]))
  BY <1>4, <1>6
<1>10. ~asked => /\ out.next = <<>>
                 /\ class = None => out.records = records
  BY <1>4, <1>6
<1> HIDE DEF asked, items
<1>11. ~asked /\ class = None =>
         /\ \A i \in 1..Len(out.records) : HnKnown(out.records[i])
         /\ req.what = "item" => Len(out.records) = 1 /\ out.records[1] = HN!RecordOf(items[1])
  BY <1>5, <1>10
<1> QED BY <1>4, <1>5, <1>8, <1>9, <1>10, <1>11 DEF out, asked, items

\* The web: pages and results.
LEMMA WebAnswers ==
  ASSUME UpstreamIsHonest, source.id = WB!Id, NEW req, NEW response \in Responses(WB!Id, req)
  PROVE  IsOutcome(Answer(req, response)) /\ Answer(req, response).next = <<>>
<1> DEFINE out == Answer(req, response)
           body == response.body
           items == body.items
           bad == req.what = "results"
                    /\ (~body.parses \/ \E i \in DOMAIN items : items[i].scheme = None)
           class == WB!FirstFailure(<<WB!Check(~WB!Success(response.status),
                                              WB!StatusClass(response.status)),
                                      WB!Check(bad, "protocol")>>)
           records == [i \in DOMAIN items |-> WB!ResultRecord(items[i])]
           some == IF req.what = "page" THEN <<WB!PageRecord(req.of, body.length)>> ELSE records
<1>1. out = WB!Answer(req, response)
  BY Ids DEF Answer
<1>2. out = WB!Outcome(class, some, <<>>, None)
  BY <1>1 DEF WB!Answer
<1> HIDE DEF out, some, class
<1>3. out = Outcome(class, some, <<>>, None)
  BY <1>2, SameOutcomes
<1>4. IsSeq(some)
  <2>1. items \in Seq(ToSet(items))
    BY Ids DEF UpstreamIsHonest, Honest
  <2>2. IsSeq(items)
    BY <2>1 DEF IsSeq
  <2>3. records = [i \in DOMAIN items |-> records[i]]
    OBVIOUS
  <2> HIDE DEF records, items
  <2>4. IsSeq(records)
    BY <2>2, <2>3, Mapped
  <2> QED BY <2>4, Short DEF some
<1>5. IsOutcome(out) /\ out.next = <<>>
  <2>1. IsSeq(<<>>)
    BY Short
  <2>2. /\ out.class = class /\ out.records = IF class = None THEN some ELSE <<>>
        /\ out.next = <<>>
    BY <1>3 DEF Outcome
  <2>3. IsSeq(out.records)
    BY <1>4, <2>1, <2>2
  <2> QED BY <2>1, <2>2, <2>3 DEF IsOutcome
<1> QED BY <1>5 DEF out

\* A record that the caller is given is known.
Known(r) ==
  /\ source.id = GH!Id => GhKnown(r)
  /\ source.id = SE!Id => SeKnown(r)
  /\ source.id = HN!Id => HnKnown(r)

LEMMA AnswersAreKnownRecords ==
  ASSUME UpstreamIsHonest, source.id \in Sources,
         NEW req, NEW response \in Responses(source.id, req)
  PROVE  /\ IsOutcome(Answer(req, response))
         /\ Answer(req, response).class = None =>
              \A i \in 1..Len(Answer(req, response).records) : Known(Answer(req, response).records[i])
<1>1. CASE source.id = GH!Id
  <2>1. req.what = "is-pull" => Answer(req, response).records = <<>>
    BY <1>1, GitHubAnswers
  <2>2. req.what # "is-pull" /\ Answer(req, response).class = None =>
          \A i \in 1..Len(Answer(req, response).records) : GhKnown(Answer(req, response).records[i])
    BY <1>1, GitHubAnswers DEF GhKnown
  <2>3. IsOutcome(Answer(req, response))
    BY <1>1, GitHubAnswers
  <2> QED BY <1>1, <2>1, <2>2, <2>3, Ids DEF Known
<1>2. CASE source.id = SE!Id
  BY <1>2, StackAnswers, Ids DEF Known
<1>3. CASE source.id = HN!Id
  <2>1. req.what = "kids" => Answer(req, response).records = <<>>
    BY <1>3, HackerNewsAnswers
  <2>2. req.what # "kids" /\ Answer(req, response).class = None =>
          \A i \in 1..Len(Answer(req, response).records) : HnKnown(Answer(req, response).records[i])
    BY <1>3, HackerNewsAnswers
  <2>3. IsOutcome(Answer(req, response))
    BY <1>3, HackerNewsAnswers
  <2> QED BY <1>3, <2>1, <2>2, <2>3, Ids DEF Known
<1>4. CASE source.id = WB!Id
  BY <1>4, WebAnswers, Ids DEF Known
<1> QED BY <1>1, <1>2, <1>3, <1>4 DEF Sources

-----------------------------------------------------------------------------
(* What a call sends first *)

\* A refusal has no requests, a plan that is not refused those it was made with.
LEMMA Decisions ==
  ASSUME NEW checks, NEW requests
  PROVE  Decide(checks, requests).requests =
           IF Decide(checks, requests).refusal = None THEN requests ELSE <<>>
  BY DEF Decide

\* A search or a fetch sends one request; a follow what the source begins with.
LEMMA GitHubPlans ==
  ASSUME NEW op \in Operations, NEW arg, source.id = GH!Id
  PROVE  LET plan == Plan(op, arg)
             target == GH!FromTarget(arg)
         IN /\ plan.refusal # None => plan.requests = <<>>
            /\ plan.refusal = None /\ op # "follow" => \E x : plan.requests = <<x>>
            /\ plan.refusal = None /\ op = "follow" =>
                 target.class = None /\ plan.requests = GH!FollowRequests(target)
<1>1. \A class \in {"invalid_query", "rate_limit", "authentication"} : class # None
  BY CallsAssumption DEF ErrorClasses
<1> DEFINE cooling == cool[op] > 0
           key == source.credential
           plan == Plan(op, arg)
<1>2. CASE op = "search"
  <2> DEFINE checks == <<GH!Check(GH!Limit(arg) > GhLimit, "invalid_query"),
                         GH!Check(cooling, "rate_limit"),
                         GH!Check(~key /\ GH!NeedsToken(<<GH!SearchRequest(arg)>>), "authentication")>>
             requests == <<GH!SearchRequest(arg)>>
  <2>1. plan = GH!SearchPlan(arg, cooling, key)
    BY <1>2, Ids DEF Plan
  <2>2. plan = GH!Decide(checks, requests)
    BY <2>1 DEF GH!SearchPlan
  <2> HIDE DEF checks, requests, plan
  <2>3. plan = Decide(checks, requests)
    BY <2>2, SameChecks
  <2>4. plan.requests = IF plan.refusal = None THEN requests ELSE <<>>
    BY <2>3, Decisions
  <2> QED BY <1>2, <2>4 DEF requests, plan
<1>3. CASE op # "search"
  <2> DEFINE target == GH!FromTarget(arg)
             requests == IF target.class # None THEN <<>>
                         ELSE IF op = "fetch" THEN <<GH!FetchRequest(target)>>
                         ELSE GH!FollowRequests(target)
             f2 == target.class # None
             c2 == target.class
             f3 == ~key /\ GH!NeedsToken(requests)
  <2>1. plan = GH!TargetPlan(op, arg, cooling, key)
    BY <1>3, Ids DEF Plan, Operations
  <2>2. plan = Decide(<<Check(cooling, "rate_limit"), Check(f2, c2),
                        Check(f3, "authentication")>>, requests)
    BY <2>1, SameChecks DEF GH!TargetPlan, GH!Check, Check
  <2>3. f2 => c2 # None
    OBVIOUS
  <2> HIDE DEF plan, cooling, f2, c2, f3, requests
  <2>4. /\ plan.refusal = None <=> ~cooling /\ ~f2 /\ ~f3
    BY <1>1, <2>2, <2>3, ThreeChecks
  <2>5. plan.requests = IF plan.refusal = None THEN requests ELSE <<>>
    BY <2>2, Decisions
  <2>6. plan.refusal = None => target.class = None
    BY <2>4 DEF f2
  <2>7. plan.refusal = None =>
          plan.requests = IF op = "fetch" THEN <<GH!FetchRequest(target)>>
                          ELSE GH!FollowRequests(target)
    BY <2>5, <2>6 DEF requests
  <2>8. op \in {"fetch", "follow"}
    BY <1>3 DEF Operations
  <2> QED BY <2>5, <2>6, <2>7, <2>8 DEF plan
<1> QED BY <1>2, <1>3

LEMMA StackPlans ==
  ASSUME NEW op \in Operations, NEW arg, source.id = SE!Id
  PROVE  LET plan == Plan(op, arg)
         IN /\ plan.refusal # None => plan.requests = <<>>
            /\ plan.refusal = None => \E x : plan.requests = <<x>>
            /\ plan.refusal = None /\ op = "follow" =>
                 plan.requests = <<SE!Get("answers", SE!QuestionId(arg))>>
<1> DEFINE plan == Plan(op, arg)
<1>1. \E checks, x : /\ plan = Decide(checks, <<x>>)
                     /\ op = "follow" => x = SE!Get("answers", SE!QuestionId(arg))
  <2>1. CASE op = "search"
    <3>1. plan = SE!SearchPlan(arg, cool[op] > 0)
      BY <2>1, Ids DEF Plan
    <3> HIDE DEF plan
    <3>2. \E checks, x : plan = SE!Decide(checks, <<x>>)
      BY <3>1 DEF SE!SearchPlan
    <3> QED BY <2>1, <3>2, SameChecks
  <2>2. CASE op # "search"
    <3>1. plan = SE!TargetPlan(op, arg, cool[op] > 0)
      BY <2>2, Ids DEF Plan, Operations
    <3> HIDE DEF plan
    <3>2. \E checks, x : /\ plan = SE!Decide(checks, <<x>>)
                         /\ op = "follow" => x = SE!Get("answers", SE!QuestionId(arg))
      BY <3>1 DEF SE!TargetPlan
    <3> QED BY <3>2, SameChecks
  <2> QED BY <2>1, <2>2
<1>2. PICK checks, x : /\ plan = Decide(checks, <<x>>)
                       /\ op = "follow" => x = SE!Get("answers", SE!QuestionId(arg))
  BY <1>1
<1> HIDE DEF plan
<1>3. plan.requests = IF plan.refusal = None THEN <<x>> ELSE <<>>
  BY <1>2, Decisions
<1> QED BY <1>2, <1>3 DEF plan

LEMMA HackerNewsPlans ==
  ASSUME NEW op \in Operations, NEW arg, source.id = HN!Id
  PROVE  LET plan == Plan(op, arg)
         IN /\ plan.refusal # None => plan.requests = <<>>
            /\ plan.refusal = None => \E x : plan.requests = <<x>>
            /\ plan.refusal = None /\ op = "follow" =>
                 plan.requests = <<HN!Get("kids", HN!TargetId(arg))>>
<1> DEFINE plan == Plan(op, arg)
<1>1. \E checks, x : /\ plan = Decide(checks, <<x>>)
                     /\ op = "follow" => x = HN!Get("kids", HN!TargetId(arg))
  <2>1. CASE op = "search"
    <3>1. plan = HN!SearchPlan(arg)
      BY <2>1, Ids DEF Plan
    <3> HIDE DEF plan
    <3>2. \E checks, x : plan = HN!Decide(checks, <<x>>)
      BY <3>1 DEF HN!SearchPlan
    <3> QED BY <2>1, <3>2, SameChecks
  <2>2. CASE op # "search"
    <3>1. plan = HN!TargetPlan(op, arg)
      BY <2>2, Ids DEF Plan, Operations
    <3> HIDE DEF plan
    <3>2. \E checks, x : /\ plan = HN!Decide(checks, <<x>>)
                         /\ op = "follow" => x = HN!Get("kids", HN!TargetId(arg))
      BY <3>1 DEF HN!TargetPlan
    <3> QED BY <3>2, SameChecks
  <2> QED BY <2>1, <2>2
<1>2. PICK checks, x : /\ plan = Decide(checks, <<x>>)
                       /\ op = "follow" => x = HN!Get("kids", HN!TargetId(arg))
  BY <1>1
<1> HIDE DEF plan
<1>3. plan.requests = IF plan.refusal = None THEN <<x>> ELSE <<>>
  BY <1>2, Decisions
<1> QED BY <1>2, <1>3 DEF plan

LEMMA WebPlans ==
  ASSUME NEW op \in Operations, NEW arg, source.id = WB!Id
  PROVE  LET plan == Plan(op, arg)
         IN /\ plan.refusal # None => plan.requests = <<>>
            /\ plan.refusal = None => op # "follow" /\ \E x : plan.requests = <<x>>
<1> DEFINE plan == Plan(op, arg)
<1>1. "unsupported" # None
  BY CallsAssumption DEF ErrorClasses
<1>2. CASE op = "search"
  <2>1. plan = WB!SearchPlan(arg, source.credential)
    BY <1>2, Ids DEF Plan
  <2> HIDE DEF plan
  <2>2. \E checks, x : plan = WB!Decide(checks, <<x>>)
    BY <2>1 DEF WB!SearchPlan
  <2>3. PICK checks, x : plan = Decide(checks, <<x>>)
    BY <2>2, SameChecks
  <2>4. plan.requests = IF plan.refusal = None THEN <<x>> ELSE <<>>
    BY <2>3, Decisions
  <2> QED BY <1>2, <2>4 DEF plan
<1>3. CASE op = "follow"
  <2>1. plan = WB!TargetPlan(op, arg)
    BY <1>3, Ids DEF Plan
  <2>2. plan = Decide(<<Check(TRUE, "unsupported")>>, <<>>)
    BY <1>3, <2>1, SameChecks DEF WB!TargetPlan, WB!Check, Check
  <2> HIDE DEF plan
  <2>3. plan.refusal # None
    BY <1>1, <2>2, OneCheck
  <2>4. plan.requests = <<>>
    BY <2>2, <2>3, Decisions
  <2> QED BY <2>3, <2>4 DEF plan
<1>4. CASE op = "fetch"
  <2> DEFINE class == WB!TargetClass(arg)
  <2>1. plan = WB!FetchPlan(arg)
    BY <1>4, Ids DEF Plan, WB!TargetPlan
  <2>2. class = None => \E checks, x : plan = WB!Decide(checks, <<x>>)
    BY <2>1 DEF WB!FetchPlan
  <2>3. class # None => plan = Decide(<<Check(TRUE, class)>>, <<>>)
    BY <2>1, SameChecks DEF WB!FetchPlan, WB!Check, Check
  <2> HIDE DEF plan, class
  <2>4. CASE class = None
    <3>3. PICK checks, x : plan = WB!Decide(checks, <<x>>)
      BY <2>2, <2>4
    <3>1. plan = Decide(checks, <<x>>)
      BY <3>3, SameChecks
    <3>2. plan.requests = IF plan.refusal = None THEN <<x>> ELSE <<>>
      BY <3>1, Decisions
    <3> QED BY <1>4, <3>2 DEF plan
  <2>5. CASE class # None
    <3>1. plan.refusal # None
      <4>1. Decide(<<Check(TRUE, class)>>, <<>>).refusal # None
        BY <2>5, OneCheck
      <4> QED BY <2>3, <2>5, <4>1
    <3>2. plan.requests = <<>>
      BY <2>3, <2>5, <3>1, Decisions
    <3> QED BY <3>1, <3>2 DEF plan
  <2> QED BY <2>4, <2>5
<1> QED BY <1>2, <1>3, <1>4 DEF Operations

-----------------------------------------------------------------------------
(* The way back from a record *)

IsParsed(x) ==
  x.class = None =>
    /\ x.kind \in {"repository", "issue", "discussion"}
    /\ x.kind = "issue" => x.pull \in BOOLEAN \cup {None}

LEMMA ParsedParts ==
  /\ \A class \in {"protocol", "unsupported", "invalid_query"} : IsParsed(GH!Unparsed(class))
  /\ \A path, n, pull : /\ IsParsed(GH!Named(GH!Parsed("repository", path, n, pull)))
                        /\ IsParsed(GH!Numbered(GH!Parsed("discussion", path, n, pull)))
                        /\ pull \in BOOLEAN \cup {None} =>
                             IsParsed(GH!Numbered(GH!Parsed("issue", path, n, pull)))
<1>1. ASSUME NEW class \in {"protocol", "unsupported", "invalid_query"}
      PROVE  GH!Unparsed(class).class = class /\ class # None
  BY CallsAssumption DEF GH!Unparsed, GH!Parsed, ErrorClasses
<1>2. ASSUME NEW x PROVE /\ GH!Named(x) \in {x, GH!Unparsed("invalid_query")}
                         /\ GH!Numbered(x) \in {x, GH!Unparsed("invalid_query")}
  BY DEF GH!Named, GH!Numbered
<1>3. \A path, n, pull : /\ IsParsed(GH!Parsed("repository", path, n, pull))
                         /\ IsParsed(GH!Parsed("discussion", path, n, pull))
                         /\ pull \in BOOLEAN \cup {None} => IsParsed(GH!Parsed("issue", path, n, pull))
  BY DEF IsParsed, GH!Parsed
<1>4. \A class \in {"protocol", "unsupported", "invalid_query"} : IsParsed(GH!Unparsed(class))
  BY <1>1 DEF IsParsed
<1> QED BY <1>2, <1>3, <1>4

\* A target that parses is a repository, an issue or a discussion.
LEMMA TargetsParse ==
  ASSUME NEW t, t.type \in {"record", "url", "native"} PROVE IsParsed(GH!FromTarget(t))
<1>1. ASSUME NEW u PROVE IsParsed(GH!ParseUrl(u))
  BY ParsedParts DEF GH!ParseUrl
<1>2. ASSUME NEW id PROVE IsParsed(GH!ParseNative(id))
  BY ParsedParts DEF GH!ParseNative
<1>3. IsParsed(GH!Unparsed("invalid_query"))
  BY ParsedParts
<1> QED BY <1>1, <1>2, <1>3 DEF GH!FromTarget

\* The address of an object parses, and is that of its thread.
LEMMA AddressesParse ==
  ASSUME NEW o, SoundOnGitHub(o)
  PROVE  GH!ParseUrl(o.html_url).class = None /\ GH!ParseUrl(o.html_url).number = ThreadNumber(o)
<1> DEFINE u == o.html_url
           p == u.path
           n == ThreadNumber(o)
<1>1. /\ u.scheme \in {"http", "https"} /\ u.host = "github.com" /\ GH!SafeName(p)
      /\ \/ p = <<p[1], p[2]>> /\ n = None
         \/ /\ p = <<p[1], p[2], p[3], n>>
            /\ p[3] \in {"issues", "pull", "discussions"} /\ GH!ValidNumber(n)
  BY DEF SoundOnGitHub, ValidUrl
<1>2. u.scheme # None
  BY <1>1, CallsAssumption
<1> HIDE DEF n
<1>3. CASE p = <<p[1], p[2]>> /\ n = None
  <2>1. Len(p) = 2
    <3>1. Len(<<p[1], p[2]>>) = 2
      OBVIOUS
    <3> QED BY <1>3, <3>1
  <2>2. GH!ParseUrl(u) = GH!Named(GH!Parsed("repository", p, None, None))
    BY <1>1, <1>2, <2>1 DEF GH!ParseUrl
  <2>3. GH!Parsed("repository", p, None, None).path = p
    BY DEF GH!Parsed
  <2>4. GH!ParseUrl(u) = GH!Parsed("repository", p, None, None)
    BY <1>1, <2>2, <2>3 DEF GH!Named
  <2> QED BY <1>3, <2>4 DEF GH!Parsed, n
<1>4. CASE /\ p = <<p[1], p[2], p[3], n>>
           /\ p[3] \in {"issues", "pull", "discussions"} /\ GH!ValidNumber(n)
  <2> DEFINE q == SubSeq(p, 1, 2)
             T == {p[1], p[2], p[3], n}
             tuple == <<p[1], p[2], p[3], n>>
  <2>1. tuple \in Seq(T) /\ Len(tuple) = 4 /\ tuple[4] = n
    OBVIOUS
  <2> HIDE DEF tuple, T
  <2>2. p \in Seq(T) /\ Len(p) = 4 /\ p[4] = n
    BY <1>4, <2>1 DEF tuple
  <2>3. q[1] = p[1] /\ q[2] = p[2]
    BY <2>2
  <2> HIDE DEF q
  <2>4. GH!SafeName(q)
    BY <1>1, <2>3 DEF GH!SafeName
  <2>5. /\ p[3] \in {"issues", "pull"} =>
             GH!ParseUrl(u) = GH!Numbered(GH!Parsed("issue", q, p[4], p[3] = "pull"))
        /\ p[3] = "discussions" =>
             GH!ParseUrl(u) = GH!Numbered(GH!Parsed("discussion", q, p[4], None))
    BY <1>1, <1>2, <2>2 DEF GH!ParseUrl, q
  <2>6. \A kind, pull : GH!Numbered(GH!Parsed(kind, q, n, pull)) = GH!Parsed(kind, q, n, pull)
    BY <1>4, <2>4 DEF GH!Numbered, GH!Parsed
  <2>7. \E kind, pull : GH!ParseUrl(u) = GH!Parsed(kind, q, n, pull)
    BY <1>4, <2>2, <2>5, <2>6
  <2> QED BY <2>7 DEF GH!Parsed, n
<1> QED BY <1>1, <1>3, <1>4

\* The object of a record is the only one of its name.
LEMMA NamedOnce ==
  ASSUME SoundObjects, NEW o \in Objects, NEW s, o.source = s, NEW name, o.name = name
  PROVE  (CHOOSE p \in Objects : p.source = s /\ p.name = name) = o
  BY DEF SoundObjects

\* Checks that all pass refuse nothing.
LEMMA NothingWrong ==
  ASSUME NEW checks, \A i \in DOMAIN checks : ~checks[i].fails, NEW requests, NEW plan,
         plan = Decide(checks, requests)
  PROVE  plan.refusal = None /\ plan.requests = requests
<1>1. FirstFailure(checks) = None
  BY DEF FirstFailure
<1> QED BY <1>1 DEF Decide

\* Fetching a record of GitHub asks for its thread.
LEMMA GitHubLeadsBack ==
  ASSUME SoundObjects, NEW r, GhKnown(r)
  PROVE  LET o == CHOOSE p \in Objects : p.source = GH!Id /\ p.name = Last(r.id)
             plan == GH!TargetPlan("fetch", RecordTarget(r), FALSE, TRUE)
         IN plan.refusal = None /\ plan.requests[1].of.number = ThreadNumber(o)
<1>1. PICK o \in Objects : o.source = GH!Id /\ r = GH!RecordOf(o)
  BY DEF GhKnown
<1> DEFINE t == RecordTarget(r)
           target == GH!FromTarget(t)
           requests == <<GH!FetchRequest(target)>>
           plan == GH!TargetPlan("fetch", t, FALSE, TRUE)
           id == IF o.node THEN <<"node", o.name>> ELSE <<GH!Id, o.kind, o.name>>
<1>2. r.source = GH!Id /\ r.url = o.html_url /\ r.id = id
  BY <1>1 DEF GH!RecordOf, GH!Record
<1>3. Last(id) = o.name
  <2>1. Last(<<"node", o.name>>) = o.name /\ Last(<<GH!Id, o.kind, o.name>>) = o.name
    BY DEF Last
  <2> QED BY <2>1
<1>4. (CHOOSE p \in Objects : p.source = GH!Id /\ p.name = Last(r.id)) = o
  BY <1>1, <1>2, <1>3, NamedOnce
<1>5. target = GH!ParseUrl(o.html_url)
  BY <1>2 DEF GH!FromTarget, RecordTarget
<1>6. t.type = "record"
  BY DEF RecordTarget
<1>7. target.class = None /\ target.number = ThreadNumber(o)
  BY <1>1, <1>5, AddressesParse DEF SoundObjects
<1>8. target.kind \in {"repository", "issue", "discussion"}
  <2> HIDE DEF t
  <2>1. IsParsed(GH!FromTarget(t))
    BY <1>6, TargetsParse
  <2> QED BY <1>7, <2>1 DEF IsParsed
<1>9. plan = Decide(<<Check(FALSE, "rate_limit"), Check(target.class # None, target.class),
                      Check(~TRUE /\ GH!NeedsToken(requests), "authentication")>>, requests)
  BY <1>7, SameChecks DEF GH!TargetPlan, GH!Check, Check
<1> HIDE DEF target, requests, plan
<1>10. plan.refusal = None /\ plan.requests = requests
  <2> DEFINE checks == <<Check(FALSE, "rate_limit"), Check(target.class # None, target.class),
                         Check(~TRUE /\ GH!NeedsToken(requests), "authentication")>>
  <2>1. DOMAIN checks = {1, 2, 3}
        /\ ~checks[1].fails /\ ~checks[2].fails /\ ~checks[3].fails
    <3> DEFINE c2 == target.class
               f2 == c2 # None
               f3 == ~TRUE /\ GH!NeedsToken(requests)
    <3>1. ~f2 /\ ~f3
      BY <1>7
    <3> HIDE DEF f2, f3, c2
    <3>2. LET s == <<Check(FALSE, "rate_limit"), Check(f2, c2), Check(f3, "authentication")>>
          IN DOMAIN s = {1, 2, 3} /\ ~s[1].fails /\ ~s[2].fails /\ ~s[3].fails
      BY <3>1 DEF Check
    <3> QED BY <3>2 DEF f2, f3, c2
  <2>2. plan = Decide(checks, requests)
    BY <1>9
  <2> HIDE DEF checks
  <2>3. \A i \in DOMAIN checks : ~checks[i].fails
    BY <2>1
  <2> QED BY <2>2, <2>3, NothingWrong
<1>11. requests[1].of.number = target.number
  BY <1>8 DEF requests, GH!FetchRequest, GH!Rest, GH!GraphQl, GH!Thread
<1> QED BY <1>4, <1>7, <1>10, <1>11 DEF plan, t

\* Fetching a record of Stack Exchange asks for its question.
LEMMA StackLeadsBack ==
  ASSUME SoundObjects, NEW r, SeKnown(r)
  PROVE  LET o == CHOOSE p \in Objects : p.source = SE!Id /\ p.name = Last(r.id)
             plan == SE!TargetPlan("fetch", RecordTarget(r), FALSE)
         IN plan.refusal = None /\ plan.requests[1].of = o.thread
<1>1. PICK o \in Objects : /\ o.source = SE!Id /\ r.source = SE!Id
                           /\ r.metadata = o.thread /\ Last(r.id) = o.name
  BY DEF SeKnown
<1> DEFINE t == RecordTarget(r)
           id == SE!QuestionId(t)
           missing == id = None
           requests == <<SE!Get("question", id)>>
           plan == SE!TargetPlan("fetch", t, FALSE)
<1>2. (CHOOSE p \in Objects : p.source = SE!Id /\ p.name = Last(r.id)) = o
  BY <1>1, NamedOnce
<1>3. o.thread # None
  BY <1>1 DEF SoundObjects
<1>4. id = o.thread
  BY <1>1, <1>3 DEF SE!QuestionId, RecordTarget
<1>5. plan = Decide(<<Check(FALSE, "rate_limit"), Check(missing, "invalid_query")>>, requests)
  BY SameChecks DEF SE!TargetPlan, SE!Check, Check
<1>6. ~missing
  BY <1>3, <1>4
<1> HIDE DEF id, missing, requests, plan
<1>7. plan.refusal = None /\ plan.requests = requests
  <2> DEFINE checks == <<Check(FALSE, "rate_limit"), Check(missing, "invalid_query")>>
  <2>1. DOMAIN checks = {1, 2} /\ ~checks[1].fails /\ ~checks[2].fails
    BY <1>6 DEF Check
  <2>2. plan = Decide(checks, requests)
    BY <1>5
  <2> HIDE DEF checks
  <2>3. \A i \in DOMAIN checks : ~checks[i].fails
    BY <2>1
  <2> QED BY <2>2, <2>3, NothingWrong
<1>8. requests[1].of = o.thread
  BY <1>4 DEF requests, SE!Get
<1> QED BY <1>2, <1>7, <1>8 DEF plan, t

\* Fetching a record of Hacker News asks for its item.
LEMMA HackerNewsLeadsBack ==
  ASSUME SoundObjects, NEW r, HnKnown(r)
  PROVE  LET o == CHOOSE p \in Objects : p.source = HN!Id /\ p.name = Last(r.id)
             plan == HN!TargetPlan("fetch", RecordTarget(r))
         IN plan.refusal = None /\ plan.requests[1].of = o.name
<1>1. PICK o \in Objects : o.source = HN!Id /\ r = HN!RecordOf(o)
  BY DEF HnKnown
<1> DEFINE t == RecordTarget(r)
           id == HN!TargetId(t)
           missing == id = None
           requests == <<HN!Get("item", id)>>
           plan == HN!TargetPlan("fetch", t)
           name == <<HN!Id, o.name>>
<1>2. r.source = HN!Id /\ r.id = name
  BY <1>1 DEF HN!RecordOf, HN!Record
<1>3. Last(name) = o.name /\ name[1] = HN!Id /\ name[2] = o.name
  BY DEF Last
<1> HIDE DEF name
<1>4. (CHOOSE p \in Objects : p.source = HN!Id /\ p.name = Last(r.id)) = o
  BY <1>1, <1>2, <1>3, NamedOnce
<1>5. o.name \in Numerals /\ o.name # None
  BY <1>1, CallsAssumption DEF SoundObjects
<1>6. id = o.name
  BY <1>2, <1>3, <1>5 DEF HN!TargetId, RecordTarget, Numerals, HN!Numerals
<1>7. plan = Decide(<<Check(missing, "invalid_query")>>, requests)
  BY SameChecks DEF HN!TargetPlan, HN!Check, Check
<1>8. ~missing
  BY <1>5, <1>6
<1> HIDE DEF id, missing, requests, plan
<1>9. plan.refusal = None /\ plan.requests = requests
  BY <1>7, <1>8, OneCheck
<1>10. requests[1].of = o.name
  BY <1>6 DEF requests, HN!Get
<1> QED BY <1>4, <1>9, <1>10 DEF plan, t

-----------------------------------------------------------------------------
(* Every record leads back *)

KnownOf(s, r) ==
  /\ s = GH!Id => GhKnown(r)
  /\ s = SE!Id => SeKnown(r)
  /\ s = HN!Id => HnKnown(r)

\* What a call holds, whatever it is for.
CallClosed(s, call) ==
  /\ IsCall(call)
  /\ call.st = "waiting" => call.todo # <<>>
  /\ \A i \in 1..Len(call.got) : call.got[i].class = None => KnownOf(s, call.got[i].record)

ClosedInv ==
  /\ source.id \in Sources
  /\ calls = [c \in Calls |-> calls[c]]
  /\ \A c \in Calls : CallClosed(source.id, calls[c])

\* A call that was refused, or answered with one error.
RefusedCall(call) ==
  /\ call.st = "done" /\ call.todo = <<>> /\ call.sent = <<>>
  /\ \E class : class # None /\ call.got = <<Failed(class)>>

\* The first requests of a follow.
FirstOfFollow(s, arg, todo) ==
  /\ s = GH!Id => LET target == GH!FromTarget(arg)
                  IN target.class = None /\ todo = GH!FollowRequests(target)
  /\ s = HN!Id => todo = <<HN!Get("kids", HN!TargetId(arg))>>
  /\ s = SE!Id => todo = <<SE!Get("answers", SE!QuestionId(arg))>>
  /\ s # WB!Id

\* A call that waits for the first answer.
FirstCall(s, op, arg, call) ==
  /\ call.st = "waiting" /\ call.got = <<>> /\ call.todo # <<>>
  /\ call.sent = <<Head(call.todo)>>
  /\ op # "follow" => \E x : call.todo = <<x>>
  /\ op = "follow" => call.arg = arg /\ FirstOfFollow(s, arg, call.todo)

LEMMA SingleFailures ==
  ASSUME NEW class
  PROVE  IsSeq(<<Failed(class)>>) /\ Len(<<Failed(class)>>) = 1
         /\ <<Failed(class)>>[1].class = class
  BY Short DEF Failed

\* A follow on GitHub begins with at least one request.
LEMMA FollowBegins ==
  ASSUME NEW target, IsParsed(target), target.class = None
  PROVE  IsSeq(GH!FollowRequests(target)) /\ GH!FollowRequests(target) # <<>>
<1> DEFINE requests == GH!FollowRequests(target)
           of == GH!Thread(target)
<1>1. target.kind \in {"repository", "issue", "discussion"}
      /\ (target.kind = "issue" => target.pull \in BOOLEAN \cup {None})
  BY DEF IsParsed
<1>2. CASE target.kind = "repository"
  <2>1. requests = <<GH!GraphQl("repository-discussions", GH!Page(of))>>
    BY <1>2 DEF GH!FollowRequests
  <2> QED BY <2>1, Short
<1>3. CASE target.kind = "discussion"
  <2>1. requests = <<GH!GraphQl("discussion-comments", GH!Page(of))>>
    BY <1>3 DEF GH!FollowRequests
  <2> QED BY <2>1, Short
<1>4. CASE target.kind = "issue" /\ target.pull = None
  <2>1. requests = <<GH!Rest("is-pull", of)>>
    BY <1>4 DEF GH!FollowRequests
  <2> QED BY <2>1, Short
<1>5. CASE target.kind = "issue" /\ target.pull # None
  <2>1. requests = GH!Discussion(of, target.pull)
    BY <1>5 DEF GH!FollowRequests
  <2>2. target.pull \in BOOLEAN
    BY <1>1, <1>5
  <2> QED BY <2>1, <2>2, DiscussionParts
<1> QED BY <1>1, <1>2, <1>3, <1>4, <1>5

\* What a caller may ask for parses to something of a known kind.
LEMMA ArgumentsParse ==
  ASSUME RightTargets, source.id = GH!Id, NEW op, op # "search", NEW arg \in Arguments(op)
  PROVE  IsParsed(GH!FromTarget(arg))
<1>1. arg.type \in {"record", "url", "native"}
  BY DEF RightTargets, Arguments, RecordTarget
<1> QED BY <1>1, TargetsParse

\* What every plan has: a class, or requests.
LEMMA Plans ==
  ASSUME RightTargets, source.id \in Sources, NEW op \in Operations, NEW arg \in Arguments(op)
  PROVE  LET plan == Plan(op, arg)
         IN /\ plan.refusal # None => plan.requests = <<>>
            /\ plan.refusal = None =>
                 /\ IsSeq(plan.requests) /\ plan.requests # <<>>
                 /\ op # "follow" => \E x : plan.requests = <<x>>
                 /\ op = "follow" => FirstOfFollow(source.id, arg, plan.requests)
<1> DEFINE plan == Plan(op, arg)
<1>1. \A x : IsSeq(<<x>>) /\ <<x>> # <<>>
  BY Short
<1>2. CASE source.id = GH!Id
  <2>1. /\ plan.refusal # None => plan.requests = <<>>
        /\ plan.refusal = None /\ op # "follow" => \E x : plan.requests = <<x>>
        /\ plan.refusal = None /\ op = "follow" =>
             /\ GH!FromTarget(arg).class = None
             /\ plan.requests = GH!FollowRequests(GH!FromTarget(arg))
    BY <1>2, GitHubPlans
  <2>2. plan.refusal = None /\ op = "follow" =>
          IsSeq(GH!FollowRequests(GH!FromTarget(arg)))
          /\ GH!FollowRequests(GH!FromTarget(arg)) # <<>>
    BY <1>2, <2>1, ArgumentsParse, FollowBegins
  <2> HIDE DEF plan
  <2>3. FirstOfFollow(source.id, arg, plan.requests)
           <=> /\ GH!FromTarget(arg).class = None
               /\ plan.requests = GH!FollowRequests(GH!FromTarget(arg))
    BY <1>2, Ids DEF FirstOfFollow
  <2> QED BY <1>1, <2>1, <2>2, <2>3 DEF plan
<1>3. CASE source.id = SE!Id
  <2>1. /\ plan.refusal # None => plan.requests = <<>>
        /\ plan.refusal = None => \E x : plan.requests = <<x>>
        /\ plan.refusal = None /\ op = "follow" =>
             plan.requests = <<SE!Get("answers", SE!QuestionId(arg))>>
    BY <1>3, StackPlans
  <2> HIDE DEF plan
  <2>2. FirstOfFollow(source.id, arg, plan.requests)
           <=> plan.requests = <<SE!Get("answers", SE!QuestionId(arg))>>
    BY <1>3, Ids DEF FirstOfFollow
  <2> QED BY <1>1, <2>1, <2>2 DEF plan
<1>4. CASE source.id = HN!Id
  <2>1. /\ plan.refusal # None => plan.requests = <<>>
        /\ plan.refusal = None => \E x : plan.requests = <<x>>
        /\ plan.refusal = None /\ op = "follow" =>
             plan.requests = <<HN!Get("kids", HN!TargetId(arg))>>
    BY <1>4, HackerNewsPlans
  <2> HIDE DEF plan
  <2>2. FirstOfFollow(source.id, arg, plan.requests)
           <=> plan.requests = <<HN!Get("kids", HN!TargetId(arg))>>
    BY <1>4, Ids DEF FirstOfFollow
  <2> QED BY <1>1, <2>1, <2>2 DEF plan
<1>5. CASE source.id = WB!Id
  <2>1. /\ plan.refusal # None => plan.requests = <<>>
        /\ plan.refusal = None => op # "follow" /\ \E x : plan.requests = <<x>>
    BY <1>5, WebPlans
  <2> HIDE DEF plan
  <2> QED BY <1>1, <2>1 DEF plan
<1> QED BY <1>2, <1>3, <1>4, <1>5 DEF Sources

\* A call starts refused, or with its first requests.
LEMMA Starts ==
  ASSUME RightTargets, ClosedInv, NEW c \in Calls, NEW op \in Operations,
         NEW arg \in Arguments(op), Start(c, op, arg)
  PROVE  \E k : /\ calls' = [calls EXCEPT ![c] = k] /\ source' = source
                /\ IsCall(k) /\ k.op = op
                /\ RefusedCall(k) \/ FirstCall(source.id, op, arg, k)
<1> DEFINE plan == IF CommandRefuses(op, arg)
                     THEN Decide(<<Check(TRUE, "invalid_query")>>, <<>>) ELSE Plan(op, arg)
           refused == plan.refusal # None
           k == [st |-> IF refused THEN "done" ELSE "waiting", op |-> op,
                 arg |-> IF op = "follow" THEN arg ELSE None,
                 todo |-> plan.requests, sent |-> First(plan.requests),
                 got |-> IF refused THEN <<Failed(plan.refusal)>> ELSE <<>>]
<1>1. calls' = [calls EXCEPT ![c] = k] /\ source' = source
  BY DEF Start
<1>2. /\ plan.refusal # None => plan.requests = <<>>
      /\ plan.refusal = None =>
           /\ IsSeq(plan.requests) /\ plan.requests # <<>>
           /\ op # "follow" => \E x : plan.requests = <<x>>
           /\ op = "follow" => FirstOfFollow(source.id, arg, plan.requests)
  <2>1. CASE CommandRefuses(op, arg)
    <3> DEFINE d == Decide(<<Check(TRUE, "invalid_query")>>, <<>>)
    <3>1. d.refusal # None
      <4>1. "invalid_query" # None
        BY CallsAssumption DEF ErrorClasses
      <4> QED BY <4>1, OneCheck
    <3>2. d.requests = <<>>
      BY <3>1, Decisions
    <3>3. plan = d
      BY <2>1
    <3> QED BY <3>1, <3>2, <3>3
  <2>2. CASE ~CommandRefuses(op, arg)
    <3>1. plan = Plan(op, arg)
      BY <2>2
    <3> HIDE DEF plan
    <3> QED BY <3>1, Plans DEF ClosedInv
  <2> QED BY <2>1, <2>2
<1> HIDE DEF plan
<1>3. k.st = (IF refused THEN "done" ELSE "waiting") /\ k.op = op
      /\ k.arg = (IF op = "follow" THEN arg ELSE None)
      /\ k.todo = plan.requests /\ k.sent = First(plan.requests)
      /\ k.got = (IF refused THEN <<Failed(plan.refusal)>> ELSE <<>>)
      /\ k = [st |-> k.st, op |-> k.op, arg |-> k.arg, todo |-> k.todo,
              sent |-> k.sent, got |-> k.got]
  OBVIOUS
<1> HIDE DEF k
<1>4. CASE refused
  <2>1. k.todo = <<>> /\ k.sent = <<>> /\ k.got = <<Failed(plan.refusal)>> /\ k.st = "done"
    BY <1>2, <1>3, <1>4 DEF First
  <2>2. IsCall(k)
    BY <1>3, <2>1, Short, SingleFailures DEF IsCall
  <2>3. RefusedCall(k)
    BY <1>4, <2>1 DEF RefusedCall
  <2> QED BY <1>1, <1>3, <2>2, <2>3
<1>5. CASE ~refused
  <2>1. /\ k.st = "waiting" /\ k.got = <<>> /\ k.todo = plan.requests /\ k.todo # <<>>
        /\ k.sent = <<Head(k.todo)>> /\ IsSeq(k.todo)
        /\ op = "follow" => k.arg = arg
    BY <1>2, <1>3, <1>5 DEF First
  <2>2. IsCall(k)
    <3>1. IsSeq(k.sent) /\ IsSeq(k.got)
      BY <2>1, Short
    <3> QED BY <1>3, <2>1, <3>1 DEF IsCall
  <2>3. FirstCall(source.id, op, arg, k)
    BY <1>2, <1>5, <2>1 DEF FirstCall
  <2> QED BY <1>1, <1>3, <2>2, <2>3
<1> QED BY <1>4, <1>5

\* What becomes of the call of c: it is given up, begins, or takes an outcome.
Begins(c, k) ==
  \E op \in Operations : \E arg \in Arguments(op) :
    IsCall(k) /\ k.op = op /\ (RefusedCall(k) \/ FirstCall(source.id, op, arg, k))

Takes(c, k) ==
  LET req == Head(calls[c].todo)
  IN /\ calls[c].st = "waiting"
     /\ \E out : /\ k = After(calls[c], out)
                 /\ \/ out = Outcome("timeout", <<>>, <<>>, None)
                    \/ \E response \in Responses(source.id, req) : out = Answer(req, response)

LEMMA StepCases ==
  ASSUME RightTargets, ClosedInv, [SourceCallsNext]_callVars
  PROVE  /\ source' = source
         /\ \/ calls' = calls
            \/ \E c \in Calls : \E k : /\ calls' = [calls EXCEPT ![c] = k]
                                       /\ k = Idle \/ Begins(c, k) \/ Takes(c, k)
<1>1. ASSUME NEW c \in Calls, NEW op \in Operations, NEW arg \in Arguments(op), Start(c, op, arg)
      PROVE  source' = source /\ \E k : calls' = [calls EXCEPT ![c] = k] /\ Begins(c, k)
  BY <1>1, Starts DEF Begins
<1>2. ASSUME NEW c \in Calls, Answered(c)
      PROVE  source' = source /\ \E k : calls' = [calls EXCEPT ![c] = k] /\ Takes(c, k)
  <2> DEFINE req == Head(calls[c].todo)
  <2>1. PICK response \in Responses(source.id, req) : Respond(c, response)
    BY <1>2 DEF Answered
  <2> DEFINE out == Answer(req, response)
             k == After(calls[c], out)
  <2>2. /\ calls[c].st = "waiting" /\ source' = source
        /\ calls' = [calls EXCEPT ![c] = k]
    BY <2>1 DEF Respond
  <2> HIDE DEF out
  <2>3. Takes(c, k)
    BY <2>2 DEF Takes, out
  <2> HIDE DEF k
  <2> QED BY <2>2, <2>3
<1>3. ASSUME NEW c \in Calls, TransportFails(c)
      PROVE  source' = source /\ \E k : calls' = [calls EXCEPT ![c] = k] /\ Takes(c, k)
  <2> DEFINE out == Outcome("timeout", <<>>, <<>>, None)
             k == After(calls[c], out)
  <2>1. /\ calls[c].st = "waiting" /\ source' = source
        /\ calls' = [calls EXCEPT ![c] = k]
    BY <1>3 DEF TransportFails
  <2> HIDE DEF out
  <2>2. Takes(c, k)
    BY <2>1 DEF Takes, out
  <2> HIDE DEF k
  <2> QED BY <2>1, <2>2
<1>4. ASSUME NEW c \in Calls, Drop(c) \/ Forget(c)
      PROVE  source' = source /\ calls' = [calls EXCEPT ![c] = Idle]
  BY <1>4 DEF Drop, Forget
<1>5. Tick \/ UNCHANGED callVars => source' = source /\ calls' = calls
  BY DEF Tick, callVars
<1> QED BY <1>1, <1>2, <1>3, <1>4, <1>5 DEF SourceCallsNext

\* A timeout is an outcome without records.
LEMMA Timeouts ==
  LET out == Outcome("timeout", <<>>, <<>>, None)
  IN IsOutcome(out) /\ out.class = "timeout" /\ out.class # None
     /\ out.records = <<>> /\ out.next = <<>>
<1>1. "timeout" # None
  BY CallsAssumption DEF ErrorClasses
<1> DEFINE e == <<>>
<1>2. IsSeq(e)
  BY Short
<1> HIDE DEF e
<1>3. LET out == Outcome("timeout", e, e, None)
      IN IsOutcome(out) /\ out.class = "timeout" /\ out.records \in {e, <<>>}
         /\ out.next \in {e, <<>>}
  BY <1>2, Outcomes
<1> QED BY <1>1, <1>3 DEF e

LEMMA IdleParts ==
  IsCall(Idle) /\ Idle.st = "idle" /\ Idle.todo = <<>> /\ Idle.sent = <<>> /\ Idle.got = <<>>
  /\ Idle.op = None
  BY Short DEF Idle, IsCall

\* A record that is passed on is the one that was made, an error has no record.
LEMMA Emissions ==
  ASSUME NEW r
  PROVE  Emitted(r).class = None => Emitted(r).record = r
<1>1. "serialization" # None
  BY SuiteAssumption
<1> QED BY <1>1 DEF Emitted, Failed

LEMMA AfterClosed ==
  ASSUME NEW s, NEW call, CallClosed(s, call), call.st = "waiting", NEW out, IsOutcome(out),
         out.class = None => \A i \in 1..Len(out.records) : KnownOf(s, out.records[i])
  PROVE  CallClosed(s, After(call, out))
<1> DEFINE next == After(call, out)
           n == Len(call.got)
           m == Len(out.records)
<1>1. IsCall(call) /\ call.todo # <<>>
      /\ \A i \in 1..n : call.got[i].class = None => KnownOf(s, call.got[i].record)
  BY DEF CallClosed
<1>2. n \in Nat /\ m \in Nat
  BY <1>1, SeqParts DEF IsCall, IsOutcome
<1> DEFINE todo == IF GoesOn(call, out) THEN out.next \o Tail(call.todo) ELSE <<>>
<1>7. IsCall(next) /\ next.todo = todo /\ next.st = IF todo = <<>> THEN "done" ELSE "waiting"
  BY <1>1, AfterParts
<1>8. out.class = None => Extended(call.got, out.records, next.got)
  BY <1>1, AfterParts
<1>9. /\ out.class # None /\ GoesOn(call, out) =>
           next.got = Append(call.got, Failed(out.class))
      /\ ~GoesOn(call, out) => next.got = <<Failed(out.class)>>
  BY <1>1, AfterParts
<1> HIDE DEF next, todo, n, m
<1>3. /\ IsCall(next)
      /\ next.st = "waiting" => next.todo # <<>>
      /\ out.class = None =>
           /\ Len(next.got) = n + m
           /\ \A i \in 1..n : next.got[i] = call.got[i]
           /\ \A i \in 1..m : next.got[n + i] = Emitted(out.records[i])
      /\ out.class # None =>
           next.got \in {Append(call.got, Failed(out.class)), <<Failed(out.class)>>}
  BY <1>7, <1>8, <1>9 DEF n, m, GoesOn, Extended
<1>4. ASSUME out.class = None PROVE CallClosed(s, next)
  <2>1. ASSUME NEW i \in 1..Len(next.got), next.got[i].class = None
        PROVE  KnownOf(s, next.got[i].record)
    <3>1. CASE i \in 1..n
      BY <1>1, <1>3, <1>4, <2>1, <3>1
    <3>2. CASE i \notin 1..n
      <4> DEFINE j == i - n
      <4>1. j \in 1..m /\ i = n + j
        BY <1>2, <1>3, <1>4, <3>2
      <4> HIDE DEF j
      <4>2. next.got[i] = Emitted(out.records[j])
        BY <1>3, <1>4, <4>1
      <4>3. next.got[i].record = out.records[j]
        BY <2>1, <4>2, Emissions
      <4> QED BY <1>4, <4>1, <4>3 DEF m
    <3> QED BY <3>1, <3>2
  <2> QED BY <1>3, <2>1 DEF CallClosed
<1>5. ASSUME out.class # None PROVE CallClosed(s, next)
  <2>1. Failed(out.class).class # None
    BY <1>5 DEF Failed
  <2>2. CASE next.got = <<Failed(out.class)>>
    <3>1. \A i \in 1..Len(next.got) : next.got[i].class # None
      BY <1>5, <2>2, SingleFailures
    <3> QED BY <1>3, <3>1 DEF CallClosed
  <2>3. CASE next.got = Append(call.got, Failed(out.class))
    <3>1. /\ Len(next.got) = n + 1 /\ next.got[n + 1] = Failed(out.class)
          /\ \A i \in 1..n : next.got[i] = call.got[i]
      <4>1. IsSeq(call.got)
        BY <1>1 DEF IsCall
      <4> QED BY <2>3, <4>1, Grown DEF n
    <3>2. ASSUME NEW i \in 1..Len(next.got), next.got[i].class = None
          PROVE  KnownOf(s, next.got[i].record)
      <4>1. i \in 1..n
        BY <1>2, <2>1, <3>1, <3>2
      <4> QED BY <1>1, <3>1, <3>2, <4>1
    <3> QED BY <1>3, <3>2 DEF CallClosed
  <2> QED BY <1>3, <1>5, <2>2, <2>3
<1> QED BY <1>4, <1>5 DEF next

LEMMA ClosedStart == ASSUME SourceCallsInit PROVE ClosedInv
<1>1. source.id \in Sources /\ calls = [c \in Calls |-> Idle]
  BY DEF SourceCallsInit
<1>2. CallClosed(source.id, Idle)
  <2>1. Idle.st # "waiting" /\ Len(Idle.got) = 0 /\ IsCall(Idle)
    BY IdleParts, Short
  <2> HIDE DEF Idle
  <2> QED BY <2>1 DEF CallClosed
<1> QED BY <1>1, <1>2 DEF ClosedInv

\* A call that takes an outcome keeps only known records.
LEMMA TakesClosed ==
  ASSUME UpstreamIsHonest, ClosedInv, NEW c \in Calls, NEW k, Takes(c, k)
  PROVE  CallClosed(source.id, k)
<1> DEFINE call == calls[c]
           req == Head(call.todo)
<1>1. PICK out : /\ k = After(call, out)
                 /\ \/ out = Outcome("timeout", <<>>, <<>>, None)
                    \/ \E response \in Responses(source.id, req) : out = Answer(req, response)
  BY DEF Takes
<1>2. CallClosed(source.id, call) /\ call.st = "waiting" /\ source.id \in Sources
  BY DEF ClosedInv, Takes
<1>3. IsOutcome(out)
      /\ (out.class = None => \A i \in 1..Len(out.records) : KnownOf(source.id, out.records[i]))
  <2>1. CASE out = Outcome("timeout", <<>>, <<>>, None)
    BY <2>1, Timeouts
  <2>2. ASSUME NEW response \in Responses(source.id, req), out = Answer(req, response)
        PROVE  IsOutcome(out)
               /\ (out.class = None =>
                     \A i \in 1..Len(out.records) : KnownOf(source.id, out.records[i]))
    <3> HIDE DEF req
    <3>1. /\ IsOutcome(Answer(req, response))
          /\ Answer(req, response).class = None =>
               \A i \in 1..Len(Answer(req, response).records) :
                 Known(Answer(req, response).records[i])
      BY <1>2, AnswersAreKnownRecords
    <3>2. \A r : Known(r) => KnownOf(source.id, r)
      BY DEF Known, KnownOf
    <3> QED BY <2>2, <3>1, <3>2
  <2> QED BY <1>1, <2>1, <2>2
<1> QED BY <1>1, <1>2, <1>3, AfterClosed

LEMMA BeginsClosed ==
  ASSUME NEW c, NEW k, Begins(c, k)
  PROVE  CallClosed(source.id, k)
<1>1. PICK op \in Operations : \E arg \in Arguments(op) :
        IsCall(k) /\ k.op = op /\ (RefusedCall(k) \/ FirstCall(source.id, op, arg, k))
  BY DEF Begins
<1>2. PICK arg \in Arguments(op) :
        IsCall(k) /\ k.op = op /\ (RefusedCall(k) \/ FirstCall(source.id, op, arg, k))
  BY <1>1
<1>3. CASE RefusedCall(k)
  <2>1. PICK class : class # None /\ k.got = <<Failed(class)>> /\ k.st = "done"
    BY <1>3 DEF RefusedCall
  <2>2. \A i \in 1..Len(k.got) : k.got[i].class # None
    BY <2>1, SingleFailures
  <2> QED BY <1>2, <2>1, <2>2 DEF CallClosed
<1>4. CASE FirstCall(source.id, op, arg, k)
  <2>1. k.todo # <<>> /\ Len(k.got) = 0
    BY <1>4, Short DEF FirstCall
  <2> QED BY <1>2, <2>1 DEF CallClosed
<1> QED BY <1>2, <1>3, <1>4

LEMMA ClosedStep ==
  ASSUME UpstreamIsHonest, ClosedInv, [SourceCallsNext]_callVars
  PROVE  ClosedInv'
<1>1. /\ source' = source
      /\ \/ calls' = calls
         \/ \E c \in Calls : \E k : /\ calls' = [calls EXCEPT ![c] = k]
                                    /\ k = Idle \/ Begins(c, k) \/ Takes(c, k)
  BY StepCases DEF UpstreamIsHonest
<1>2. CASE calls' = calls
  BY <1>1, <1>2 DEF ClosedInv
<1>3. ASSUME NEW c \in Calls, NEW k, calls' = [calls EXCEPT ![c] = k],
             k = Idle \/ Begins(c, k) \/ Takes(c, k)
      PROVE  ClosedInv'
  <2>1. CallClosed(source.id, Idle)
    <3>1. Idle.st # "waiting" /\ Len(Idle.got) = 0 /\ IsCall(Idle)
      BY IdleParts, Short
    <3> HIDE DEF Idle
    <3> QED BY <3>1 DEF CallClosed
  <2>2. CallClosed(source.id, k)
    BY <1>3, <2>1, BeginsClosed, TakesClosed
  <2>3. /\ source.id \in Sources /\ calls = [d \in Calls |-> calls[d]]
        /\ \A d \in Calls : CallClosed(source.id, calls[d])
    BY DEF ClosedInv
  <2>4. /\ calls' = [d \in Calls |-> calls'[d]]
        /\ \A d \in Calls : calls'[d] = IF d = c THEN k ELSE calls[d]
    BY <1>3, <2>3
  <2>5. \A d \in Calls : CallClosed(source.id, calls'[d])
    BY <2>2, <2>3, <2>4
  <2> QED BY <1>1, <2>3, <2>4, <2>5 DEF ClosedInv
<1> QED BY <1>1, <1>2, <1>3

\* A record that a caller holds is known.
LEMMA HeldAreKnown == ASSUME ClosedInv, NEW r \in Held PROVE Known(r)
<1>1. PICK c \in Calls : r \in Yielded(calls[c])
  BY DEF Held
<1>2. PICK i \in DOMAIN calls[c].got : calls[c].got[i].class = None /\ r = calls[c].got[i].record
  BY <1>1 DEF Yielded
<1>3. i \in 1..Len(calls[c].got)
  BY <1>2, SeqParts DEF ClosedInv, CallClosed, IsCall
<1> QED BY <1>2, <1>3 DEF ClosedInv, CallClosed, KnownOf, Known

LEMMA ClosedThreads == ASSUME UpstreamIsHonest, ClosedInv PROVE ThreadClosed
<1> SUFFICES ASSUME NEW r \in Held, source.id # WB!Id
             PROVE  LET o == CHOOSE p \in Objects : p.source = source.id /\ p.name = Last(r.id)
                        plan == CASE source.id = GH!Id -> GH!TargetPlan("fetch", RecordTarget(r), FALSE, TRUE)
                                  [] source.id = SE!Id -> SE!TargetPlan("fetch", RecordTarget(r), FALSE)
                                  [] source.id = HN!Id -> HN!TargetPlan("fetch", RecordTarget(r))
                    IN /\ plan.refusal = None
                       /\ IF source.id = GH!Id
                            THEN plan.requests[1].of.number = (IF o.reply /\ o.thread # "repository"
                                                                 THEN o.thread ELSE o.number)
                            ELSE plan.requests[1].of = (IF source.id = SE!Id THEN o.thread ELSE o.name)
  BY DEF ThreadClosed
<1>1. Known(r) /\ SoundObjects /\ source.id \in {GH!Id, SE!Id, HN!Id}
  BY HeldAreKnown DEF UpstreamIsHonest, ClosedInv, Sources
<1>2. CASE source.id = GH!Id
  <2>1. GhKnown(r)
    BY <1>1, <1>2 DEF Known
  <2>2. LET o == CHOOSE p \in Objects : p.source = GH!Id /\ p.name = Last(r.id)
            plan == GH!TargetPlan("fetch", RecordTarget(r), FALSE, TRUE)
        IN plan.refusal = None /\ plan.requests[1].of.number = ThreadNumber(o)
    BY <1>1, <2>1, GitHubLeadsBack
  <2> QED BY <1>2, <2>2, Ids DEF ThreadNumber
<1>3. CASE source.id = SE!Id
  <2>1. SeKnown(r)
    BY <1>1, <1>3 DEF Known
  <2>2. LET o == CHOOSE p \in Objects : p.source = SE!Id /\ p.name = Last(r.id)
            plan == SE!TargetPlan("fetch", RecordTarget(r), FALSE)
        IN plan.refusal = None /\ plan.requests[1].of = o.thread
    BY <1>1, <2>1, StackLeadsBack
  <2> QED BY <1>3, <2>2, Ids
<1>4. CASE source.id = HN!Id
  <2>1. HnKnown(r)
    BY <1>1, <1>4 DEF Known
  <2>2. LET o == CHOOSE p \in Objects : p.source = HN!Id /\ p.name = Last(r.id)
            plan == HN!TargetPlan("fetch", RecordTarget(r))
        IN plan.refusal = None /\ plan.requests[1].of = o.name
    BY <1>1, <2>1, HackerNewsLeadsBack
  <2> QED BY <1>4, <2>2, Ids
<1> QED BY <1>1, <1>2, <1>3, <1>4

\* Every record that a caller of GitHub, Stack Exchange or Hacker News holds leads
\* back to the object it is or to its thread, whatever upstream answers to whom in
\* which order and whichever calls time out or are dropped, as long as upstream says
\* the truth when it does not fail.
THEOREM RecordsLeadBack == ASSUME UpstreamIsHonest PROVE SourceCallsSpec => []ThreadClosed
<1>1. SourceCallsInit => ClosedInv
  BY ClosedStart
<1>2. ClosedInv /\ [SourceCallsNext]_callVars => ClosedInv'
  BY ClosedStep
<1>3. ClosedInv => ThreadClosed
  BY ClosedThreads
<1> QED BY <1>1, <1>2, <1>3, PTL DEF SourceCallsSpec

-----------------------------------------------------------------------------
(* The pages of a discussion: which requests there are, what is left to come *)

\* No request twice, and review lookups only for a pull request.
GoodCourse(course) ==
  /\ IsInjective(course)
  /\ \A i \in DOMAIN course :
       course[i].what \in {"reviews", "review-comments"} => IsPull(course[i].of.number)

\* The thread a GitHub address means.
ThreadOf(target) == IF target.kind = "repository" THEN "repository" ELSE target.number

RecordsOf(objects) == {GH!RecordOf(o) : o \in objects}

\* The replies that requests will bring.
Due(todo) == {o \in Objects : \E i \in 1..Len(todo) : o \in PageOf(todo[i])}

\* Requests for the first page of each kind of reply in a thread.
Covers(todo, thread) ==
  /\ \A i \in 1..Len(todo) : todo[i].what \in ReplyRequests
  /\ Due(todo) = FirstPages(thread)

LEMMA PagesAreObjects == ASSUME NEW x PROVE PageOf(x) \subseteq Objects
BY DEF PageOf, FirstOf, Requested, Replies

LEMMA DueOfOne ==
  ASSUME NEW x
  PROVE  Due(<<x>>) = PageOf(x)
<1>1. PageOf(x) \subseteq Objects
  BY PagesAreObjects
<1> DEFINE s == <<x>>
<1>2. Len(s) = 1 /\ s[1] = x
  OBVIOUS
<1> HIDE DEF s
<1>3. Due(s) = PageOf(x)
  BY <1>1, <1>2 DEF Due
<1> QED BY <1>3 DEF s

LEMMA DueOfThree ==
  ASSUME NEW x, NEW y, NEW z
  PROVE  Due(<<x, y, z>>) = PageOf(x) \cup PageOf(y) \cup PageOf(z)
<1>1. PageOf(x) \subseteq Objects /\ PageOf(y) \subseteq Objects /\ PageOf(z) \subseteq Objects
  BY PagesAreObjects
<1> DEFINE s == <<x, y, z>>
<1>2. Len(s) = 3 /\ s[1] = x /\ s[2] = y /\ s[3] = z
  OBVIOUS
<1> HIDE DEF s
<1>3. Due(s) = PageOf(x) \cup PageOf(y) \cup PageOf(z)
  <2>1. \A i \in 1..Len(s) : s[i] \in {x, y, z}
    BY <1>2
  <2>2. 1 \in 1..Len(s) /\ 2 \in 1..Len(s) /\ 3 \in 1..Len(s)
    BY <1>2
  <2> QED BY <1>1, <1>2, <2>1, <2>2 DEF Due
<1> QED BY <1>3 DEF s

\* After the head of the requests.
LEMMA DueOfTail ==
  ASSUME NEW s, IsSeq(s), s # <<>>
  PROVE  Due(s) = PageOf(Head(s)) \cup Due(Tail(s))
<1> DEFINE t == Tail(s)
<1>1. /\ Len(s) \in Nat \ {0} /\ Head(s) = s[1] /\ IsSeq(t)
      /\ Len(t) = Len(s) - 1 /\ \A i \in 1..Len(t) : t[i] = s[i + 1]
  BY SeqParts
<1> HIDE DEF t
<1>2. PageOf(Head(s)) \subseteq Objects
  BY PagesAreObjects
<1>3. ASSUME NEW o \in Due(s) PROVE o \in PageOf(Head(s)) \cup Due(t)
  <2>1. PICK i \in 1..Len(s) : o \in PageOf(s[i])
    BY <1>3 DEF Due
  <2>2. CASE i = 1
    BY <1>1, <2>1, <2>2
  <2>3. CASE i # 1
    <3> DEFINE j == i - 1
    <3>1. j \in 1..Len(t) /\ j + 1 = i
      BY <1>1, <2>3
    <3> HIDE DEF j
    <3>2. o \in PageOf(t[j])
      BY <1>1, <2>1, <3>1
    <3> QED BY <1>3, <3>1, <3>2 DEF Due
  <2> QED BY <2>2, <2>3
<1>4. ASSUME NEW o \in PageOf(Head(s)) PROVE o \in Due(s)
  <2>1. 1 \in 1..Len(s)
    BY <1>1
  <2> QED BY <1>1, <1>2, <1>4, <2>1 DEF Due
<1>5. ASSUME NEW o \in Due(t) PROVE o \in Due(s)
  <2>1. PICK i \in 1..Len(t) : o \in PageOf(t[i])
    BY <1>5 DEF Due
  <2>2. i + 1 \in 1..Len(s) /\ o \in PageOf(s[i + 1])
    BY <1>1, <2>1
  <2> QED BY <1>5, <2>2 DEF Due
<1> QED BY <1>3, <1>4, <1>5 DEF t

\* The kinds of replies a thread has are all there is to ask for.
LEMMA PagesOfKinds ==
  ASSUME NEW thread, NEW kinds, kinds \subseteq ReplyKinds,
         \A o \in Replies(thread) : o.kind \in kinds
  PROVE  FirstPages(thread) = UNION {FirstPage(thread, k) : k \in kinds}
<1>1. ASSUME NEW k \in ReplyKinds, k \notin kinds PROVE FirstPage(thread, k) = {}
  BY <1>1 DEF FirstPage, FirstOf
<1> QED BY <1>1 DEF FirstPages

LEMMA KindsOfReplies ==
  ReplyKinds = {"issue-comment", "review", "review-comment", "discussion", "discussion-comment"}
<1>1. /\ ReplyKind("comments") = "issue-comment"
      /\ ReplyKind("reviews") = "review"
      /\ ReplyKind("review-comments") = "review-comment"
      /\ ReplyKind("repository-discussions") = "discussion"
      /\ ReplyKind("discussion-comments") = "discussion-comment"
  BY DEF ReplyKind
<1> QED BY <1>1 DEF ReplyKinds, ReplyRequests

\* A request of a follow is for the first page of one kind.
LEMMA PageAsked ==
  ASSUME NEW req, NEW of, req.of = GH!Page(of)
  PROVE  PageOf(req) = FirstPage(IF req.what = "repository-discussions" THEN "repository"
                                 ELSE of.number, ReplyKind(req.what))
<1>1. req.of.limit = GhLimit /\ req.of.number = of.number
  BY DEF GH!Page
<1> QED BY <1>1 DEF PageOf, Requested, FirstPage

\* The three requests for a pull request cover its thread, the one for its comments
\* that of a plain issue.
LEMMA DiscussionCovers ==
  ASSUME NEW of, NEW pull \in BOOLEAN,
         LET kinds == {o.kind : o \in Replies(of.number)}
         IN IF pull THEN kinds \subseteq {"issue-comment", "review", "review-comment"}
                    ELSE kinds \subseteq {"issue-comment"}
  PROVE  Covers(GH!Discussion(of, pull), of.number)
<1> DEFINE c == GH!Rest("comments", GH!Page(of))
           r == GH!Rest("reviews", GH!Page(of))
           w == GH!Rest("review-comments", GH!Page(of))
           d == GH!Discussion(of, pull)
           n == of.number
<1>1. /\ c.what = "comments" /\ r.what = "reviews" /\ w.what = "review-comments"
      /\ c.of = GH!Page(of) /\ r.of = GH!Page(of) /\ w.of = GH!Page(of)
  BY DEF GH!Rest
<1>2. c.what \in ReplyRequests /\ r.what \in ReplyRequests /\ w.what \in ReplyRequests
  BY <1>1 DEF ReplyRequests
<1>3. d = IF pull THEN <<c, r, w>> ELSE <<c>>
  BY DiscussionParts
<1>4. \A o \in Replies(n) : IF pull THEN o.kind \in {"issue-comment", "review", "review-comment"}
                                     ELSE o.kind = "issue-comment"
  OBVIOUS
<1> HIDE DEF c, r, w, d, n
<1>5. /\ PageOf(c) = FirstPage(n, "issue-comment")
      /\ PageOf(r) = FirstPage(n, "review")
      /\ PageOf(w) = FirstPage(n, "review-comment")
  BY <1>1, PageAsked DEF ReplyKind, n
<1>6. CASE pull
  <2> DEFINE kinds == {"issue-comment", "review", "review-comment"}
  <2>1. d = <<c, r, w>> /\ Due(d) = PageOf(c) \cup PageOf(r) \cup PageOf(w)
    BY <1>3, <1>6, DueOfThree
  <2>2. FirstPages(n) = UNION {FirstPage(n, k) : k \in kinds}
    BY <1>4, <1>6, KindsOfReplies, PagesOfKinds
  <2>3. Due(d) = FirstPages(n)
    BY <1>5, <2>1, <2>2
  <2>4. \A i \in 1..Len(d) : d[i].what \in ReplyRequests
    BY <1>2, <2>1
  <2> QED BY <2>3, <2>4 DEF Covers, n, d
<1>7. CASE ~pull
  <2> DEFINE kinds == {"issue-comment"}
  <2>1. d = <<c>> /\ Due(d) = PageOf(c)
    BY <1>3, <1>7, DueOfOne
  <2>2. FirstPages(n) = UNION {FirstPage(n, k) : k \in kinds}
    BY <1>4, <1>7, KindsOfReplies, PagesOfKinds
  <2>3. Due(d) = FirstPages(n)
    BY <1>5, <2>1, <2>2
  <2>4. \A i \in 1..Len(d) : d[i].what \in ReplyRequests
    BY <1>2, <2>1
  <2> QED BY <2>3, <2>4 DEF Covers, n, d
<1> QED BY <1>6, <1>7

\* One request covers a thread that has replies of its kind only.
LEMMA OneCovers ==
  ASSUME NEW x, x.what \in ReplyRequests, NEW thread, NEW kind \in ReplyKinds,
         PageOf(x) = FirstPage(thread, kind), \A o \in Replies(thread) : o.kind = kind
  PROVE  Covers(<<x>>, thread)
<1> DEFINE d == <<x>>
           kinds == {kind}
<1>1. Due(d) = PageOf(x)
  BY DueOfOne
<1>2. FirstPages(thread) = UNION {FirstPage(thread, k) : k \in kinds}
  BY PagesOfKinds
<1>3. Len(d) = 1 /\ d[1] = x
  OBVIOUS
<1> HIDE DEF d
<1>4. Due(d) = FirstPages(thread)
  BY <1>1, <1>2
<1> QED BY <1>3, <1>4 DEF Covers, d

\* What a follow on GitHub begins with covers the thread, unless it has to ask first.
LEMMA FollowCovers ==
  ASSUME SoundObjects, NEW target, IsParsed(target), target.class = None, RightAddress(target),
         ~(target.kind = "issue" /\ target.pull = None)
  PROVE  Covers(GH!FollowRequests(target), ThreadOf(target))
<1> DEFINE of == GH!Thread(target)
           d == GH!FollowRequests(target)
<1>1. of.number = target.number
  BY DEF GH!Thread
<1>2. /\ target.kind \in {"repository", "issue", "discussion"}
      /\ target.kind = "issue" => target.pull \in BOOLEAN
  BY DEF IsParsed
<1>3. CASE target.kind = "repository"
  <2> DEFINE x == GH!GraphQl("repository-discussions", GH!Page(of))
  <2>1. d = <<x>>
    BY <1>3 DEF GH!FollowRequests
  <2>2. x.what = "repository-discussions" /\ x.of = GH!Page(of)
    BY DEF GH!GraphQl
  <2> HIDE DEF x, d, of
  <2>3. PageOf(x) = FirstPage("repository", "discussion")
    BY <2>2, PageAsked DEF ReplyKind
  <2>4. \A o \in Replies("repository") : o.kind = "discussion"
    BY DEF SoundObjects, SoundOnGitHub, Replies
  <2>5. x.what \in ReplyRequests /\ "discussion" \in ReplyKinds
    BY <2>2, KindsOfReplies DEF ReplyRequests
  <2>6. Covers(<<x>>, "repository")
    BY <2>3, <2>4, <2>5, OneCovers
  <2>7. ThreadOf(target) = "repository"
    BY <1>3 DEF ThreadOf
  <2> QED BY <2>1, <2>6, <2>7 DEF d
<1>4. CASE target.kind = "discussion"
  <2> DEFINE x == GH!GraphQl("discussion-comments", GH!Page(of))
  <2>1. d = <<x>>
    BY <1>4 DEF GH!FollowRequests
  <2>2. x.what = "discussion-comments" /\ x.of = GH!Page(of)
    BY DEF GH!GraphQl
  <2> HIDE DEF x, d, of
  <2>3. PageOf(x) = FirstPage(target.number, "discussion-comment")
    BY <1>1, <2>2, PageAsked DEF ReplyKind
  <2>4. \A o \in Replies(target.number) : o.kind = "discussion-comment"
    BY <1>4 DEF RightAddress
  <2>5. x.what \in ReplyRequests /\ "discussion-comment" \in ReplyKinds
    BY <2>2, KindsOfReplies DEF ReplyRequests
  <2>6. Covers(<<x>>, target.number)
    BY <2>3, <2>4, <2>5, OneCovers
  <2>7. ThreadOf(target) = target.number
    BY <1>4 DEF ThreadOf
  <2> QED BY <2>1, <2>6, <2>7 DEF d
<1>5. CASE target.kind = "issue"
  <2>1. target.pull \in BOOLEAN /\ target.pull # None
    BY <1>2, <1>5, CallsAssumption
  <2>2. d = GH!Discussion(of, target.pull)
    BY <1>5, <2>1 DEF GH!FollowRequests
  <2>3. ThreadOf(target) = of.number
    BY <1>1, <1>5 DEF ThreadOf
  <2>4. LET kinds == {o.kind : o \in Replies(of.number)}
        IN IF target.pull THEN kinds \subseteq {"issue-comment", "review", "review-comment"}
                          ELSE kinds \subseteq {"issue-comment"}
    <3> HIDE DEF of
    <3> QED BY <1>1, <1>5, <2>1 DEF RightAddress
  <2>5. Covers(GH!Discussion(of, target.pull), of.number)
    <3> HIDE DEF of
    <3> QED BY <2>1, <2>4, DiscussionCovers
  <2> QED BY <2>2, <2>3, <2>5
<1> QED BY <1>2, <1>3, <1>4, <1>5

LEMMA OneRequest ==
  ASSUME NEW x, x.what \notin {"reviews", "review-comments"}
  PROVE  GoodCourse(<<x>>)
<1> DEFINE s == <<x>>
<1>1. DOMAIN s = {1} /\ s[1] = x
  OBVIOUS
<1> HIDE DEF s
<1>2. GoodCourse(s)
  BY <1>1 DEF GoodCourse, IsInjective
<1> QED BY <1>2 DEF s

\* The requests of a discussion, with or without the question whether it is a pull request.
LEMMA DiscussionCourse ==
  ASSUME NEW of, NEW pull \in BOOLEAN, pull => IsPull(of.number)
  PROVE  /\ GoodCourse(GH!Discussion(of, pull))
         /\ GoodCourse(<<GH!Rest("is-pull", of)>> \o GH!Discussion(of, pull))
<1> DEFINE c == GH!Rest("comments", GH!Page(of))
           r == GH!Rest("reviews", GH!Page(of))
           w == GH!Rest("review-comments", GH!Page(of))
           q == GH!Rest("is-pull", of)
           d == GH!Discussion(of, pull)
           x == <<q>> \o d
<1>1. /\ c.what = "comments" /\ r.what = "reviews" /\ w.what = "review-comments"
      /\ q.what = "is-pull"
      /\ r.of.number = of.number /\ w.of.number = of.number
  BY DEF GH!Rest, GH!Page
<1>2. /\ IsSeq(d) /\ d # <<>>
      /\ d = IF pull THEN <<c, r, w>> ELSE <<c>>
  BY DiscussionParts
<1>3. IsSeq(<<q>>) /\ Len(<<q>>) = 1 /\ <<q>>[1] = q
  BY Short
<1> HIDE DEF c, r, w, q, d
<1>4. /\ IsSeq(x) /\ Len(x) = 1 + Len(d) /\ x[1] = q
      /\ \A i \in 1..Len(d) : x[1 + i] = d[i]
  BY <1>2, <1>3, Joined
<1> HIDE DEF x
<1>5. DOMAIN d = 1..Len(d) /\ DOMAIN x = 1..Len(x)
  BY <1>2, <1>4, SeqParts
<1>6. CASE pull
  <2>1. Len(d) = 3 /\ d[1] = c /\ d[2] = r /\ d[3] = w
    BY <1>2, <1>6
  <2>2. DOMAIN d = {1, 2, 3}
    BY <1>5, <2>1
  <2>3. Len(x) = 4 /\ x[1] = q /\ x[2] = c /\ x[3] = r /\ x[4] = w
    BY <1>4, <2>1
  <2>4. DOMAIN x = {1, 2, 3, 4}
    BY <1>5, <2>3
  <2>5. GoodCourse(d)
    BY <1>1, <1>6, <2>1, <2>2 DEF GoodCourse, IsInjective
  <2>6. GoodCourse(x)
    BY <1>1, <1>6, <2>3, <2>4 DEF GoodCourse, IsInjective
  <2> QED BY <2>5, <2>6 DEF x, d, q
<1>7. CASE ~pull
  <2>1. Len(d) = 1 /\ d[1] = c
    BY <1>2, <1>7
  <2>2. DOMAIN d = {1}
    BY <1>5, <2>1
  <2>3. Len(x) = 2 /\ x[1] = q /\ x[2] = c
    BY <1>4, <2>1
  <2>4. DOMAIN x = {1, 2}
    BY <1>5, <2>3
  <2>5. GoodCourse(d)
    BY <1>1, <2>1, <2>2 DEF GoodCourse, IsInjective
  <2>6. GoodCourse(x)
    BY <1>1, <2>3, <2>4 DEF GoodCourse, IsInjective
  <2> QED BY <2>5, <2>6 DEF x, d, q
<1> QED BY <1>6, <1>7

\* The number of kids that a follow on Hacker News asks for.
Bound(o) == IF Len(o.kids) < HnLimit THEN Len(o.kids) ELSE HnLimit

LEMMA ChildrenParts ==
  ASSUME SoundObjects, NEW o \in Objects, o.source = HN!Id
  PROVE  /\ Bound(o) \in Nat /\ Bound(o) <= Len(o.kids)
         /\ \A i, j \in 1..Len(o.kids) : o.kids[i] = o.kids[j] => i = j
         /\ IsSeq(HN!Children(o)) /\ Len(HN!Children(o)) = Bound(o)
         /\ \A i \in 1..Bound(o) : HN!Children(o)[i] = HN!Get("item", o.kids[i])
<1> DEFINE n == Bound(o)
           kids == o.kids
           ch == [i \in 1..n |-> HN!Get("item", kids[i])]
           T == {HN!Get("item", kids[i]) : i \in 1..n}
<1>1. kids \in Seq(ToSet(kids)) /\ IsInjective(kids)
  BY DEF SoundObjects
<1>2. n \in Nat /\ n <= Len(kids)
  BY <1>1, CallsAssumption DEF Bound
<1>3. \A i, j \in 1..Len(kids) : kids[i] = kids[j] => i = j
  BY <1>1 DEF IsInjective
<1>4. HN!Children(o) = ch
  BY DEF HN!Children, Bound
<1> HIDE DEF n
<1>5. ch \in Seq(T) /\ Len(ch) = n /\ \A i \in 1..n : ch[i] = HN!Get("item", kids[i])
  <2>1. \A i \in 1..n : HN!Get("item", kids[i]) \in T
    OBVIOUS
  <2> HIDE DEF T
  <2> QED BY <1>2, <2>1
<1> HIDE DEF ch, T
<1>6. IsSeq(ch)
  BY <1>5 DEF IsSeq
<1> QED BY <1>2, <1>3, <1>4, <1>5, <1>6 DEF n

LEMMA ChildrenCourse ==
  ASSUME SoundObjects, NEW o \in Objects, o.source = HN!Id, NEW id
  PROVE  GoodCourse(<<HN!Get("kids", id)>> \o HN!Children(o))
<1> DEFINE q == HN!Get("kids", id)
           d == HN!Children(o)
           n == Bound(o)
           x == <<q>> \o d
           kids == o.kids
<1>1. q.what = "kids" /\ \A k : HN!Get("item", k).what = "item" /\ HN!Get("item", k).of = k
  BY DEF HN!Get
<1>2. /\ n \in Nat /\ n <= Len(kids) /\ IsSeq(d) /\ Len(d) = n
      /\ \A i, j \in 1..Len(kids) : kids[i] = kids[j] => i = j
      /\ \A i \in 1..n : d[i] = HN!Get("item", kids[i])
  BY ChildrenParts
<1>3. IsSeq(<<q>>) /\ Len(<<q>>) = 1 /\ <<q>>[1] = q
  BY Short
<1> HIDE DEF q, d, n
<1>4. /\ IsSeq(x) /\ Len(x) = 1 + Len(d) /\ x[1] = q
      /\ \A i \in 1..Len(d) : x[1 + i] = d[i]
  BY <1>2, <1>3, Joined
<1> HIDE DEF x
<1>5. DOMAIN x = 1..(1 + n)
  BY <1>2, <1>4, SeqParts
<1>6. Len(kids) \in Nat
  <2>1. kids \in Seq(ToSet(kids))
    BY DEF SoundObjects
  <2> QED BY <2>1
<1> HIDE DEF kids
<1>7. \A i \in 2..(1 + n) : x[i] = HN!Get("item", kids[i - 1])
  <2> TAKE i \in 2..(1 + n)
  <2> DEFINE j == i - 1
  <2>1. j \in 1..n /\ 1 + j = i
    BY <1>2
  <2> HIDE DEF j
  <2>2. x[i] = HN!Get("item", kids[j])
    BY <1>2, <1>4, <2>1
  <2> QED BY <2>2 DEF j
<1>8. \A i \in 2..(1 + n) : x[i].what = "item" /\ x[i].of = kids[i - 1]
  BY <1>1, <1>7
<1>9. x[1].what = "kids"
  BY <1>1, <1>4
<1>10. ASSUME NEW i \in 1..(1 + n), NEW j \in 1..(1 + n), x[i] = x[j] PROVE i = j
  <2>1. CASE i = 1
    <3>1. x[j].what = "kids"
      BY <1>9, <1>10, <2>1
    <3>2. j \notin 2..(1 + n)
      BY <1>8, <3>1
    <3> QED BY <1>2, <2>1, <3>2
  <2>2. CASE j = 1
    <3>1. x[i].what = "kids"
      BY <1>9, <1>10, <2>2
    <3>2. i \notin 2..(1 + n)
      BY <1>8, <3>1
    <3> QED BY <1>2, <2>2, <3>2
  <2>3. CASE i # 1 /\ j # 1
    <3>1. i \in 2..(1 + n) /\ j \in 2..(1 + n)
      BY <1>2, <2>3
    <3>2. kids[i - 1] = kids[j - 1]
      BY <1>8, <1>10, <3>1
    <3>3. i - 1 \in 1..Len(kids) /\ j - 1 \in 1..Len(kids)
      BY <1>2, <1>6, <3>1
    <3>4. i - 1 = j - 1
      BY <1>2, <3>2, <3>3
    <3> QED BY <1>2, <3>1, <3>4
  <2> QED BY <2>1, <2>2, <2>3
<1>11. \A i \in 1..(1 + n) : x[i].what \in {"kids", "item"}
  <2> TAKE i \in 1..(1 + n)
  <2>1. i = 1 \/ i \in 2..(1 + n)
    BY <1>2
  <2> QED BY <1>8, <1>9, <2>1
<1>12. GoodCourse(x)
  BY <1>5, <1>10, <1>11 DEF GoodCourse, IsInjective
<1> QED BY <1>12 DEF x, q, d

\* What has been sent is the beginning of the course.
LEMMA SentIsBegun ==
  ASSUME NEW call, IsCall(call), call.todo # <<>>, GoodCourse(Course(call))
  PROVE  GoodCourse(call.sent)
<1> DEFINE a == call.sent
           t == Tail(call.todo)
           x == a \o t
<1>1. IsSeq(a) /\ IsSeq(t)
  BY SeqParts DEF IsCall
<1>2. x = Course(call)
  BY DEF Course
<1> HIDE DEF a, t
<1>3. /\ IsSeq(x) /\ Len(x) = Len(a) + Len(t) /\ \A i \in 1..Len(a) : x[i] = a[i]
  BY <1>1, Joined
<1> HIDE DEF x
<1>4. /\ DOMAIN a = 1..Len(a) /\ DOMAIN x = 1..Len(x) /\ Len(a) \in Nat /\ Len(t) \in Nat
  BY <1>1, <1>3, SeqParts
<1>5. \A i \in DOMAIN a : i \in DOMAIN x /\ x[i] = a[i]
  BY <1>3, <1>4
<1>6. GoodCourse(x)
  BY <1>2
<1>7. GoodCourse(a)
  BY <1>5, <1>6 DEF GoodCourse, IsInjective
<1> QED BY <1>7 DEF a

-----------------------------------------------------------------------------
(* What a follow has and what it still asks for *)

\* GitHub is asked first whether the number is that of a pull request.
GhAsks(call) ==
  LET target == GH!FromTarget(call.arg)
  IN /\ target.kind = "issue" /\ target.class = None
     /\ call.todo = <<GH!Rest("is-pull", GH!Thread(target))>>
     /\ call.sent = call.todo /\ call.got = <<>>

\* What has come and what is asked for are the first pages of the thread.
GhReads(call) ==
  /\ \A i \in 1..Len(call.todo) : call.todo[i].what \in ReplyRequests
  /\ Yielded(call) \cup RecordsOf(Due(call.todo))
       = RecordsOf(FirstPages(ThreadOf(GH!FromTarget(call.arg))))

\* Hacker News is asked for the kids of an item.
HnAsks(call) ==
  /\ call.todo = <<HN!Get("kids", HN!TargetId(call.arg))>>
  /\ call.sent = call.todo /\ call.got = <<>>

\* There is an outcome for each of the first kids, and a request for each other.
HnReads(call) ==
  \E o \in Objects :
    /\ o.source = HN!Id /\ o.name = HN!TargetId(call.arg)
    /\ Len(call.got) + Len(call.todo) = Bound(o)
    /\ \A i \in 1..Len(call.got) :
         call.got[i].class = None => call.got[i].record.id = <<HN!Id, o.kids[i]>>
    /\ \A j \in 1..Len(call.todo) : call.todo[j] = HN!Get("item", o.kids[Len(call.got) + j])
    /\ call.st = "waiting" => Len(call.sent) > 1

OneFailure(call) == Len(call.got) = 1 /\ call.got[1].class # None

FollowOK(s, call) ==
  call.op = "follow" =>
    /\ call.st # "waiting" => call.sent = <<>> /\ call.todo = <<>>
    /\ call.st = "done" =>
         \/ OneFailure(call)
         \/ (s = GH!Id => GhReads(call)) /\ (s = HN!Id => HnReads(call))
    /\ call.st = "waiting" =>
         /\ s # WB!Id /\ GoodCourse(Course(call))
         /\ s = GH!Id => /\ RightAddress(GH!FromTarget(call.arg))
                         /\ GhAsks(call) \/ GhReads(call)
         /\ s = HN!Id => HnAsks(call) \/ HnReads(call)

FollowInv == ClosedInv /\ \A c \in Calls : FollowOK(source.id, calls[c])

\* The first request is the beginning of the course, the others its rest.
LEMMA FirstCourse ==
  ASSUME NEW call, IsSeq(call.todo), call.todo # <<>>, call.sent = <<Head(call.todo)>>
  PROVE  Course(call) = call.todo
<1> DEFINE e == <<>>
           b == call.todo
           x == Head(b)
           t == Tail(b)
<1>1. IsSeq(e) /\ IsSeq(b) /\ b # <<>>
  BY Short
<1>2. Append(e, x) = <<x>>
  OBVIOUS
<1> HIDE DEF e
<1>3. Append(e, Head(b)) \o Tail(b) = e \o b
  <2> HIDE DEF b
  <2> QED BY <1>1, HeadOver
<1>4. e \o b = b
  <2> HIDE DEF b
  <2>1. e = <<>>
    BY DEF e
  <2> QED BY <1>1, <2>1, Joined
<1>5. Course(call) = <<x>> \o t
  BY DEF Course
<1>6. <<x>> \o t = b
  <2> HIDE DEF b
  <2>1. Append(e, x) \o t = b
    BY <1>3, <1>4
  <2> QED BY <1>2, <2>1
<1> QED BY <1>5, <1>6

\* The address that a caller may follow is right.
LEMMA ArgumentsAreRight ==
  ASSUME SoundObjects, RightTargets, ClosedInv, source.id = GH!Id, NEW op, op # "search",
         NEW arg \in Arguments(op), GH!FromTarget(arg).class = None
  PROVE  RightAddress(GH!FromTarget(arg))
<1>1. CASE arg \in Targets[source.id]
  BY <1>1 DEF RightTargets
<1>2. ASSUME NEW r \in Held, arg = RecordTarget(r) PROVE RightAddress(GH!FromTarget(arg))
  <2>1. GhKnown(r)
    BY <1>2, HeldAreKnown, Ids DEF Known
  <2>2. PICK o \in Objects : o.source = GH!Id /\ r = GH!RecordOf(o)
    BY <2>1 DEF GhKnown
  <2>3. r.source = GH!Id /\ r.url = o.html_url
    BY <2>2 DEF GH!RecordOf, GH!Record
  <2>4. arg.source = GH!Id /\ arg.type = "record" /\ arg.record = r
    BY <1>2, <2>3 DEF RecordTarget
  <2>5. GH!FromTarget(arg) = GH!ParseUrl(o.html_url)
    BY <2>3, <2>4 DEF GH!FromTarget
  <2> QED BY <2>2, <2>5 DEF SoundObjects, SoundOnGitHub
<1> QED BY <1>1, <1>2 DEF Arguments

\* Nothing has come.
LEMMA NothingYielded ==
  ASSUME NEW call, call.got = <<>>
  PROVE  Yielded(call) = {}
<1>1. DOMAIN call.got = {}
  OBVIOUS
<1> QED BY <1>1 DEF Yielded

LEMMA BeginsFollow ==
  ASSUME UpstreamIsHonest, ClosedInv, NEW c, NEW k, Begins(c, k)
  PROVE  FollowOK(source.id, k)
<1>1. PICK op \in Operations : \E arg \in Arguments(op) :
        IsCall(k) /\ k.op = op /\ (RefusedCall(k) \/ FirstCall(source.id, op, arg, k))
  BY DEF Begins
<1>2. PICK arg \in Arguments(op) :
        IsCall(k) /\ k.op = op /\ (RefusedCall(k) \/ FirstCall(source.id, op, arg, k))
  BY <1>1
<1>3. CASE RefusedCall(k)
  <2>1. PICK class : class # None /\ k.got = <<Failed(class)>>
    BY <1>3 DEF RefusedCall
  <2>2. OneFailure(k)
    BY <2>1, SingleFailures DEF OneFailure
  <2>3. k.st = "done" /\ k.sent = <<>> /\ k.todo = <<>>
    BY <1>3 DEF RefusedCall
  <2> QED BY <2>2, <2>3 DEF FollowOK
<1>4. ASSUME FirstCall(source.id, op, arg, k), op = "follow" PROVE FollowOK(source.id, k)
  <2>1. /\ k.st = "waiting" /\ k.got = <<>> /\ k.todo # <<>> /\ k.sent = <<Head(k.todo)>>
        /\ k.arg = arg /\ FirstOfFollow(source.id, arg, k.todo) /\ IsSeq(k.todo)
    BY <1>2, <1>4 DEF FirstCall, IsCall
  <2>2. Course(k) = k.todo
    BY <2>1, FirstCourse
  <2>3. source.id # WB!Id
    BY <2>1 DEF FirstOfFollow
  <2>4. ASSUME NEW x, k.todo = <<x>>
        PROVE  k.sent = k.todo /\ (x.what \notin {"reviews", "review-comments"} => GoodCourse(Course(k)))
    <3>1. Head(<<x>>) = x
      OBVIOUS
    <3> QED BY <2>1, <2>2, <2>4, <3>1, OneRequest
  <2>5. CASE source.id = GH!Id
    <3> DEFINE target == GH!FromTarget(arg)
               of == GH!Thread(target)
    <3>1. target.class = None /\ k.todo = GH!FollowRequests(target)
      BY <2>1, <2>5 DEF FirstOfFollow
    <3>2. IsParsed(target) /\ RightAddress(target)
      BY <1>4, <2>5, <3>1, ArgumentsParse, ArgumentsAreRight DEF UpstreamIsHonest
    <3>3. of.number = target.number
      BY DEF GH!Thread
    <3> HIDE DEF target, of
    <3>4. CASE target.kind = "issue" /\ target.pull = None
      <4>1. k.todo = <<GH!Rest("is-pull", of)>>
        BY <3>1, <3>4 DEF GH!FollowRequests, of
      <4>2. k.sent = k.todo /\ GoodCourse(Course(k))
        <5>1. GH!Rest("is-pull", of).what = "is-pull"
          BY DEF GH!Rest
        <5> QED BY <2>4, <4>1, <5>1
      <4>3. GhAsks(k)
        BY <2>1, <3>1, <3>4, <4>1, <4>2 DEF GhAsks, target, of
      <4> QED BY <2>1, <2>5, <3>2, <4>2, <4>3, Ids DEF FollowOK, target
    <3>5. CASE ~(target.kind = "issue" /\ target.pull = None)
      <4>1. Covers(k.todo, ThreadOf(target))
        BY <3>1, <3>2, <3>5, FollowCovers DEF UpstreamIsHonest
      <4>2. GhReads(k)
        <5>1. Yielded(k) = {}
          BY <2>1, NothingYielded
        <5> QED BY <2>1, <4>1, <5>1 DEF GhReads, Covers, target
      <4>3. GoodCourse(k.todo)
        <5>1. CASE target.kind = "repository"
          <6>1. k.todo = <<GH!GraphQl("repository-discussions", GH!Page(of))>>
            BY <3>1, <5>1 DEF GH!FollowRequests, of
          <6>2. GH!GraphQl("repository-discussions", GH!Page(of)).what = "repository-discussions"
            BY DEF GH!GraphQl
          <6> QED BY <2>2, <2>4, <6>1, <6>2
        <5>2. CASE target.kind = "discussion"
          <6>1. k.todo = <<GH!GraphQl("discussion-comments", GH!Page(of))>>
            BY <3>1, <5>2 DEF GH!FollowRequests, of
          <6>2. GH!GraphQl("discussion-comments", GH!Page(of)).what = "discussion-comments"
            BY DEF GH!GraphQl
          <6> QED BY <2>2, <2>4, <6>1, <6>2
        <5>3. CASE target.kind = "issue"
          <6>1. target.pull # None /\ target.pull \in BOOLEAN
            BY <3>1, <3>2, <3>5, <5>3 DEF IsParsed
          <6>2. k.todo = GH!Discussion(of, target.pull)
            BY <3>1, <5>3, <6>1 DEF GH!FollowRequests, of
          <6>3. target.pull => IsPull(of.number)
            BY <3>2, <3>3, <5>3, <6>1 DEF RightAddress
          <6> QED BY <6>1, <6>2, <6>3, DiscussionCourse
        <5> QED BY <3>1, <3>2, <5>1, <5>2, <5>3 DEF IsParsed
      <4> QED BY <2>1, <2>2, <2>5, <3>2, <4>2, <4>3, Ids DEF FollowOK, target
    <3> QED BY <3>4, <3>5
  <2>6. CASE source.id = SE!Id
    <3> DEFINE x == SE!Get("answers", SE!QuestionId(arg))
    <3>1. k.todo = <<x>>
      BY <2>1, <2>6 DEF FirstOfFollow
    <3>2. x.what = "answers"
      BY DEF SE!Get
    <3> HIDE DEF x
    <3>3. GoodCourse(Course(k))
      BY <2>4, <3>1, <3>2
    <3> QED BY <2>1, <2>3, <2>6, <3>3, Ids DEF FollowOK
  <2>7. CASE source.id = HN!Id
    <3> DEFINE x == HN!Get("kids", HN!TargetId(arg))
    <3>1. k.todo = <<x>>
      BY <2>1, <2>7 DEF FirstOfFollow
    <3>2. x.what = "kids"
      BY DEF HN!Get
    <3> HIDE DEF x
    <3>3. GoodCourse(Course(k)) /\ k.sent = k.todo
      BY <2>4, <3>1, <3>2
    <3>4. HnAsks(k)
      BY <2>1, <3>1, <3>3 DEF HnAsks, x
    <3> QED BY <2>1, <2>3, <2>7, <3>3, <3>4, Ids DEF FollowOK
  <2> QED BY <2>3, <2>5, <2>6, <2>7 DEF ClosedInv, Sources
<1>5. CASE op # "follow"
  BY <1>2, <1>5 DEF FollowOK
<1> QED BY <1>2, <1>3, <1>4, <1>5

-----------------------------------------------------------------------------
(* A follow takes an answer *)

\* A failure that ends a call is all that the call has.
LEMMA FailureEnds ==
  ASSUME NEW s, NEW call, IsCall(call), call.todo # <<>>, NEW out, IsOutcome(out),
         ~GoesOn(call, out)
  PROVE  FollowOK(s, After(call, out))
<1> DEFINE next == After(call, out)
<1>1. /\ next.todo = <<>> /\ next.st = "done" /\ next.sent = <<>>
      /\ next.got = <<Failed(out.class)>>
  BY AfterParts
<1>2. out.class # None
  BY DEF GoesOn
<1> HIDE DEF next
<1>3. OneFailure(next)
  BY <1>1, <1>2, SingleFailures DEF OneFailure
<1>4. FollowOK(s, next)
  BY <1>1, <1>3 DEF FollowOK
<1> QED BY <1>4 DEF next

\* A call that goes on without new requests keeps its course.
LEMMA CourseGoesOn ==
  ASSUME NEW call, IsCall(call), call.todo # <<>>, NEW out, IsOutcome(out),
         GoesOn(call, out), out.next = <<>>
  PROVE  LET next == After(call, out)
         IN /\ next.todo = Tail(call.todo)
            /\ next.st = IF next.todo = <<>> THEN "done" ELSE "waiting"
            /\ next.todo = <<>> => next.sent = <<>>
            /\ next.todo # <<>> =>
                 next.sent = Append(call.sent, Head(next.todo)) /\ Course(next) = Course(call)
<1> DEFINE next == After(call, out)
           e == <<>>
           t == Tail(call.todo)
           x == e \o t
<1>1. /\ next.todo = out.next \o t
      /\ next.st = IF out.next \o t = <<>> THEN "done" ELSE "waiting"
      /\ out.next \o t = <<>> => next.sent = <<>>
      /\ out.next \o t # <<>> => next.sent = Append(call.sent, Head(out.next \o t))
  BY AfterParts
<1>2. IsSeq(t) /\ IsSeq(e)
  BY SeqParts, Short DEF IsCall
<1>3. x = t
  <2> HIDE DEF t, e
  <2>1. e = <<>>
    BY DEF e
  <2> QED BY <1>2, <2>1, Joined
<1>4. out.next \o t = t
  BY <1>3
<1>5. next.todo # <<>> => Course(next) = Course(call)
  BY CourseAfter
<1> HIDE DEF next, t
<1> QED BY <1>1, <1>4, <1>5 DEF next, t

\* A call that goes on to the requests of an answer to its only request.
LEMMA CourseTurns ==
  ASSUME NEW call, IsCall(call), NEW x, call.todo = <<x>>, NEW out, IsOutcome(out),
         out.class = None
  PROVE  LET next == After(call, out)
         IN /\ next.todo = out.next
            /\ next.st = IF next.todo = <<>> THEN "done" ELSE "waiting"
            /\ next.todo = <<>> => next.sent = <<>>
            /\ next.todo # <<>> => /\ next.sent = Append(call.sent, Head(next.todo))
                                   /\ Course(next) = call.sent \o out.next
<1> DEFINE next == After(call, out)
           n == out.next
           t == Tail(call.todo)
<1>1. call.todo # <<>> /\ t = <<>> /\ IsSeq(t) /\ IsSeq(n)
  BY Short DEF IsOutcome
<1>2. GoesOn(call, out)
  BY DEF GoesOn
<1>3. /\ next.todo = n \o t
      /\ next.st = IF n \o t = <<>> THEN "done" ELSE "waiting"
      /\ n \o t = <<>> => next.sent = <<>>
      /\ n \o t # <<>> => next.sent = Append(call.sent, Head(n \o t))
  BY <1>1, <1>2, AfterParts
<1>4. next.todo # <<>> => Course(next) = call.sent \o next.todo
  BY <1>1, CourseAfter
<1> HIDE DEF next, t, n
<1>5. n \o t = n
  BY <1>1, Joined
<1> QED BY <1>3, <1>4, <1>5 DEF next, n

\* What a good answer adds to the records of a call on GitHub.
LEMMA YieldGrows ==
  ASSUME NEW call, IsCall(call), NEW next, IsCall(next), NEW items, IsSeq(items), NEW records,
         IsSeq(records), Len(records) = Len(items),
         Extended(call.got, records, next.got), SoundObjects,
         \A i \in 1..Len(items) : /\ items[i] \in Objects /\ items[i].source = GH!Id
                                  /\ records[i] = GH!RecordOf(items[i])
  PROVE  Yielded(next) = Yielded(call) \cup RecordsOf(ToSet(items))
<1> DEFINE n == Len(call.got)
           m == Len(items)
<1>1. /\ n \in Nat /\ m \in Nat /\ DOMAIN call.got = 1..n /\ DOMAIN items = 1..m
      /\ DOMAIN next.got = 1..Len(next.got)
  BY SeqParts DEF IsCall
<1>2. /\ Len(next.got) = n + m
      /\ \A i \in 1..n : next.got[i] = call.got[i]
      /\ \A i \in 1..m : next.got[n + i] = Emitted(records[i])
  BY DEF Extended
<1> HIDE DEF n
<1>3. ASSUME NEW i \in 1..m
      PROVE  next.got[n + i].class = None /\ next.got[n + i].record = GH!RecordOf(items[i])
  <2>1. ValidUrl(items[i].html_url)
    BY <1>3 DEF SoundObjects, SoundOnGitHub
  <2>2. records[i].url = items[i].html_url
    <3>1. \A o : GH!RecordOf(o).url = o.html_url
      BY DEF GH!RecordOf, GH!Record
    <3>2. records[i] = GH!RecordOf(items[i])
      BY <1>3 DEF m
    <3> QED BY <3>1, <3>2
  <2>3. next.got[n + i] = [class |-> None, record |-> records[i]]
    BY <1>2, <2>1, <2>2 DEF Emitted
  <2> QED BY <1>3, <2>3
<1>4. RecordsOf(ToSet(items)) = {GH!RecordOf(items[i]) : i \in 1..m}
  BY <1>1 DEF RecordsOf, ToSet
<1> HIDE DEF m
<1>5. ASSUME NEW r \in Yielded(next) PROVE r \in Yielded(call) \cup RecordsOf(ToSet(items))
  <2>1. PICK i \in DOMAIN next.got : next.got[i].class = None /\ r = next.got[i].record
    BY <1>5 DEF Yielded
  <2>2. CASE i \in 1..n
    BY <1>1, <1>2, <2>1, <2>2 DEF Yielded
  <2>3. CASE i \notin 1..n
    <3> DEFINE j == i - n
    <3>1. j \in 1..m /\ n + j = i
      BY <1>1, <1>2, <2>3
    <3> HIDE DEF j
    <3>2. r = GH!RecordOf(items[j])
      BY <1>3, <2>1, <3>1
    <3> QED BY <1>4, <3>1, <3>2
  <2> QED BY <2>2, <2>3
<1>6. ASSUME NEW r \in Yielded(call) PROVE r \in Yielded(next)
  <2>1. PICK i \in DOMAIN call.got : call.got[i].class = None /\ r = call.got[i].record
    BY <1>6 DEF Yielded
  <2>2. i \in DOMAIN next.got /\ next.got[i] = call.got[i]
    BY <1>1, <1>2, <2>1
  <2> QED BY <2>1, <2>2 DEF Yielded
<1>7. ASSUME NEW r \in RecordsOf(ToSet(items)) PROVE r \in Yielded(next)
  <2>1. PICK i \in 1..m : r = GH!RecordOf(items[i])
    BY <1>4, <1>7
  <2>2. n + i \in DOMAIN next.got
    BY <1>1, <1>2, <2>1
  <2> QED BY <1>3, <2>1, <2>2 DEF Yielded
<1> QED BY <1>5, <1>6, <1>7

\* A call after an outcome is for the same operation of the same target.
LEMMA SameFollow ==
  ASSUME NEW call, IsCall(call), call.todo # <<>>, NEW out, IsOutcome(out)
  PROVE  /\ IsCall(After(call, out)) /\ After(call, out).op = call.op
         /\ After(call, out).arg = call.arg
         /\ out.class = None => Extended(call.got, out.records, After(call, out).got)
  BY AfterParts

LEMMA NothingComes ==
  ASSUME NEW next, IsCall(next), NEW got, got = <<>>, NEW records, records = <<>>,
         Extended(got, records, next.got)
  PROVE  next.got = <<>>
<1>1. Len(next.got) = 0
  BY Short DEF Extended
<1>2. next.got = <<>>
  BY <1>1, SeqParts DEF IsCall
<1> QED BY <1>2

\* The answer whether it is a pull request: all requests of the discussion follow.
LEMMA GitHubTurns ==
  ASSUME UpstreamIsHonest, source.id = GH!Id, NEW call, IsCall(call), GhAsks(call),
         RightAddress(GH!FromTarget(call.arg)), NEW out, IsOutcome(out), out.class = None,
         NEW response \in Responses(GH!Id, Head(call.todo)),
         out = Answer(Head(call.todo), response)
  PROVE  FollowOK(GH!Id, After(call, out))
<1> DEFINE next == After(call, out)
           target == GH!FromTarget(call.arg)
           of == GH!Thread(target)
           x == GH!Rest("is-pull", of)
           o == response.body.items[1]
           d == GH!Discussion(of, o.pull)
<1>1. /\ target.kind = "issue" /\ call.todo = <<x>> /\ call.sent = <<x>> /\ call.got = <<>>
      /\ x.what = "is-pull" /\ x.of = of /\ of.number = target.number
  BY DEF GhAsks, GH!Rest, GH!Thread
<1>2. RightAddress(target)
  OBVIOUS
<1> HIDE DEF target, of, x
<1>3. Head(call.todo) = x /\ call.todo # <<>>
  BY <1>1
<1>4. /\ out.records = <<>> /\ out.next = d
      /\ o \in Objects /\ o.source = GH!Id /\ o.kind = "issue" /\ o.number = of.number
  <2>1. response \in Responses(GH!Id, x) /\ out = Answer(x, response)
    BY <1>3
  <2>2. x.what = "is-pull" => /\ Answer(x, response).records = <<>>
                              /\ Answer(x, response).class = None =>
                                   /\ o \in Objects /\ o.source = GH!Id
                                   /\ o.kind = "issue" /\ o.number = x.of.number
                                   /\ Answer(x, response).next = GH!Discussion(x.of, o.pull)
    BY <2>1, GitHubAnswers
  <2> HIDE DEF o
  <2> QED BY <1>1, <2>1, <2>2
<1>5. SoundOnGitHub(o)
  BY <1>4 DEF UpstreamIsHonest, SoundObjects
<1>6. o.pull \in BOOLEAN
  BY <1>4, <1>5 DEF SoundOnGitHub
<1>7. o.pull => IsPull(of.number)
  BY <1>4 DEF IsPull
<1>8. LET kinds == {r.kind : r \in Replies(of.number)}
      IN IF o.pull THEN kinds \subseteq {"issue-comment", "review", "review-comment"}
                   ELSE kinds \subseteq {"issue-comment"}
  <2>1. {r.kind : r \in Replies(of.number)}
          \subseteq {"issue-comment", "review", "review-comment"}
    BY <1>1, <1>2 DEF RightAddress
  <2>2. ~o.pull => \A r \in Replies(of.number) : r.kind = "issue-comment"
    BY <1>4, <1>5 DEF SoundOnGitHub
  <2> HIDE DEF o
  <2> QED BY <2>1, <2>2
<1> HIDE DEF o
<1>9. Covers(d, of.number) /\ IsSeq(d) /\ d # <<>>
  BY <1>6, <1>8, DiscussionCovers, DiscussionParts
<1>10. GoodCourse(<<x>> \o d)
  BY <1>6, <1>7, DiscussionCourse DEF x
<1> HIDE DEF d
<1>11. /\ next.todo = d /\ next.st = "waiting" /\ Course(next) = <<x>> \o d
  <2>1. /\ next.todo = out.next
        /\ next.st = IF next.todo = <<>> THEN "done" ELSE "waiting"
        /\ next.todo # <<>> => Course(next) = call.sent \o out.next
    BY <1>1, CourseTurns
  <2> HIDE DEF next
  <2> QED BY <1>1, <1>4, <1>9, <2>1
<1>12. IsCall(next) /\ next.arg = call.arg /\ Extended(call.got, out.records, next.got)
  BY <1>3, SameFollow
<1> HIDE DEF next
<1>13. Yielded(next) = {}
  <2>1. next.got = <<>>
    BY <1>1, <1>4, <1>12, NothingComes
  <2> QED BY <2>1, NothingYielded
<1>14. GhReads(next)
  <2>1. GH!FromTarget(next.arg) = target /\ ThreadOf(target) = of.number
    BY <1>1, <1>12 DEF ThreadOf, target
  <2> QED BY <1>9, <1>11, <1>13, <2>1 DEF GhReads, Covers
<1>15. RightAddress(GH!FromTarget(next.arg))
  BY <1>2, <1>12 DEF target
<1>16. FollowOK(GH!Id, next)
  BY <1>10, <1>11, <1>14, <1>15, Ids DEF FollowOK
<1> QED BY <1>16 DEF next

\* An answer with replies: they have come, and are no longer due.
LEMMA GitHubReads ==
  ASSUME UpstreamIsHonest, source.id = GH!Id, NEW call, IsCall(call), GhReads(call),
         call.todo # <<>>, GoodCourse(Course(call)),
         RightAddress(GH!FromTarget(call.arg)), NEW out, IsOutcome(out), out.class = None,
         NEW response \in Responses(GH!Id, Head(call.todo)),
         out = Answer(Head(call.todo), response)
  PROVE  FollowOK(GH!Id, After(call, out))
<1> DEFINE next == After(call, out)
           req == Head(call.todo)
           items == response.body.items
           t == Tail(call.todo)
           all == RecordsOf(FirstPages(ThreadOf(GH!FromTarget(call.arg))))
<1>1. /\ \A i \in 1..Len(call.todo) : call.todo[i].what \in ReplyRequests
      /\ Yielded(call) \cup RecordsOf(Due(call.todo)) = all
  BY DEF GhReads
<1>2. /\ Len(call.todo) \in Nat \ {0} /\ req = call.todo[1] /\ IsSeq(t)
      /\ Len(t) = Len(call.todo) - 1 /\ \A i \in 1..Len(t) : t[i] = call.todo[i + 1]
  BY SeqParts DEF IsCall
<1>3. Due(call.todo) = PageOf(req) \cup Due(t)
  BY DueOfTail DEF IsCall
<1> HIDE DEF req, t, all
<1>4. req.what \in ReplyRequests /\ req.what # "is-pull"
  <2>1. req.what \in ReplyRequests
    BY <1>1, <1>2
  <2> QED BY <2>1 DEF ReplyRequests
<1>5. /\ out.next = <<>> /\ IsSeq(items) /\ Len(out.records) = Len(items)
      /\ \A i \in 1..Len(items) : /\ items[i] \in Objects /\ items[i].source = GH!Id
                                  /\ out.records[i] = GH!RecordOf(items[i])
      /\ ToSet(items) = PageOf(req)
  <2>1. response \in Responses(GH!Id, req) /\ out = Answer(req, response)
    BY DEF req
  <2>2. req.what # "is-pull" =>
          /\ Answer(req, response).next = <<>>
          /\ Answer(req, response).class = None =>
               /\ IsSeq(items) /\ Len(Answer(req, response).records) = Len(items)
               /\ \A i \in 1..Len(items) :
                    /\ items[i] \in Objects /\ items[i].source = GH!Id
                    /\ Answer(req, response).records[i] = GH!RecordOf(items[i])
               /\ req.what \in ReplyRequests => ToSet(items) = PageOf(req)
    BY <2>1, GitHubAnswers
  <2> HIDE DEF items
  <2> QED BY <1>4, <2>1, <2>2
<1> HIDE DEF items
<1>6. IsCall(next) /\ next.arg = call.arg /\ Extended(call.got, out.records, next.got)
  BY SameFollow
<1>7. /\ next.todo = t
      /\ next.st = IF next.todo = <<>> THEN "done" ELSE "waiting"
      /\ next.todo = <<>> => next.sent = <<>>
      /\ next.todo # <<>> => Course(next) = Course(call)
  BY <1>5, CourseGoesOn DEF GoesOn, t
<1> HIDE DEF next
<1>8. Yielded(next) = Yielded(call) \cup RecordsOf(PageOf(req))
  <2>1. IsSeq(out.records)
    BY DEF IsOutcome
  <2>2. Yielded(next) = Yielded(call) \cup RecordsOf(ToSet(items))
    BY <1>5, <1>6, <2>1, YieldGrows DEF UpstreamIsHonest
  <2> QED BY <1>5, <2>2
<1>9. Yielded(next) \cup RecordsOf(Due(t)) = all
  <2>1. RecordsOf(PageOf(req) \cup Due(t)) = RecordsOf(PageOf(req)) \cup RecordsOf(Due(t))
    BY DEF RecordsOf
  <2> QED BY <1>1, <1>3, <1>8, <2>1
<1>10. \A i \in 1..Len(t) : t[i].what \in ReplyRequests
  <2> TAKE i \in 1..Len(t)
  <2>1. i + 1 \in 1..Len(call.todo)
    BY <1>2
  <2> QED BY <1>1, <1>2, <2>1
<1>11. GhReads(next)
  BY <1>6, <1>7, <1>9, <1>10 DEF GhReads, all
<1>12. RightAddress(GH!FromTarget(next.arg))
  BY <1>6
<1>13. CASE next.todo = <<>>
  BY <1>7, <1>11, <1>13, Ids DEF FollowOK, next
<1>14. CASE next.todo # <<>>
  <2>1. next.st = "waiting" /\ GoodCourse(Course(next))
    BY <1>7, <1>14
  <2>2. FollowOK(GH!Id, next)
    BY <1>11, <1>12, <2>1, Ids DEF FollowOK
  <2> QED BY <2>2 DEF next
<1> QED BY <1>13, <1>14

\* The item itself: the requests for its first kids follow.
LEMMA HackerNewsTurns ==
  ASSUME UpstreamIsHonest, source.id = HN!Id, NEW call, IsCall(call), HnAsks(call),
         NEW out, IsOutcome(out), out.class = None,
         NEW response \in Responses(HN!Id, Head(call.todo)),
         out = Answer(Head(call.todo), response)
  PROVE  FollowOK(HN!Id, After(call, out))
<1> DEFINE next == After(call, out)
           id == HN!TargetId(call.arg)
           x == HN!Get("kids", id)
           o == response.body.items[1]
           d == HN!Children(o)
<1>1. /\ call.todo = <<x>> /\ call.sent = <<x>> /\ call.got = <<>>
      /\ x.what = "kids" /\ x.of = id
  BY DEF HnAsks, HN!Get
<1> HIDE DEF id, x
<1>2. Head(call.todo) = x /\ call.todo # <<>>
  BY <1>1
<1>3. /\ out.records = <<>> /\ out.next = d
      /\ o \in Objects /\ o.source = HN!Id /\ o.name = id
  <2>1. response \in Responses(HN!Id, x) /\ out = Answer(x, response)
    BY <1>2
  <2>2. /\ Answer(x, response).class = None /\ x.what \in {"item", "kids"} =>
             o \in Objects /\ o.source = HN!Id /\ o.name = x.of
        /\ x.what = "kids" =>
             /\ Answer(x, response).records = <<>>
             /\ Answer(x, response).class = None => Answer(x, response).next = HN!Children(o)
    BY <2>1, HackerNewsAnswers
  <2> HIDE DEF o
  <2> QED BY <1>1, <2>1, <2>2
<1> HIDE DEF o
<1>4. SoundObjects
  BY DEF UpstreamIsHonest
<1>5. /\ IsSeq(d) /\ Len(d) = Bound(o) /\ Bound(o) \in Nat
      /\ \A i \in 1..Bound(o) : d[i] = HN!Get("item", o.kids[i])
  BY <1>3, <1>4, ChildrenParts
<1>6. GoodCourse(<<x>> \o d)
  BY <1>3, <1>4, ChildrenCourse DEF x
<1> HIDE DEF d
<1>7. /\ next.todo = d
      /\ next.st = IF next.todo = <<>> THEN "done" ELSE "waiting"
      /\ next.todo = <<>> => next.sent = <<>>
      /\ next.todo # <<>> => next.sent = Append(<<x>>, Head(d)) /\ Course(next) = <<x>> \o d
  <2>1. /\ next.todo = out.next
        /\ next.st = IF next.todo = <<>> THEN "done" ELSE "waiting"
        /\ next.todo = <<>> => next.sent = <<>>
        /\ next.todo # <<>> => /\ next.sent = Append(call.sent, Head(next.todo))
                               /\ Course(next) = call.sent \o out.next
    BY <1>1, CourseTurns
  <2> HIDE DEF next
  <2> QED BY <1>1, <1>3, <2>1
<1>8. IsCall(next) /\ next.arg = call.arg /\ Extended(call.got, out.records, next.got)
  BY <1>2, SameFollow
<1> HIDE DEF next
<1>9. next.got = <<>> /\ Len(next.got) = 0
  <2>1. next.got = <<>>
    BY <1>1, <1>3, <1>8, NothingComes
  <2> QED BY <2>1, Short
<1>10. next.todo # <<>> => Len(next.sent) > 1
  <2>1. IsSeq(<<x>>) /\ Len(<<x>>) = 1
    BY Short
  <2>2. Len(Append(<<x>>, Head(d))) = 2
    BY <2>1, Grown
  <2> QED BY <1>7, <2>2
<1>11. HnReads(next)
  <2>1. \A i \in 1..Len(next.got) :
          next.got[i].class = None => next.got[i].record.id = <<HN!Id, o.kids[i]>>
    BY <1>9
  <2>2. \A j \in 1..Len(next.todo) : next.todo[j] = HN!Get("item", o.kids[Len(next.got) + j])
    BY <1>5, <1>7, <1>9
  <2>3. Len(next.got) + Len(next.todo) = Bound(o)
    BY <1>5, <1>7, <1>9
  <2>4. o.name = HN!TargetId(next.arg)
    BY <1>3, <1>8 DEF id
  <2>5. next.st = "waiting" => Len(next.sent) > 1
    BY <1>7, <1>10
  <2> QED BY <1>3, <2>1, <2>2, <2>3, <2>4, <2>5 DEF HnReads
<1>12. FollowOK(HN!Id, next)
  BY <1>6, <1>7, <1>11, Ids DEF FollowOK
<1> QED BY <1>12 DEF next

\* The answer for a kid, or a failure in its place.
LEMMA HackerNewsReads ==
  ASSUME source.id = HN!Id, NEW call, IsCall(call), call.op = "follow", call.st = "waiting",
         HnReads(call), call.todo # <<>>, GoodCourse(Course(call)),
         NEW out, IsOutcome(out), out.next = <<>>,
         out.class = None => /\ Len(out.records) = 1
                             /\ out.records[1].id = <<HN!Id, Head(call.todo).of>>
  PROVE  FollowOK(HN!Id, After(call, out))
<1> DEFINE next == After(call, out)
           req == Head(call.todo)
           t == Tail(call.todo)
           n == Len(call.got)
<1>1. PICK o \in Objects :
        /\ o.source = HN!Id /\ o.name = HN!TargetId(call.arg)
        /\ n + Len(call.todo) = Bound(o)
        /\ \A i \in 1..n :
             call.got[i].class = None => call.got[i].record.id = <<HN!Id, o.kids[i]>>
        /\ \A j \in 1..Len(call.todo) : call.todo[j] = HN!Get("item", o.kids[n + j])
        /\ Len(call.sent) > 1
  BY DEF HnReads
<1>2. /\ Len(call.todo) \in Nat \ {0} /\ req = call.todo[1] /\ IsSeq(t)
      /\ Len(t) = Len(call.todo) - 1 /\ \A i \in 1..Len(t) : t[i] = call.todo[i + 1]
      /\ n \in Nat
  BY SeqParts DEF IsCall
<1>3. GoesOn(call, out)
  BY <1>1 DEF GoesOn, Progressive
<1>4. IsCall(next) /\ next.arg = call.arg
      /\ (out.class = None => Extended(call.got, out.records, next.got))
      /\ (out.class # None => next.got = Append(call.got, Failed(out.class)))
  <2>1. out.class # None => next.got = Append(call.got, Failed(out.class))
    BY <1>3, AfterParts
  <2> QED BY <2>1, SameFollow
<1>5. /\ next.todo = t
      /\ next.st = IF next.todo = <<>> THEN "done" ELSE "waiting"
      /\ next.todo = <<>> => next.sent = <<>>
      /\ next.todo # <<>> =>
           next.sent = Append(call.sent, Head(next.todo)) /\ Course(next) = Course(call)
  BY <1>3, CourseGoesOn DEF t
<1> HIDE DEF next, req, t, n
<1>6. req.of = o.kids[n + 1]
  <2>1. req = HN!Get("item", o.kids[n + 1])
    BY <1>1, <1>2
  <2> QED BY <2>1 DEF HN!Get
<1>7. /\ Len(next.got) = n + 1
      /\ \A i \in 1..n : next.got[i] = call.got[i]
      /\ next.got[n + 1].class = None => next.got[n + 1].record.id = <<HN!Id, o.kids[n + 1]>>
  <2>1. CASE out.class = None
    <3>1. /\ Len(next.got) = n + 1 /\ \A i \in 1..n : next.got[i] = call.got[i]
          /\ next.got[n + 1] = Emitted(out.records[1])
      <4> DEFINE m == Len(out.records)
      <4>1. /\ Len(next.got) = n + m /\ \A i \in 1..n : next.got[i] = call.got[i]
            /\ \A i \in 1..m : next.got[n + i] = Emitted(out.records[i])
        BY <1>4, <2>1 DEF Extended, n
      <4>2. m = 1
        BY <2>1
      <4> HIDE DEF m
      <4>3. 1 \in 1..m
        BY <4>2
      <4> QED BY <4>1, <4>2, <4>3
    <3>2. Emitted(out.records[1]).class = None =>
            Emitted(out.records[1]).record = out.records[1]
      BY Emissions
    <3>3. out.records[1].id = <<HN!Id, o.kids[n + 1]>>
      BY <1>6, <2>1 DEF req
    <3> QED BY <3>1, <3>2, <3>3
  <2>2. CASE out.class # None
    <3> DEFINE g == call.got
               f == Failed(out.class)
    <3>1. IsSeq(g) /\ next.got = Append(g, f) /\ n = Len(g)
      BY <1>4, <2>2 DEF IsCall, n
    <3>2. f.class # None
      BY <2>2 DEF Failed
    <3> HIDE DEF f, g
    <3>3. /\ Len(next.got) = n + 1 /\ \A i \in 1..n : next.got[i] = g[i]
          /\ next.got[n + 1] = f
      BY <3>1, Grown
    <3> QED BY <3>2, <3>3 DEF g
  <2> QED BY <2>1, <2>2
<1>8. HnReads(next)
  <2>1. ASSUME NEW i \in 1..Len(next.got), next.got[i].class = None
        PROVE  next.got[i].record.id = <<HN!Id, o.kids[i]>>
    <3>1. i \in 1..n \/ i = n + 1
      BY <1>2, <1>7
    <3> QED BY <1>1, <1>7, <2>1, <3>1
  <2>2. ASSUME NEW j \in 1..Len(next.todo)
        PROVE  next.todo[j] = HN!Get("item", o.kids[Len(next.got) + j])
    <3>1. j \in 1..Len(t) /\ j + 1 \in 1..Len(call.todo) /\ next.todo[j] = call.todo[j + 1]
      BY <1>2, <1>5
    <3>2. next.todo[j] = HN!Get("item", o.kids[n + (j + 1)])
      BY <1>1, <3>1
    <3>3. n + (j + 1) = Len(next.got) + j
      BY <1>2, <1>7, <3>1
    <3> QED BY <3>2, <3>3
  <2>3. Len(next.got) + Len(next.todo) = Bound(o)
    <3>1. Len(next.todo) = Len(call.todo) - 1
      BY <1>2, <1>5
    <3> DEFINE a == Len(next.got)
               b == Len(next.todo)
               l == Len(call.todo)
               m == Bound(o)
    <3>2. a = n + 1 /\ b = l - 1 /\ n + l = m /\ n \in Nat /\ l \in Nat
      BY <1>1, <1>2, <1>7, <3>1
    <3> HIDE DEF a, b, l, m
    <3>3. a + b = m
      BY <3>2
    <3> QED BY <3>3 DEF a, b, m
  <2>4. next.st = "waiting" => Len(next.sent) > 1
    <3>1. next.todo # <<>> => Len(next.sent) = Len(call.sent) + 1 /\ Len(call.sent) \in Nat
      <4> DEFINE a == call.sent
                 h == Head(next.todo)
      <4>1. IsSeq(a)
        BY DEF IsCall
      <4>2. next.todo # <<>> => next.sent = Append(a, h)
        BY <1>5
      <4> HIDE DEF a, h
      <4>3. Len(Append(a, h)) = Len(a) + 1 /\ Len(a) \in Nat
        BY <4>1, Grown, SeqParts
      <4> QED BY <4>2, <4>3 DEF a
    <3> QED BY <1>1, <1>5, <3>1
  <2>5. o.name = HN!TargetId(next.arg)
    BY <1>1, <1>4
  <2> QED BY <1>1, <2>1, <2>2, <2>3, <2>4, <2>5 DEF HnReads
<1>9. FollowOK(HN!Id, next)
  BY <1>5, <1>8, Ids DEF FollowOK
<1> QED BY <1>9 DEF next

-----------------------------------------------------------------------------
(* Follows are whole *)

\* The answer for a kid of a Hacker News item brings its record or nothing.
LEMMA KidAnswers ==
  ASSUME UpstreamIsHonest, source.id = HN!Id, NEW req, req.what = "item",
         NEW response \in Responses(HN!Id, req)
  PROVE  LET out == Answer(req, response)
         IN /\ out.next = <<>>
            /\ out.class = None => /\ Len(out.records) = 1
                                   /\ out.records[1].id = <<HN!Id, req.of>>
<1> DEFINE out == Answer(req, response)
           o == response.body.items[1]
<1>1. req.what # "kids" /\ req.what \in {"item", "kids"}
  OBVIOUS
<1>2. /\ out.next = <<>>
      /\ out.class = None => /\ Len(out.records) = 1 /\ out.records[1] = HN!RecordOf(o)
                             /\ o.name = req.of
  BY <1>1, HackerNewsAnswers
<1> HIDE DEF out, o
<1>3. HN!RecordOf(o).id = <<HN!Id, o.name>>
  BY DEF HN!RecordOf, HN!Record
<1> QED BY <1>2, <1>3 DEF out

LEMMA TakesFollow ==
  ASSUME UpstreamIsHonest, FollowInv, NEW c \in Calls, NEW k, Takes(c, k)
  PROVE  FollowOK(source.id, k)
<1> DEFINE call == calls[c]
           req == Head(call.todo)
<1>1. PICK out : /\ k = After(call, out)
                 /\ \/ out = Outcome("timeout", <<>>, <<>>, None)
                    \/ \E response \in Responses(source.id, req) : out = Answer(req, response)
  BY DEF Takes
<1>2. /\ IsCall(call) /\ call.todo # <<>> /\ call.st = "waiting" /\ source.id \in Sources
      /\ FollowOK(source.id, call)
  BY DEF FollowInv, ClosedInv, CallClosed, Takes
<1> HIDE DEF call
<1>3. IsOutcome(out)
  <2> HIDE DEF req
  <2>1. \A response \in Responses(source.id, req) : IsOutcome(Answer(req, response))
    BY <1>2, AnswersAreKnownRecords
  <2> QED BY <1>1, <2>1, Timeouts
<1>4. out.class = None =>
        \E response \in Responses(source.id, req) : out = Answer(req, response)
  <2> HIDE DEF req
  <2> QED BY <1>1, Timeouts
<1>5. CASE call.op # "follow"
  <2>1. k.op # "follow"
    BY <1>1, <1>2, <1>3, <1>5, SameFollow
  <2> QED BY <2>1 DEF FollowOK
<1>6. CASE ~GoesOn(call, out)
  BY <1>1, <1>2, <1>3, <1>6, FailureEnds
<1>7. ASSUME GoesOn(call, out), call.op = "follow", source.id = GH!Id
      PROVE  FollowOK(source.id, k)
  <2>1. out.class = None
    BY <1>7, Ids DEF GoesOn, Progressive
  <2>2. PICK response \in Responses(GH!Id, Head(call.todo)) : out = Answer(Head(call.todo), response)
    BY <1>4, <1>7, <2>1
  <2>3. RightAddress(GH!FromTarget(call.arg)) /\ GoodCourse(Course(call))
        /\ (GhAsks(call) \/ GhReads(call))
    BY <1>2, <1>7 DEF FollowOK
  <2>4. CASE GhAsks(call)
    BY <1>1, <1>2, <1>3, <1>7, <2>1, <2>2, <2>3, <2>4, GitHubTurns
  <2>5. CASE GhReads(call)
    BY <1>1, <1>2, <1>3, <1>7, <2>1, <2>2, <2>3, <2>5, GitHubReads
  <2> QED BY <2>3, <2>4, <2>5
<1>8. ASSUME GoesOn(call, out), call.op = "follow", source.id = SE!Id
      PROVE  FollowOK(source.id, k)
  <2>1. out.class = None
    BY <1>8, Ids DEF GoesOn, Progressive
  <2>2. out.next = <<>>
    <3> HIDE DEF req
    <3>1. PICK response \in Responses(SE!Id, req) : out = Answer(req, response)
      BY <1>4, <1>8, <2>1
    <3>2. Answer(req, response).next = <<>>
      BY <1>8, <3>1, StackAnswers
    <3> QED BY <3>1, <3>2
  <2>3. /\ k.st = IF k.todo = <<>> THEN "done" ELSE "waiting"
        /\ k.todo = <<>> => k.sent = <<>>
        /\ k.todo # <<>> => Course(k) = Course(call)
    BY <1>1, <1>2, <1>3, <1>8, <2>2, CourseGoesOn
  <2>4. GoodCourse(Course(call))
    BY <1>2, <1>8 DEF FollowOK
  <2> QED BY <1>8, <2>3, <2>4, Ids DEF FollowOK
<1>9. ASSUME GoesOn(call, out), call.op = "follow", source.id = HN!Id
      PROVE  FollowOK(source.id, k)
  <2>1. GoodCourse(Course(call)) /\ (HnAsks(call) \/ HnReads(call))
    BY <1>2, <1>9 DEF FollowOK
  <2>2. CASE HnAsks(call)
    <3>1. Len(call.sent) = 1
      BY <2>2 DEF HnAsks
    <3>2. out.class = None
      BY <1>9, <3>1 DEF GoesOn, Progressive
    <3>3. PICK response \in Responses(HN!Id, Head(call.todo)) :
            out = Answer(Head(call.todo), response)
      BY <1>4, <1>9, <3>2
    <3> QED BY <1>1, <1>2, <1>3, <1>9, <2>2, <3>2, <3>3, HackerNewsTurns
  <2>3. CASE HnReads(call)
    <3>1. req.what = "item"
      <4>1. PICK o \in Objects :
              \A j \in 1..Len(call.todo) :
                call.todo[j] = HN!Get("item", o.kids[Len(call.got) + j])
        BY <2>3 DEF HnReads
      <4>2. 1 \in 1..Len(call.todo) /\ req = call.todo[1]
        BY <1>2, SeqParts DEF IsCall
      <4> HIDE DEF req
      <4>3. req = HN!Get("item", o.kids[Len(call.got) + 1])
        BY <4>1, <4>2
      <4> QED BY <4>3 DEF HN!Get
    <3> HIDE DEF req
    <3>2. /\ out.next = <<>>
          /\ out.class = None => /\ Len(out.records) = 1
                                 /\ out.records[1].id = <<HN!Id, req.of>>
      <4>1. CASE out = Outcome("timeout", <<>>, <<>>, None)
        BY <4>1, Timeouts
      <4>2. ASSUME NEW response \in Responses(HN!Id, req), out = Answer(req, response)
            PROVE  /\ out.next = <<>>
                   /\ out.class = None => /\ Len(out.records) = 1
                                          /\ out.records[1].id = <<HN!Id, req.of>>
        BY <1>9, <3>1, <4>2, KidAnswers
      <4> QED BY <1>1, <1>9, <4>1, <4>2
    <3>3. FollowOK(HN!Id, After(call, out))
      BY <1>2, <1>3, <1>9, <2>1, <2>3, <3>2, HackerNewsReads DEF req
    <3> QED BY <1>1, <1>9, <3>3
  <2> QED BY <2>1, <2>2, <2>3
<1>10. call.op = "follow" => source.id # WB!Id
  BY <1>2 DEF FollowOK
<1> QED BY <1>2, <1>5, <1>6, <1>7, <1>8, <1>9, <1>10 DEF Sources

LEMMA FollowStart == ASSUME SourceCallsInit PROVE FollowInv
<1>1. ClosedInv /\ calls = [c \in Calls |-> Idle]
  BY ClosedStart DEF SourceCallsInit
<1>2. Idle.st = "idle" /\ Idle.sent = <<>> /\ Idle.todo = <<>>
  BY IdleParts
<1> HIDE DEF Idle
<1>3. FollowOK(source.id, Idle)
  BY <1>2 DEF FollowOK
<1> QED BY <1>1, <1>3 DEF FollowInv

LEMMA FollowStep ==
  ASSUME UpstreamIsHonest, FollowInv, [SourceCallsNext]_callVars
  PROVE  FollowInv'
<1>1. ClosedInv /\ ClosedInv'
  BY ClosedStep DEF FollowInv
<1>2. /\ source' = source
      /\ \/ calls' = calls
         \/ \E c \in Calls : \E k : /\ calls' = [calls EXCEPT ![c] = k]
                                    /\ k = Idle \/ Begins(c, k) \/ Takes(c, k)
  BY <1>1, StepCases DEF UpstreamIsHonest
<1>3. CASE calls' = calls
  BY <1>1, <1>2, <1>3 DEF FollowInv
<1>4. ASSUME NEW c \in Calls, NEW k, calls' = [calls EXCEPT ![c] = k],
             k = Idle \/ Begins(c, k) \/ Takes(c, k)
      PROVE  FollowInv'
  <2>1. FollowOK(source.id, k)
    <3>1. CASE k = Idle
      <4>1. k.st = "idle" /\ k.sent = <<>> /\ k.todo = <<>>
        BY <3>1, IdleParts
      <4> QED BY <4>1 DEF FollowOK
    <3> QED BY <1>1, <1>4, <3>1, BeginsFollow, TakesFollow
  <2>2. \A d \in Calls : calls'[d] = IF d = c THEN k ELSE calls[d]
    BY <1>1, <1>4 DEF ClosedInv
  <2>3. \A d \in Calls : FollowOK(source.id, calls'[d])
    BY <2>1, <2>2 DEF FollowInv
  <2> QED BY <1>1, <1>2, <2>3 DEF FollowInv
<1> QED BY <1>2, <1>3, <1>4

\* A follow that is done has failed as a whole or is whole.
LEMMA DoneHasPages ==
  ASSUME SoundObjects, FollowInv, NEW c \in Calls, calls[c].op = "follow", calls[c].st = "done",
         ~OneFailure(calls[c])
  PROVE  HasPages(calls[c])
<1> DEFINE call == calls[c]
<1>1. /\ call.todo = <<>> /\ IsCall(call) /\ source.id \in Sources
      /\ source.id = GH!Id => GhReads(call)
      /\ source.id = HN!Id => HnReads(call)
  BY DEF FollowInv, FollowOK, ClosedInv, CallClosed
<1> HIDE DEF call
<1>2. CASE source.id = GH!Id
  <2> DEFINE target == GH!FromTarget(call.arg)
  <2>1. Due(call.todo) = {}
    <3>1. Len(call.todo) = 0
      BY <1>1, Short
    <3> QED BY <3>1 DEF Due
  <2>2. Yielded(call) \cup RecordsOf(Due(call.todo)) = RecordsOf(FirstPages(ThreadOf(target)))
    BY <1>1, <1>2 DEF GhReads
  <2>3. RecordsOf({}) = {}
    BY DEF RecordsOf
  <2>4. Yielded(call) = RecordsOf(FirstPages(ThreadOf(target)))
    BY <2>1, <2>2, <2>3
  <2> HIDE DEF target
  <2>5. HasPages(call)
    <3> DEFINE thread == IF target.kind = "repository" THEN "repository" ELSE target.number
               all == {GH!RecordOf(o) : o \in FirstPages(thread)}
    <3>1. Yielded(call) = all
      BY <2>4 DEF RecordsOf, ThreadOf
    <3>2. source.id # HN!Id
      BY <1>2, Ids
    <3>3. HasPages(call) <=> Yielded(call) = all
      BY <1>2, <3>2, Zenon DEF HasPages, target
    <3> QED BY <3>1, <3>3
  <2> QED BY <2>5 DEF call
<1>3. CASE source.id = HN!Id
  <2>1. PICK o \in Objects :
          /\ o.source = HN!Id /\ o.name = HN!TargetId(call.arg)
          /\ Len(call.got) + Len(call.todo) = Bound(o)
          /\ \A i \in 1..Len(call.got) :
               call.got[i].class = None => call.got[i].record.id = <<HN!Id, o.kids[i]>>
    BY <1>1, <1>3 DEF HnReads
  <2>2. (CHOOSE p \in Objects : p.source = HN!Id /\ p.name = HN!TargetId(call.arg)) = o
    BY <2>1, NamedOnce
  <2>3. Len(call.got) \in Nat /\ DOMAIN call.got = 1..Len(call.got) /\ Len(call.todo) = 0
    BY <1>1, SeqParts, Short DEF IsCall
  <2>4. Len(call.got) = Bound(o)
    <3> DEFINE a == Len(call.got)
               b == Len(call.todo)
               m == Bound(o)
    <3>1. a \in Nat /\ b = 0 /\ a + b = m
      BY <2>1, <2>3
    <3> HIDE DEF a, b, m
    <3>2. a = m
      BY <3>1
    <3> QED BY <3>2 DEF a, m
  <2>5. LET kids == (CHOOSE p \in Objects : p.source = HN!Id
                                            /\ p.name = HN!TargetId(call.arg)).kids
        IN /\ Len(call.got) = (IF Len(kids) < HnLimit THEN Len(kids) ELSE HnLimit)
           /\ \A i \in DOMAIN call.got : call.got[i].class = None
                => call.got[i].record.id = <<HN!Id, kids[i]>>
    BY <2>1, <2>2, <2>3, <2>4 DEF Bound
  <2>6. HasPages(call)
    BY <1>3, <2>5, Ids DEF HasPages
  <2> QED BY <2>6 DEF call
<1>4. CASE source.id \notin {GH!Id, HN!Id}
  <2>1. HasPages(call)
    BY <1>4 DEF HasPages
  <2> QED BY <2>1 DEF call
<1> QED BY <1>2, <1>3, <1>4

LEMMA PagesFollow == ASSUME UpstreamIsHonest, FollowInv PROVE FollowPages
<1> SUFFICES ASSUME NEW c \in Calls, calls[c].op = "follow"
             PROVE  /\ calls[c].st = "done" =>
                         \/ Len(calls[c].got) = 1 /\ calls[c].got[1].class # None
                         \/ HasPages(calls[c])
                    /\ IsInjective(calls[c].sent)
                    /\ \A i \in DOMAIN calls[c].sent :
                         calls[c].sent[i].what \in {"reviews", "review-comments"} =>
                           \E o \in Objects : o.source = GH!Id /\ o.kind = "issue" /\ o.pull
                                              /\ o.number = calls[c].sent[i].of.number
  BY DEF FollowPages
<1>1. calls[c].st = "done" => \/ Len(calls[c].got) = 1 /\ calls[c].got[1].class # None
                              \/ HasPages(calls[c])
  BY DoneHasPages DEF OneFailure, UpstreamIsHonest
<1>2. GoodCourse(calls[c].sent)
  <2>1. CASE calls[c].st = "waiting"
    <3>1. IsCall(calls[c]) /\ calls[c].todo # <<>> /\ GoodCourse(Course(calls[c]))
      BY <2>1 DEF FollowInv, FollowOK, ClosedInv, CallClosed
    <3> QED BY <3>1, SentIsBegun
  <2>2. CASE calls[c].st # "waiting"
    <3>1. calls[c].sent = <<>>
      BY <2>2 DEF FollowInv, FollowOK
    <3>2. DOMAIN <<>> = {}
      OBVIOUS
    <3> QED BY <3>1, <3>2 DEF GoodCourse, IsInjective
  <2> QED BY <2>1, <2>2
<1> QED BY <1>1, <1>2 DEF GoodCourse, IsPull

\* A follow that is not one error holds the first page of every kind of reply of the
\* GitHub thread, and an outcome for each of the first kids of the Hacker News item;
\* it makes no request twice and looks up reviews for pull requests only.  This holds
\* for any size of a page, any length of a thread and any number of callers, whichever
\* requests fail, as long as upstream, when it does not fail, answers with the page
\* that was asked for.
THEOREM FollowsHoldPages == ASSUME UpstreamIsHonest PROVE SourceCallsSpec => []FollowPages
<1>1. SourceCallsInit => FollowInv
  BY FollowStart
<1>2. FollowInv /\ [SourceCallsNext]_callVars => FollowInv'
  BY FollowStep
<1>3. FollowInv => FollowPages
  BY PagesFollow
<1> QED BY <1>1, <1>2, <1>3, PTL DEF SourceCallsSpec
=============================================================================
