---------------------------- MODULE SourceCalls ----------------------------
(***************************************************************************)
(* Concurrent calls of the operations of one source, which all share its   *)
(* cooldowns: the SourceRuntime implementations of the four plugins and    *)
(* the Cooldowns of GitHub and Stack Exchange.  A call runs without a gap  *)
(* from one await of the HTTP client to the next.  The caller may pass any *)
(* record it still holds to fetch or follow, and may drop a call.          *)
(***************************************************************************)
EXTENDS SourceTypes, FiniteSets

CONSTANTS
  Calls,             \* callers, each with one call at a time
  Objects,           \* what the upstreams hold
  Content(_),        \* external: the objects that answer a request
  Faults(_, _),      \* external: the other responses a source may get
  Queries, Targets,  \* what callers ask for by themselves, per source
  DEFAULT_COOLDOWN,  \* 60
  GhLimit,           \* MAX_LIMIT of GitHub
  GhDefaultLimit,    \* its DEFAULT_LIMIT
  HnLimit,           \* MAX_LIMIT of Hacker News
  MAX_FETCH_BYTES    \* 256000

ASSUME CallsAssumption ==
  /\ None \notin ErrorClasses \cup Numerals \cup {"http", "https"}
  /\ None \notin Nat /\ None \notin BOOLEAN
  /\ DEFAULT_COOLDOWN \in Nat /\ HnLimit \in Nat
  /\ GhLimit \in Nat /\ GhDefaultLimit \in 1..GhLimit

GH == INSTANCE GitHub WITH MAX_LIMIT <- GhLimit, DEFAULT_LIMIT <- GhDefaultLimit
SE == INSTANCE StackExchange
HN == INSTANCE HackerNews WITH MAX_LIMIT <- HnLimit
WB == INSTANCE WebSource

Sources == {GH!Id, SE!Id, HN!Id, WB!Id}

VARIABLES
  source,      \* the source, and whether it has its credential
  calls,       \* the call of each caller
  cool,        \* Cooldowns.until - now in seconds, 0 when past or not set
  promised     \* history: what is left of the wait upstream asked for last, per operation

callVars == <<source, calls, cool, promised>>

\* arg is history: what a follow was asked for.
Idle == [st |-> "idle", op |-> None, arg |-> None, todo |-> <<>>, sent |-> <<>>, got |-> <<>>]

SourceCallsInit ==
  /\ source \in [id : Sources, credential : BOOLEAN]
  /\ source.id \in {SE!Id, HN!Id} => source.credential   \* they need none
  /\ calls = [c \in Calls |-> Idle]
  /\ cool = [op \in Operations |-> 0]
  /\ promised = [op \in Operations |-> 0]

\* The records of the calls that have ended: what a caller can pass on.
Yielded(call) ==
  {call.got[i].record : i \in {i \in DOMAIN call.got : call.got[i].class = None}}

Held == UNION {Yielded(calls[c]) : c \in {c \in Calls : calls[c].st = "done"}}

Arguments(op) ==
  IF op = "search" THEN Queries ELSE Targets[source.id] \cup {RecordTarget(r) : r \in Held}

Plan(op, arg) ==
  LET cooling == cool[op] > 0
      key == source.credential
  IN CASE source.id = GH!Id /\ op = "search" -> GH!SearchPlan(arg, cooling, key)
       [] source.id = GH!Id /\ op # "search" -> GH!TargetPlan(op, arg, cooling, key)
       [] source.id = SE!Id /\ op = "search" -> SE!SearchPlan(arg, cooling)
       [] source.id = SE!Id /\ op # "search" -> SE!TargetPlan(op, arg, cooling)
       [] source.id = HN!Id /\ op = "search" -> HN!SearchPlan(arg)
       [] source.id = HN!Id /\ op # "search" -> HN!TargetPlan(op, arg)
       [] source.id = WB!Id /\ op = "search" -> WB!SearchPlan(arg, key)
       [] source.id = WB!Id /\ op # "search" -> WB!TargetPlan(op, arg)

Answer(req, response) ==
  CASE source.id = GH!Id -> GH!Answer(req, response)
    [] source.id = SE!Id -> SE!Answer(req, response)
    [] source.id = HN!Id -> HN!Answer(req, response)
    [] source.id = WB!Id -> WB!Answer(req, response)

\* Mutant of SetCooldown: a cooldown that is running is kept, the new one ignored.
MutKeepLonger(op, wait) ==
  IF wait = None THEN cool ELSE [cool EXCEPT ![op] = IF @ > 0 THEN @ ELSE wait]

\* Cooldowns.set and observe_backoff: at least a second, whatever was there.
SetCooldown(op, wait) ==
  IF wait = None THEN cool
  ELSE [cool EXCEPT ![op] = IF wait > 1 THEN wait ELSE 1]

\* The seconds the wire asked for, None when it asked for no wait: a refused
\* GitHub request for its retry-after, if any; a Stack Exchange envelope that is
\* good or declares an error for its backoff; any other Stack Exchange 429 for its
\* retry-after.
Asked(response) ==
  LET body == response.body
      envelope == body.parses /\ (Success(response.status) \/ body.error # None)
  IN CASE source.id = GH!Id /\ response.status \in {403, 429} ->
            IF response.retry_after = None THEN 0 ELSE response.retry_after
       [] source.id = SE!Id /\ envelope -> body.backoff
       [] source.id = SE!Id /\ ~envelope /\ response.status = 429 -> response.retry_after
       [] OTHER -> None

\* query_from_options, target_from_options and validate_target_source: what the
\* command refuses before it asks the source.
CommandRefuses(op, arg) ==
  IF op = "search" THEN ~ValidQuery(arg) ELSE ~ValidTarget(arg) \/ arg.source # source.id

First(requests) == IF requests = <<>> THEN <<>> ELSE <<Head(requests)>>

Failed(class) == [class |-> class, record |-> None]

\* source_result_to_record and chunk_result: a record is checked once more.
Emitted(r) ==
  IF ValidUrl(r.url) THEN [class |-> None, record |-> r] ELSE Failed("serialization")

\* One call up to its first await: local checks, cooldown, the first request.
Start(c, op, arg) ==
  /\ calls[c].st = "idle"
  /\ LET plan == IF CommandRefuses(op, arg)
                 THEN Decide(<<Check(TRUE, "invalid_query")>>, <<>>) ELSE Plan(op, arg)
         refused == plan.refusal # None
     IN calls' = [calls EXCEPT ![c] =
                    [st |-> IF refused THEN "done" ELSE "waiting", op |-> op,
                     arg |-> IF op = "follow" THEN arg ELSE None,
                     todo |-> plan.requests, sent |-> First(plan.requests),
                     got |-> IF refused THEN <<Failed(plan.refusal)>> ELSE <<>>]]
  /\ UNCHANGED <<source, cool, promised>>

\* Only the children of a Hacker News item are yielded one by one; a failure
\* among them is yielded like a record.  Everywhere else the first error takes
\* the place of all records.
Progressive(call) == source.id = HN!Id /\ call.op = "follow" /\ Len(call.sent) > 1

\* The call after the response to its head request has become the outcome out.
After(call, out) ==
  LET ok == out.class = None
      goes_on == ok \/ Progressive(call)
      todo == IF goes_on THEN out.next \o Tail(call.todo) ELSE <<>>
      got == IF ok THEN call.got \o [i \in DOMAIN out.records |-> Emitted(out.records[i])]
             ELSE IF goes_on THEN Append(call.got, Failed(out.class))
             ELSE <<Failed(out.class)>>
  IN [call EXCEPT !.st = IF todo = <<>> THEN "done" ELSE "waiting",
                  !.todo = todo, !.got = got,
                  !.sent = IF todo = <<>> THEN <<>> ELSE Append(@, Head(todo))]

\* Upstream answers the request of call c.
Respond(c, response) ==
  /\ calls[c].st = "waiting"
  /\ LET op == calls[c].op
         out == Answer(Head(calls[c].todo), response)
         asked == Asked(response)
     IN /\ calls' = [calls EXCEPT ![c] = After(calls[c], out)]
        /\ cool' = SetCooldown(op, out.wait)
        /\ promised' = IF asked = None THEN promised
                       ELSE [promised EXCEPT ![op] = asked]
  /\ UNCHANGED source

\* The client fails without a response, here with a timeout: no cooldown is set.
TransportFails(c) ==
  /\ calls[c].st = "waiting"
  /\ calls' = [calls EXCEPT ![c] = After(calls[c], Outcome("timeout", <<>>, <<>>, None))]
  /\ UNCHANGED <<source, cool, promised>>

\* The caller drops the future or the stream; the request goes with it.
Drop(c) ==
  /\ calls[c].st = "waiting"
  /\ calls' = [calls EXCEPT ![c] = Idle]
  /\ UNCHANGED <<source, cool, promised>>

\* The caller is finished with what it got.
Forget(c) ==
  /\ calls[c].st = "done"
  /\ calls' = [calls EXCEPT ![c] = Idle]
  /\ UNCHANGED <<source, cool, promised>>

Less(n) == IF n > 0 THEN n - 1 ELSE 0

Tick ==
  /\ \E op \in Operations : cool[op] > 0 \/ promised[op] > 0
  /\ cool' = [op \in Operations |-> Less(cool[op])]
  /\ promised' = [op \in Operations |-> Less(promised[op])]
  /\ UNCHANGED <<source, calls>>

\* What may come back.
Responses(s, req) == Content(req) \cup Faults(s, req)

Answered(c) ==
  /\ calls[c].st = "waiting"
  /\ \E response \in Responses(source.id, Head(calls[c].todo)) : Respond(c, response)

SourceCallsNext ==
  \/ \E c \in Calls, op \in Operations : \E arg \in Arguments(op) : Start(c, op, arg)
  \/ \E c \in Calls : Answered(c)
  \/ \E c \in Calls : TransportFails(c)
  \/ \E c \in Calls : Drop(c) \/ Forget(c)
  \/ Tick

SourceCallsSpec == SourceCallsInit /\ [][SourceCallsNext]_callVars

-----------------------------------------------------------------------------
\* External: what upstreams hold and how they answer.  Behaviours are not restricted by
\* it; it is the hypothesis of the theorems about what callers get.

\* The replies in a GitHub thread, which has a number or is the repository's own.
Replies(thread) == {o \in Objects : o.source = GH!Id /\ o.reply /\ o.thread = thread}

\* Requests for the replies of one kind.
ReplyRequests ==
  {"comments", "reviews", "review-comments", "repository-discussions", "discussion-comments"}

ReplyKind(what) ==
  CASE what = "comments" -> "issue-comment"
    [] what = "reviews" -> "review"
    [] what = "review-comments" -> "review-comment"
    [] what = "repository-discussions" -> "discussion"
    [] what = "discussion-comments" -> "discussion-comment"

Requested(req) ==
  {o \in Replies(IF req.what = "repository-discussions" THEN "repository" ELSE req.of.number) :
     o.kind = ReplyKind(req.what)}

\* The first n objects of a set in the order in which GitHub lists them.
FirstOf(set, n) == {o \in set : Cardinality({p \in set : p.at < o.at}) < n}

\* What is on the page that a request asks for.
PageOf(req) == FirstOf(Requested(req), req.of.limit)

\* There is a pull request of this number.
IsPull(number) ==
  \E o \in Objects : o.source = GH!Id /\ o.kind = "issue" /\ o.pull /\ o.number = number

\* An address does not call a discussion an issue, or an issue a pull request.
RightAddress(target) ==
  LET kinds == {o.kind : o \in Replies(target.number)}
  IN /\ target.kind = "discussion" => kinds \subseteq {"discussion-comment"}
     /\ target.kind = "issue" =>
          /\ kinds \subseteq {"issue-comment", "review", "review-comment"}
          /\ target.pull = TRUE => IsPull(target.number)
          /\ target.pull = FALSE => kinds \subseteq {"issue-comment"}

\* The number of the thread a GitHub object belongs to.
ThreadNumber(o) == IF o.reply /\ o.thread # "repository" THEN o.thread ELSE o.number

\* html_url is the address of the repository or of the thread; a plain issue has no
\* reviews, and a repository no replies but discussions.
SoundOnGitHub(o) ==
  LET u == o.html_url
      p == u.path
  IN /\ ValidUrl(u) /\ u.host = "github.com" /\ GH!SafeName(p)
     /\ \/ p = <<p[1], p[2]>> /\ ThreadNumber(o) = None
        \/ /\ p = <<p[1], p[2], p[3], ThreadNumber(o)>>
           /\ p[3] \in {"issues", "pull", "discussions"} /\ GH!ValidNumber(ThreadNumber(o))
     /\ RightAddress(GH!ParseUrl(u))
     /\ o.kind = "issue" /\ ~o.pull => \A r \in Replies(o.number) : r.kind = "issue-comment"
     /\ o.kind = "issue" => o.pull \in BOOLEAN
     /\ o.at \in Nat /\ \A q \in Objects : q.source = GH!Id /\ q.at = o.at => q = o
     /\ o.reply /\ o.thread = "repository" => o.kind = "discussion"

SoundObjects ==
  /\ \A o, p \in Objects : o.source = p.source /\ o.name = p.name => o = p
  /\ \A o \in Objects : o.source = GH!Id => SoundOnGitHub(o)
  /\ \A o \in Objects : o.source = SE!Id =>
       /\ o.thread # None
       /\ o.kind = "question" => o.thread = o.name
       /\ o.kind = "answer" => o.question \in {None, o.thread}
  /\ \A o \in Objects : o.source = HN!Id =>
       o.name \in Numerals /\ o.kids \in Seq(ToSet(o.kids)) /\ IsInjective(o.kids)

\* What callers ask GitHub for by themselves.
RightTargets ==
  \A t \in Targets[GH!Id] :
    /\ t.type \in {"url", "native"}
    /\ GH!FromTarget(t).class = None => RightAddress(GH!FromTarget(t))

\* A response that is good holds what was asked for, of replies the page that was asked
\* for; all others are failures.
Honest(s, req, response) ==
  LET items == response.body.items
      held == items \in Seq({o \in Objects : o.source = s})
  IN /\ s = GH!Id /\ GH!Answer(req, response).class = None =>
          /\ held
          /\ req.what = "is-pull" =>
               items # <<>> /\ items[1].kind = "issue" /\ items[1].number = req.of.number
          /\ req.what \in ReplyRequests => ToSet(items) = PageOf(req)
     /\ s = SE!Id /\ SE!Answer(req, response).class = None =>
          /\ held
          /\ \A o \in ToSet(items) :
               IF req.what = "answers" THEN o.kind = "answer" /\ o.thread = req.of
                                       ELSE o.kind = "question"
     /\ s = HN!Id /\ HN!Answer(req, response).class = None =>
          /\ held
          /\ req.what \in {"item", "kids"} => Len(items) = 1 /\ items[1].name = req.of
     /\ s = WB!Id => items \in Seq(ToSet(items))

\* A response states a wait as a number of seconds, or none.
StatesWaits(response) ==
  {response.retry_after, response.body.backoff} \subseteq Nat \cup {None}

-----------------------------------------------------------------------------
\* Properties.

\* The kinds of replies, and the first page of each kind in a thread.
ReplyKinds == {ReplyKind(what) : what \in ReplyRequests}

FirstPage(thread, kind) == FirstOf({o \in Replies(thread) : o.kind = kind}, GhLimit)

FirstPages(thread) == UNION {FirstPage(thread, kind) : kind \in ReplyKinds}

\* The outcomes of a follow that did not fail as a whole: of a GitHub thread the
\* first page of its comments, its reviews and its review comments; of a Hacker
\* News item one outcome for each of its first kids, in their order.
HasPages(call) ==
  CASE source.id = GH!Id ->
         LET target == GH!FromTarget(call.arg)
             thread == IF target.kind = "repository" THEN "repository" ELSE target.number
         IN Yielded(call) = {GH!RecordOf(o) : o \in FirstPages(thread)}
    [] source.id = HN!Id ->
         LET kids == (CHOOSE o \in Objects : o.source = HN!Id
                                             /\ o.name = HN!TargetId(call.arg)).kids
         IN /\ Len(call.got) = (IF Len(kids) < HnLimit THEN Len(kids) ELSE HnLimit)
            /\ \A i \in DOMAIN call.got : call.got[i].class = None
                 => call.got[i].record.id = <<HN!Id, kids[i]>>
    [] OTHER -> TRUE

\* follow: a caller gets one error or the first GhLimit replies of each kind that the
\* thread has, all of them when there are no more, whatever the other calls and the
\* faults between its requests do.  A longer thread is cut without a sign (the bounded
\* page of docs/sources.md:14), and a pull request has three such pages.  No request
\* is made twice, and a plain issue never pays for review lookups (follow.rs:33).
FollowPages ==
  \A c \in Calls : calls[c].op = "follow" =>
    LET call == calls[c]
    IN /\ call.st = "done" =>
            (Len(call.got) = 1 /\ call.got[1].class # None) \/ HasPages(call)
       /\ IsInjective(call.sent)
       /\ \A i \in DOMAIN call.sent : call.sent[i].what \in {"reviews", "review-comments"} =>
            \E o \in Objects : o.source = GH!Id /\ o.kind = "issue" /\ o.pull
                               /\ o.number = call.sent[i].of.number

\* Every record that search, fetch or follow of GitHub, Stack Exchange or Hacker
\* News yields leads back: fetching it is not refused for its address, and asks
\* for the object it is or for the thread it belongs to, even when the upstream
\* left out its node id, its link or its question.
ThreadClosed ==
  \A r \in Held : source.id # WB!Id =>
    LET o == CHOOSE o \in Objects : o.source = source.id /\ o.name = Last(r.id)
        plan == CASE source.id = GH!Id -> GH!TargetPlan("fetch", RecordTarget(r), FALSE, TRUE)
                  [] source.id = SE!Id -> SE!TargetPlan("fetch", RecordTarget(r), FALSE)
                  [] source.id = HN!Id -> HN!TargetPlan("fetch", RecordTarget(r))
    IN /\ plan.refusal = None
       /\ IF source.id = GH!Id
            THEN plan.requests[1].of.number = (IF o.reply /\ o.thread # "repository"
                                                 THEN o.thread ELSE o.number)
            ELSE plan.requests[1].of = (IF source.id = SE!Id THEN o.thread ELSE o.name)

\* No call is sent while the wait that upstream last asked for is running.
RefusalHonoured ==
  [][\A c \in Calls : calls[c].st = "idle" /\ calls'[c].st = "waiting"
        => promised[calls'[c].op] = 0]_callVars
=============================================================================
