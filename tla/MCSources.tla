----------------------------- MODULE MCSources -----------------------------
(***************************************************************************)
(* TLC instance of what stands between a caller and an upstream: the calls *)
(* of a source, the conformance suite, its schema check and the fetch and  *)
(* follow commands.  They share no state; a behaviour is one of one part,  *)
(* and the other parts stay in an initial state.                           *)
(***************************************************************************)
EXTENDS SourceCalls, Conformance, SchemaWalk, TargetCommands

CONSTANTS c1, c2

Callers == Permutations({c1, c2})

Path == <<"o", "r">>

GhObject(at, kind, name, number, thread, reply, pull, node, path) ==
  [source |-> "github", at |-> at, kind |-> kind, name |-> name, number |-> number,
   thread |-> thread, reply |-> reply, pull |-> pull, node |-> node,
   html_url |-> Url("github.com", Path \o path, None)]

\* The pull request and the discussion have one comment more than a page, the pull
\* request a full page of reviews, the repository and the issue less than a page.
GhObjects ==
  {GhObject(1, "repository", "r", None, None, FALSE, FALSE, FALSE, <<>>),
   GhObject(2, "issue", "p", "2", "2", FALSE, TRUE, FALSE, <<"pull", "2">>),
   GhObject(3, "issue", "i", "1", "1", FALSE, FALSE, TRUE, <<"issues", "1">>),
   GhObject(4, "discussion", "d", "3", "repository", TRUE, FALSE, TRUE, <<"discussions", "3">>),
   GhObject(5, "issue-comment", "c1", "1", "1", TRUE, FALSE, FALSE, <<"issues", "1">>),
   GhObject(6, "issue-comment", "c2", "2", "2", TRUE, FALSE, TRUE, <<"pull", "2">>),
   GhObject(7, "issue-comment", "c3", "2", "2", TRUE, FALSE, FALSE, <<"pull", "2">>),
   GhObject(8, "issue-comment", "c4", "2", "2", TRUE, FALSE, FALSE, <<"pull", "2">>),
   GhObject(9, "review", "v", "2", "2", TRUE, FALSE, TRUE, <<"pull", "2">>),
   GhObject(10, "review", "x", "2", "2", TRUE, FALSE, FALSE, <<"pull", "2">>),
   GhObject(11, "review-comment", "w", "2", "2", TRUE, FALSE, FALSE, <<"pull", "2">>),
   GhObject(12, "discussion-comment", "e1", "3", "3", TRUE, FALSE, TRUE, <<"discussions", "3">>),
   GhObject(13, "discussion-comment", "e2", "3", "3", TRUE, FALSE, TRUE, <<"discussions", "3">>),
   GhObject(14, "discussion-comment", "e3", "3", "3", TRUE, FALSE, TRUE, <<"discussions", "3">>)}

SeObject(kind, name, thread, question, link) ==
  [source |-> "stack-exchange", kind |-> kind, name |-> name, thread |-> thread,
   question |-> question, link |-> link]

SeObjects ==
  {SeObject("question", "1", "1", None, Url("stackoverflow.com", <<"questions", "1">>, None)),
   SeObject("answer", "2", "1", None, None),
   SeObject("answer", "3", "1", "1", Url("stackoverflow.com", <<"a", "3">>, None))}

HnObject(kind, name, kids) ==
  [source |-> "hacker-news", kind |-> kind, name |-> name, kids |-> kids]

\* Item 5 is gone: Firebase answers null.
HnObjects ==
  {HnObject("story", "1", <<"2", "5", "3">>), HnObject("comment", "2", <<"3">>),
   HnObject("comment", "3", <<>>)}

World == GhObjects \cup SeObjects \cup HnObjects

Pages == {Url("example.com", <<"p">>, None), Url("private-v4", <<>>, None)}

Good == [parses |-> TRUE, error |-> None, data |-> "good", backoff |-> None,
         length |-> 0, items |-> <<>>]

Ok(items) == [status |-> 200, retry_after |-> None, body |-> [Good EXCEPT !.items = items]]

\* The objects in the order of a fixed choice.
Listed(set) == SetToSeq(set)

GhKinds(what) ==
  CASE what \in {"issues", "issue", "is-pull"} -> {"issue"}
    [] what \in {"repositories", "repository"} -> {"repository"}
    [] what \in {"search-discussions", "discussion"} -> {"discussion"}
    [] what \in ReplyRequests -> {ReplyKind(what)}

\* Everything is in one repository, and any query finds it.
GhContent(req) ==
  LET any == {"issues", "repositories", "repository", "search-discussions",
              "repository-discussions"}
      found == {o \in GhObjects : /\ o.kind \in GhKinds(req.what)
                                  /\ req.what \in any \/ o.number = req.of.number}
  IN Listed(IF "limit" \in DOMAIN req.of THEN FirstOf(found, req.of.limit) ELSE found)

SeContent(req) ==
  IF req.what = "search" THEN Listed({o \in SeObjects : o.kind = "question"})
  ELSE IF req.what = "question"
    THEN Listed({o \in SeObjects : o.kind = "question" /\ o.name = req.of})
    ELSE Listed({o \in SeObjects : o.kind = "answer" /\ o.thread = req.of})

HnContent(req) ==
  IF req.what = "hits" THEN Listed(HnObjects)
  ELSE Listed({o \in HnObjects : o.name = req.of})

\* The responses that tell the truth.
Truth(req) ==
  LET items == CASE req.api \in {"rest", "graphql"} -> GhContent(req)
                 [] req.api = "stack" -> SeContent(req)
                 [] req.api = "hn" -> HnContent(req)
                 [] req.api = "web" -> Listed(Pages)
      single == req.api \in {"rest", "graphql", "hn"}
                  /\ req.what \in {"issue", "is-pull", "repository", "discussion", "item", "kids"}
  IN IF single /\ items = <<>>
       THEN IF req.api = "rest" THEN {[Ok(<<>>) EXCEPT !.status = 404]}
            ELSE {[Ok(<<>>) EXCEPT !.body.data = "null"]}
       ELSE IF req.what = "page" THEN {[Ok(<<>>) EXCEPT !.body.length = n] : n \in {1, 2}}
       ELSE {Ok(items)}

Status(n, wait) == [Ok(<<>>) EXCEPT !.status = n, !.retry_after = wait, !.body.parses = FALSE]

Envelope(n, error, backoff) ==
  [Ok(<<>>) EXCEPT !.status = n, !.body.error = error, !.body.backoff = backoff]

Common == {Status(500, None), Status(200, None)}

GhFaults(req) ==
  {Status(401, None), Status(403, None), Status(429, 1)}
    \cup (IF req.api = "rest" THEN {}
          ELSE {Envelope(200, "rate limit", None), [Ok(<<>>) EXCEPT !.body.data = "missing"]})

SeFaults ==
  {Status(429, 0), Envelope(400, "throttle_violation", None),
   Envelope(400, "throttle_violation", 2), Envelope(200, None, 0),
   [Envelope(429, None, None) EXCEPT !.retry_after = 1]}

AllFaults(src, req) ==
  Common \cup (CASE src = "github" -> GhFaults(req)
                 [] src = "stack-exchange" -> SeFaults
                 [] src = "hacker-news" -> {Status(404, None)}
                 [] src = "web" -> {Status(429, 1), Ok(<<NotAUrl>>)})

Native(path) == [hash |-> FALSE, path |-> path, number |-> None]
Hash(number) == [hash |-> TRUE, path |-> Path, number |-> number]

SeedTargets ==
  [s \in {"github", "stack-exchange", "hacker-news", "web"} |->
     CASE s = "github" -> {NativeTarget(s, id) : id \in {Native(Path), Hash("1"), Hash("2")}}
       [] s = "stack-exchange" -> {NativeTarget(s, Native(<<"1">>))}
       [] s = "hacker-news" -> {NativeTarget(s, Native(<<"1">>)), NativeTarget("web", Native(<<"1">>))}
       [] s = "web" -> {UrlTarget(s, u) : u \in Pages \cup {NotAUrl}}]

SeedQueries ==
  {Query(<<"q">>, None, None, None), Query(<<"type:repo", "q", "type:discussions">>, None, 1, None),
   Query(<<"type:repo">>, 51, BadTime, None)}

\* The upstreams of this instance are what the theorems about the sources suppose; the
\* requests are those that calls make, of every thread there is and one there is not.
Ask(apis, whats, ofs) == [api : apis, what : whats, of : ofs]

Threads == [path : {Path}, number : {None, "1", "2", "3", "4"}]

ThreadPages == {GH!Page(of) : of \in Threads}

Results == [text : {<<"q">>}, limit : 1..GhLimit]

SampleRequests ==
  [s \in Sources |->
     CASE s = "github" ->
            Ask({"rest"}, {"repository", "issue", "is-pull"}, Threads)
              \cup Ask({"graphql"}, {"discussion"}, Threads)
              \cup Ask({"rest"}, {"comments", "reviews", "review-comments"}, ThreadPages)
              \cup Ask({"graphql"}, {"discussion-comments", "repository-discussions"}, ThreadPages)
              \cup Ask({"rest"}, {"issues", "repositories"}, Results)
              \cup Ask({"graphql"}, {"search-discussions"}, Results)
       [] s = "stack-exchange" -> Ask({"stack"}, {"search", "question", "answers"}, {"1", "2", "3"})
       [] s = "hacker-news" -> Ask({"hn"}, {"hits", "item", "kids"}, {"1", "2", "3", "5"})
       [] s = "web" -> Ask({"web"}, {"results", "page"}, Pages)]

ASSUME UpstreamsAsSupposed ==
  /\ SoundObjects /\ RightTargets
  /\ \A s \in Sources : \A req \in SampleRequests[s] : \A response \in Responses(s, req) :
       Honest(s, req, response) /\ StatesWaits(response)

-----------------------------------------------------------------------------
\* The conformance suite: every kind of stream, descriptor and expectation.

Item(id) == [id |-> id, class |-> None]
Failing(class) == [id |-> "x", class |-> class]

SomeStreams ==
  {<<>>, <<Item("a"), Item("b")>>, <<Item("b"), Item("a")>>, <<Item("a"), Failing("rate_limit")>>,
   <<Item(Bad)>>, <<Failing("upstream")>>}

SomeProfiles == {{"search"}, {"search", "fetch"}, {"search", "fetch", "follow"}, {"fetch"}}

-----------------------------------------------------------------------------
\* All schema documents of three nodes with one reference.

Ref(type, path, name) == [type |-> type, path |-> path, name |-> name]

References ==
  {Ref("remote", <<>>, ""), Ref("no-string", <<>>, ""), Ref("anchor", <<>>, "a")}
    \cup {Ref("pointer", p, "") : p \in {<<"x">>, <<"y">>, <<"x", "x">>}}

Plain(kind) == [kind |-> kind, id |-> FALSE, schema |-> FALSE, anchor |-> None]

Inner ==
  {Plain("boolean"), Plain("other")}
    \cup [kind : {"object"}, id : BOOLEAN, schema : BOOLEAN, anchor : {None, "a"}]

Tree(anchor, n2, n3, up, e2, e3, at, ref) ==
  LET ns == <<[Plain("object") EXCEPT !.anchor = anchor, !.schema = TRUE], n2, n3>>
  IN [kind |-> [i \in 1..3 |-> ns[i].kind], id |-> [i \in 1..3 |-> ns[i].id],
      schema |-> [i \in 1..3 |-> ns[i].schema], anchor |-> [i \in 1..3 |-> ns[i].anchor],
      parent |-> <<0, 1, up>>, edge |-> <<"data", e2, e3>>,
      label |-> <<"", "x", IF up = 1 THEN "y" ELSE "x">>,
      ref |-> [i \in 1..3 |-> IF i = at /\ ns[i].kind = "object" THEN ref ELSE None]]

Edges == {"position", "misfit", "data"}

Trees ==
  {Tree(a, n2, n3, up, e2, e3, at, ref) :
     a \in {None, "a"}, n2 \in Inner, n3 \in Inner, up \in {1, 2}, e2 \in Edges, e3 \in Edges,
     at \in 1..3, ref \in References}

SomeDocuments == {d \in Trees : \A c \in 2..3 : d.kind[d.parent[c]] = "object"}

-----------------------------------------------------------------------------
\* Targets on stdin and in options.

Line(type) == [type |-> type, source |-> None, strict |-> FALSE]
TargetLine(s) == [Line("target") EXCEPT !.source = s]

SomeSources == [gh |-> {"fetch", "follow"}, web |-> {"fetch"}]

SomeStdin ==
  {<<>>, <<Line("blank")>>, <<Line("bad")>>,
   <<TargetLine("gh"), Line("blank"), TargetLine("gh"), TargetLine("web"), TargetLine("gh")>>,
   <<TargetLine("gh"), TargetLine("gh"), Line("bad"), TargetLine("gh")>>,
   <<TargetLine("none"), TargetLine("gh")>>}

SomeOptions ==
  {Line("none"), Line("bad"), TargetLine("gh"), TargetLine("web"), TargetLine("none"),
   [TargetLine("gh") EXCEPT !.strict = TRUE]}

-----------------------------------------------------------------------------
VARIABLE part   \* the part this behaviour is about

mcVars == <<part, callVars, suiteVars, schemaVars, targetVars>>

FirstDocument == Tree(None, Plain("boolean"), Plain("boolean"), 1, "data", "data", 1, None)

Init ==
  /\ part \in {"calls", "suite", "schema", "targets"}
  /\ part # "calls" => source = [id |-> "web", credential |-> TRUE]
  /\ SourceCallsInit
  /\ part # "suite" => /\ profile = {"fetch"} /\ contract = {}
                       /\ fixtures = [f \in {"target", "error", "cancellation", "valid"} |-> FALSE]
  /\ SuiteInit
  /\ IF part = "schema" THEN SchemaInit ELSE document = FirstDocument /\ judged = None
  /\ part # "targets" => serving = TRUE /\ lines = <<>>
  /\ TargetsInit

Next ==
  /\ UNCHANGED part
  /\ \/ /\ part = "calls" /\ SourceCallsNext
        /\ UNCHANGED <<suiteVars, schemaVars, targetVars>>
     \/ /\ part = "suite" /\ SuiteNext
        /\ UNCHANGED <<callVars, schemaVars, targetVars>>
     \/ /\ part = "schema" /\ SchemaNext
        /\ UNCHANGED <<callVars, suiteVars, targetVars>>
     \/ /\ part = "targets" /\ TargetsNext
        /\ UNCHANGED <<callVars, suiteVars, schemaVars>>

Spec == Init /\ [][Next]_mcVars
=============================================================================
