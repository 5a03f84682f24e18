------------------------------- MODULE GitHub -------------------------------
(***************************************************************************)
(* The GitHub source (plugins/github): what it refuses before sending, the *)
(* requests of an operation, and what it makes of a response.  REST bodies *)
(* carry issues, comments, reviews and repositories; discussions are only  *)
(* reachable through GraphQL and a token.                                  *)
(***************************************************************************)
EXTENDS SourceTypes

CONSTANTS
  DEFAULT_COOLDOWN,  \* 60 seconds
  MAX_LIMIT,         \* 50: results of a search, and the page of a follow
  DEFAULT_LIMIT      \* 10

Id == "github"

-----------------------------------------------------------------------------
\* query.rs

Limit(q) == IF q.limit = None THEN DEFAULT_LIMIT ELSE q.limit

SelectedKind(term) ==
  CASE term \in {"type:repo", "type:repository", "type:repositories"} -> "repositories"
    [] term \in {"type:discussion", "type:discussions"} -> "discussions"
    [] OTHER -> None

DateBounds(q) ==
  (IF q.since = None THEN <<>> ELSE <<<<"created:>=", q.since>>>>)
    \o (IF q.until = None THEN <<>> ELSE <<<<"created:<=", q.until>>>>)

\* github_search: the last selector wins, and selectors leave the text.
SearchKind(q) ==
  LET selectors == SelectSeq(q.terms, LAMBDA t : SelectedKind(t) # None)
  IN IF selectors = <<>> THEN "issues" ELSE SelectedKind(Last(selectors))

SearchText(q) ==
  SelectSeq(q.terms, LAMBDA t : SelectedKind(t) = None) \o DateBounds(q)

-----------------------------------------------------------------------------
\* target.rs.  A native id is [hash |-> BOOLEAN, path |-> segments, number |-> n]:
\* the path before the last '#', and what follows it.

\* validate_segment: alphanumerics and -_. only, not empty, "." or "..".
Unsafe == {"", ".", "..", "a b"}

SafeName(path) == path[1] \notin Unsafe /\ path[2] \notin Unsafe

\* parse_number: a u64 that is not zero.
ValidNumber(n) == n \in Numerals \ {"0"}

Parsed(kind, path, number, pull) ==
  [kind |-> kind, path |-> path, number |-> number, pull |-> pull, class |-> None]

Unparsed(class) == [Parsed("nothing", <<>>, None, None) EXCEPT !.class = class]

Named(target) == IF SafeName(target.path) THEN target ELSE Unparsed("invalid_query")

Numbered(target) ==
  IF SafeName(target.path) /\ ValidNumber(target.number)
    THEN target ELSE Unparsed("invalid_query")

ParseNative(id) ==
  LET p == id.path
  IN IF id.hash
       THEN IF Len(p) = 2 THEN Numbered(Parsed("issue", p, id.number, None))
                          ELSE Unparsed("invalid_query")
       ELSE CASE Len(p) = 2 -> Named(Parsed("repository", p, None, None))
              [] Len(p) = 4 /\ p[3] = "discussions" ->
                   Numbered(Parsed("discussion", SubSeq(p, 1, 2), p[4], None))
              [] OTHER -> Unparsed("invalid_query")

ParseUrl(u) ==
  LET p == u.path
      at(kinds) == Len(p) = 4 /\ p[3] \in kinds
  IN CASE u.scheme = None -> Unparsed("protocol")
       [] u.scheme # None /\ u.host # "github.com" -> Unparsed("unsupported")
       [] u.host = "github.com" /\ Len(p) = 2 -> Named(Parsed("repository", p, None, None))
       [] u.host = "github.com" /\ at({"issues", "pull"}) ->
            Numbered(Parsed("issue", SubSeq(p, 1, 2), p[4], p[3] = "pull"))
       [] u.host = "github.com" /\ at({"discussions"}) ->
            Numbered(Parsed("discussion", SubSeq(p, 1, 2), p[4], None))
       [] OTHER -> Unparsed("unsupported")

FromTarget(t) ==
  CASE t.source # Id -> Unparsed("invalid_query")
    [] t.source = Id /\ t.type = "record" -> ParseUrl(t.record.url)
    [] t.source = Id /\ t.type = "url" -> ParseUrl(t.url)
    [] t.source = Id /\ t.type = "native" -> ParseNative(t.id)

-----------------------------------------------------------------------------
\* Requests: which endpoint, and of what.

Rest(what, of) == [api |-> "rest", what |-> what, of |-> of]
GraphQl(what, of) == [api |-> "graphql", what |-> what, of |-> of]

SearchRequest(q) ==
  LET kind == SearchKind(q)
      of == [text |-> SearchText(q), limit |-> Limit(q)]
  IN IF kind = "discussions" THEN GraphQl("search-discussions", of)
                             ELSE Rest(kind, of)

Thread(target) == [path |-> target.path, number |-> target.number]

FetchRequest(target) ==
  CASE target.kind = "repository" -> Rest("repository", Thread(target))
    [] target.kind = "issue" -> Rest("issue", Thread(target))
    [] target.kind = "discussion" -> GraphQl("discussion", Thread(target))

\* Mutant of Page: follow takes the number of results a search has by default.
MutPage(of) == [path |-> of.path, number |-> of.number, limit |-> DEFAULT_LIMIT]

\* One page of a thread, per_page in REST and first in GraphQL.  Only this one is
\* ever asked for: what a thread has beyond it is left out without a word.
Page(of) == [path |-> of.path, number |-> of.number, limit |-> MAX_LIMIT]

\* The comments of an issue, and the review discussion of a pull request: a page each.
Discussion(of, pull) ==
  <<Rest("comments", Page(of))>>
    \o (IF pull THEN <<Rest("reviews", Page(of)), Rest("review-comments", Page(of))>>
        ELSE <<>>)

\* follow_records: a native issue address does not say whether it is a pull
\* request, so GitHub is asked first.
FollowRequests(target) ==
  LET of == Thread(target)
  IN CASE target.kind = "repository" -> <<GraphQl("repository-discussions", Page(of))>>
       [] target.kind = "discussion" -> <<GraphQl("discussion-comments", Page(of))>>
       [] target.kind = "issue" /\ target.pull = None -> <<Rest("is-pull", of)>>
       [] target.kind = "issue" /\ target.pull # None -> Discussion(of, target.pull)

\* graphql: no token, no request.
NeedsToken(requests) == \E i \in DOMAIN requests : requests[i].api = "graphql"

SearchPlan(q, cooling, token) ==
  Decide(<<Check(Limit(q) > MAX_LIMIT, "invalid_query"),
           Check(cooling, "rate_limit"),
           Check(~token /\ NeedsToken(<<SearchRequest(q)>>), "authentication")>>,
         <<SearchRequest(q)>>)

TargetPlan(op, t, cooling, token) ==
  LET target == FromTarget(t)
      requests == IF target.class # None THEN <<>>
                  ELSE IF op = "fetch" THEN <<FetchRequest(target)>>
                                       ELSE FollowRequests(target)
  IN Decide(<<Check(cooling, "rate_limit"),
              Check(target.class # None, target.class),
              Check(~token /\ NeedsToken(requests), "authentication")>>, requests)

-----------------------------------------------------------------------------
\* Responses: [status, retry_after, body].  A body says whether it parses, which
\* error it declares, what data it has, and the objects in it.

StatusClass(status) ==
  CASE status = 401 -> "authentication"
    [] status \in {403, 429} -> "rate_limit"
    [] status = 404 -> "not_found"
    [] OTHER -> "upstream"

\* observe_error: only an HTTP refusal cools the operation down, DEFAULT_COOLDOWN
\* seconds when the response names no time.
Cooldown(response) ==
  IF response.status \notin {403, 429} THEN None
  ELSE IF response.retry_after = None THEN DEFAULT_COOLDOWN ELSE response.retry_after

GraphQlErrorClass(message) ==
  CASE message = "could not resolve" -> "not_found"
    [] message = "rate limit" -> "rate_limit"
    [] message \in {"credential", "permission"} -> "authentication"
    [] OTHER -> "upstream"

\* payload, nodes and node; a missing or malformed part is a protocol error, but
\* a null discussion was not found.
GraphQlClass(req, body) ==
  FirstFailure(<<Check(~body.parses, "protocol"),
                 Check(body.error # None, GraphQlErrorClass(body.error)),
                 Check(req.what = "discussion" /\ body.data \in {"null", "missing"}, "not_found"),
                 Check(body.data # "good", "protocol")>>)

\* The record identity: the node id, or a name made from the numeric one.  (A
\* discussion and its comments always have a node id.)
RecordOf(object) ==
  Record(Id,
         IF object.node THEN <<"node", object.name>> ELSE <<Id, object.kind, object.name>>,
         IF object.kind = "issue" /\ object.pull THEN "pull-request" ELSE object.kind,
         object.html_url, None)

\* rest, checked_body and the normalizers.
Answer(req, response) ==
  LET body == response.body
      class == IF ~Success(response.status) THEN StatusClass(response.status)
               ELSE IF req.api = "graphql" THEN GraphQlClass(req, body)
               ELSE IF body.parses THEN None ELSE "protocol"
      asked == req.what = "is-pull"
  IN Outcome(class,
             IF asked THEN <<>> ELSE [i \in DOMAIN body.items |-> RecordOf(body.items[i])],
             IF asked THEN Discussion(req.of, body.items[1].pull) ELSE <<>>,
             Cooldown(response))
=============================================================================
