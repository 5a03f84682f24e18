----------------------------- MODULE WebSource -----------------------------
(***************************************************************************)
(* The web source (plugins/web): Brave search, and the fetch of one public *)
(* page behind the URL guard.  It does not follow and has no cooldown.     *)
(***************************************************************************)
EXTENDS SourceTypes

CONSTANT MAX_FETCH_BYTES   \* 256000

Id == "web"
MAX_LIMIT == 20

\* guard.rs: the hosts the guard turns away, one of each kind the code tests,
\* and the text of a host that does not parse as an address literal.
LocalDomains == {"localhost", "service.localhost"}
RejectedV4 == {"private-v4", "loopback-v4", "link-local-v4", "broadcast-v4",
               "documentation-v4", "unspecified-v4"}
RejectedV6 == {"loopback-v6", "unspecified-v6", "unique-local-v6", "link-local-v6",
               "mapped-private-v4"}

\* target_url: a native id that is no URL is the caller's error, an address in a
\* record or a URL target that does not parse is a protocol error.
TargetUrl(t) ==
  CASE t.type = "record" -> t.record.url
    [] t.type = "url" -> t.url
    [] t.type = "native" -> t.id

TargetClass(t) ==
  FirstFailure(<<Check(t.source # Id, "invalid_query"),
                 Check(TargetUrl(t).scheme = None /\ t.type = "native", "invalid_query"),
                 Check(TargetUrl(t).scheme = None, "protocol")>>)

\* validate_fetch_url.
GuardClass(u) ==
  FirstFailure(<<Check(u.creds, "invalid_query"),
                 Check(u.scheme \notin {"http", "https"}, "unsupported"),
                 Check(u.host = "", "invalid_query"),
                 Check(u.host \in LocalDomains \cup RejectedV4 \cup RejectedV6,
                       "authorization")>>)

Get(what, of) == [api |-> "web", what |-> what, of |-> of]

Limit(q) == IF q.limit = None THEN 10 ELSE q.limit

SearchPlan(q, key) ==
  Decide(<<Check(q.since # None \/ q.until # None, "unsupported"),
           Check(Limit(q) > MAX_LIMIT, "invalid_query"),
           Check(~key, "authentication")>>,
         <<Get("results", [text |-> q.terms, limit |-> Limit(q)])>>)

FetchPlan(t) ==
  LET class == TargetClass(t)
  IN IF class # None THEN Decide(<<Check(TRUE, class)>>, <<>>)
     ELSE Decide(<<Check(GuardClass(TargetUrl(t)) # None, GuardClass(TargetUrl(t)))>>,
                 <<Get("page", TargetUrl(t))>>)

TargetPlan(op, t) ==
  IF op = "fetch" THEN FetchPlan(t) ELSE Decide(<<Check(TRUE, "unsupported")>>, <<>>)

StatusClass(status) ==
  CASE status = 401 -> "authentication"
    [] status = 403 -> "authorization"
    [] status = 429 -> "rate_limit"
    [] status = 404 -> "not_found"
    [] OTHER -> "upstream"

\* normalize_result: a result whose address does not parse fails the search.
ResultRecord(u) == Record(Id, <<Id, u>>, "search-result", u, None)

\* fetch_record: the page is cut at MAX_FETCH_BYTES and says whether it was.
PageRecord(u, length) ==
  Record(Id, <<Id, u>>, "page", u,
         [fetched_bytes |-> IF length < MAX_FETCH_BYTES THEN length ELSE MAX_FETCH_BYTES,
          truncated |-> length > MAX_FETCH_BYTES])

Answer(req, response) ==
  LET body == response.body
      items == body.items
      bad == req.what = "results"
               /\ (~body.parses \/ \E i \in DOMAIN items : items[i].scheme = None)
      class == FirstFailure(<<Check(~Success(response.status), StatusClass(response.status)),
                              Check(bad, "protocol")>>)
  IN Outcome(class,
             IF req.what = "page" THEN <<PageRecord(req.of, body.length)>>
                                  ELSE [i \in DOMAIN items |-> ResultRecord(items[i])],
             <<>>, None)
=============================================================================
