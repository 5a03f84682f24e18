---------------------------- MODULE HackerNews ----------------------------
(***************************************************************************)
(* The Hacker News source (plugins/hacker-news): search goes to Algolia,   *)
(* items come one by one from Firebase.  It has no cooldown.               *)
(***************************************************************************)
EXTENDS SourceTypes

CONSTANT MAX_LIMIT   \* 50: results of a search, children of a follow

Id == "hacker-news"

\* id_from_url: the id parameter of an item page.
IdFromUrl(u) ==
  IF u.host = "news.ycombinator.com" /\ u.id \in Numerals THEN u.id ELSE None

\* target_id: the identity of a record is read before its address.
TargetId(t) ==
  CASE t.source # Id -> None
    [] t.source = Id /\ t.type = "record" ->
         IF t.record.id[1] = Id /\ t.record.id[2] \in Numerals
           THEN t.record.id[2] ELSE IdFromUrl(t.record.url)
    [] t.source = Id /\ t.type = "url" -> IdFromUrl(t.url)
    [] t.source = Id /\ t.type = "native" ->
         IF ~t.id.hash /\ Len(t.id.path) = 1 /\ t.id.path[1] \in Numerals
           THEN t.id.path[1] ELSE None

Get(what, of) == [api |-> "hn", what |-> what, of |-> of]

Limit(q) == IF q.limit = None THEN 10 ELSE q.limit

SearchPlan(q) ==
  Decide(<<Check(Limit(q) > MAX_LIMIT, "invalid_query"),
           Check(BadTime \in {q.since, q.until}, "protocol")>>,
         <<Get("hits", [text |-> q.terms, limit |-> Limit(q),
                        from |-> q.since, to |-> q.until])>>)

\* fetch asks for the item; follow asks for it first, for its children.
TargetPlan(op, t) ==
  Decide(<<Check(TargetId(t) = None, "invalid_query")>>,
         <<Get(IF op = "fetch" THEN "item" ELSE "kids", TargetId(t))>>)

\* checked_body and parse_item: a null body is an item that was not found.
ResponseClass(req, response) ==
  FirstFailure(<<Check(response.status = 404, "not_found"),
                 Check(~Success(response.status), "upstream"),
                 Check(~response.body.parses, "protocol"),
                 Check(req.what # "hits" /\ response.body.data = "null", "not_found"),
                 Check(response.body.data # "good", "protocol")>>)

\* normalize_hit and normalize_item: both name the item by its number alone.
RecordOf(item) ==
  Record(Id, <<Id, item.name>>, item.kind,
         Url("news.ycombinator.com", <<"item">>, item.name), None)

\* follow: the first MAX_LIMIT kids, in order.
Children(item) ==
  [i \in 1..(IF Len(item.kids) < MAX_LIMIT THEN Len(item.kids) ELSE MAX_LIMIT) |->
     Get("item", item.kids[i])]

Answer(req, response) ==
  LET items == response.body.items
  IN Outcome(ResponseClass(req, response),
             IF req.what = "kids" THEN <<>> ELSE [i \in DOMAIN items |-> RecordOf(items[i])],
             IF req.what = "kids" THEN Children(items[1]) ELSE <<>>, None)
=============================================================================
