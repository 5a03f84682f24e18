--------------------------- MODULE StackExchange ---------------------------
(***************************************************************************)
(* The Stack Exchange source (plugins/stack-exchange) for one site: what it*)
(* refuses before sending, its one request, and what it makes of the       *)
(* response envelope, which carries items, a backoff and an error.         *)
(***************************************************************************)
EXTENDS SourceTypes

Id == "stack-exchange"
MAX_LIMIT == 50
Site == "stackoverflow"

\* host_matches_site, for the configured site.
SiteHost == "stackoverflow.com"

\* question_id_from_url: the segment after the first "questions" or "q".
IdFromUrl(u) ==
  LET marks == {i \in DOMAIN u.path : u.path[i] \in {"questions", "q"}}
      i == CHOOSE m \in marks : \A n \in marks : m <= n
  IN IF /\ u.host = SiteHost /\ marks # {}
        /\ i + 1 \in DOMAIN u.path /\ u.path[i + 1] \in Numerals
     THEN u.path[i + 1] ELSE None

\* Mutant of QuestionId: the address of a record comes before its metadata.
MutUrlFirst(t) ==
  CASE t.source # Id -> None
    [] t.source = Id /\ t.type = "record" -> IdFromUrl(t.record.url)
    [] t.source = Id /\ t.type = "url" -> IdFromUrl(t.url)
    [] t.source = Id /\ t.type = "native" ->
         IF ~t.id.hash /\ Len(t.id.path) = 1 /\ t.id.path[1] \in Numerals
           THEN t.id.path[1] ELSE None

\* target.rs question_id: a record's metadata is read before its address.
QuestionId(t) ==
  CASE t.source # Id -> None
    [] t.source = Id /\ t.type = "record" ->
         IF t.record.metadata # None THEN t.record.metadata ELSE IdFromUrl(t.record.url)
    [] t.source = Id /\ t.type = "url" -> IdFromUrl(t.url)
    [] t.source = Id /\ t.type = "native" ->
         IF ~t.id.hash /\ Len(t.id.path) = 1 /\ t.id.path[1] \in Numerals
           THEN t.id.path[1] ELSE None

Get(what, of) == [api |-> "stack", what |-> what, of |-> of]

Limit(q) == IF q.limit = None THEN 10 ELSE q.limit

\* search_records: the cooldown is asked before the time bounds are converted.
SearchPlan(q, cooling) ==
  Decide(<<Check(Limit(q) > MAX_LIMIT, "invalid_query"),
           Check(cooling, "rate_limit"),
           Check(BadTime \in {q.since, q.until}, "protocol")>>,
         <<Get("search", [text |-> q.terms, limit |-> Limit(q),
                          fromdate |-> q.since, todate |-> q.until])>>)

\* fetch_record and follow_records.
TargetPlan(op, t, cooling) ==
  Decide(<<Check(cooling, "rate_limit"), Check(QuestionId(t) = None, "invalid_query")>>,
         <<Get(IF op = "fetch" THEN "question" ELSE "answers", QuestionId(t))>>)

-----------------------------------------------------------------------------
\* stack_error_class: the first pattern the name contains.  The names here are
\* one of each row, and one that no row matches.
ErrorClass(error) ==
  CASE error = "throttle_violation" -> "rate_limit"
    [] error \in {"key_required", "access_token_required", "invalid_auth"} -> "authentication"
    [] error = "access_denied" -> "authorization"
    [] error \in {"bad_parameter", "no_method"} -> "invalid_query"
    [] OTHER -> "upstream"

HttpErrorClass(status) ==
  CASE status = 401 -> "authentication"
    [] status = 403 -> "authorization"
    [] status = 429 -> "rate_limit"
    [] status = 404 -> "not_found"
    [] OTHER -> "upstream"

\* parse_stack_response: an envelope that does not parse is a protocol error.
EnvelopeClass(body) ==
  FirstFailure(<<Check(~body.parses, "protocol"),
                 Check(body.error # None, ErrorClass(body.error))>>)

\* parse_http_response: an error the envelope declares wins over the status; an
\* envelope without one, or one that does not parse, leaves it to the status.
ResponseClass(response) ==
  LET declared == EnvelopeClass(response.body)
  IN IF Success(response.status) \/ declared \notin {None, "protocol"}
       THEN declared ELSE HttpErrorClass(response.status)

\* observe_backoff: the backoff of a good or an error envelope, else the
\* retry-after of a 429.  The backoff of an envelope that comes with a failed
\* status and declares no error is dropped with the envelope.
Cooldown(response) ==
  LET declared == EnvelopeClass(response.body)
  IN IF declared = "protocol" \/ (declared = None /\ ~Success(response.status))
       THEN IF response.status = 429 THEN response.retry_after ELSE None
       ELSE response.body.backoff

\* normalize_question and normalize_answer.  An answer may name no question and
\* no link; it then belongs to the question that was followed, and its address
\* is made up.
QuestionRecord(q) ==
  Record(Id, <<Id, Site, "question", q.name>>, "question", q.link, q.name)

AnswerRecord(a, followed) ==
  Record(Id, <<Id, Site, "answer", a.name>>, "answer",
         IF a.link = None THEN Url("stackoverflow.com", <<"a", a.name>>, None) ELSE a.link,
         IF a.question = None THEN followed ELSE a.question)

Answer(req, response) ==
  LET items == response.body.items
      class == ResponseClass(response)
      missing == class = None /\ req.what = "question" /\ items = <<>>
      records == [i \in DOMAIN items |->
                    IF req.what = "answers" THEN AnswerRecord(items[i], req.of)
                                            ELSE QuestionRecord(items[i])]
  IN Outcome(IF missing THEN "not_found" ELSE class,
             IF req.what = "question" THEN SubSeq(records, 1, 1) ELSE records,
             <<>>, Cooldown(response))
=============================================================================
