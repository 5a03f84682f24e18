---------------------------- MODULE SourceTypes ----------------------------
(***************************************************************************)
(* What the sources, the tools that wrap them and their callers share: the *)
(* values of comsat-types, and the shape of one upstream exchange.  Titles,*)
(* texts, authors and dates are left out; an identifier is a tuple of the  *)
(* parts its format string joins; a number in an address is a numeral.     *)
(***************************************************************************)
EXTENDS Integers, Sequences, SequencesExt

CONSTANT None   \* no value: an absent option, no error, no number

Operations == {"search", "fetch", "follow"}

ErrorClasses ==
  {"authentication", "authorization", "rate_limit", "invalid_query", "not_found",
   "unsupported", "upstream", "timeout", "cancelled", "protocol", "internal"}

Numerals == {"0", "1", "2", "3", "4", "5", "6", "7"}

\* What a parsed URL is asked for.  A fragment is in no answer: neither the path
\* segments nor the query of a URL hold it.
Url(host, path, id) ==
  [scheme |-> "https", creds |-> FALSE, host |-> host, path |-> path, id |-> id]

NotAUrl == [Url("", <<>>, None) EXCEPT !.scheme = None]

\* Record.metadata keeps what some source reads back; the rest is not modelled.
Record(source, id, kind, url, metadata) ==
  [source |-> source, id |-> id, kind |-> kind, url |-> url, metadata |-> metadata]

RecordTarget(r) == [type |-> "record", source |-> r.source, record |-> r]

UrlTarget(source, url) == [type |-> "url", source |-> source, url |-> url]

NativeTarget(source, id) == [type |-> "native", source |-> source, id |-> id]

Query(terms, limit, since, until) ==
  [terms |-> terms, limit |-> limit, since |-> since, until |-> until]

\* validate_url: absolute HTTP(S) with a host and without credentials.
ValidUrl(u) == u.scheme \in {"http", "https"} /\ u.host # "" /\ ~u.creds

\* A time bound that is no RFC 3339 timestamp; the others are numbers.
BadTime == -1

\* Query.validate.
ValidQuery(q) ==
  /\ q.terms # <<>>
  /\ q.limit = None \/ q.limit \in 1..1000
  /\ {q.since, q.until} \cap {BadTime} = {}
  /\ {q.since, q.until} \cap {None} = {} => q.since <= q.until

\* Target.validate, with Record.validate for a record target.
ValidTarget(t) ==
  CASE t.type = "record" -> ValidUrl(t.record.url)
    [] t.type = "url" -> ValidUrl(t.url)
    [] t.type = "native" -> t.id # None

\* The class of the first check that fails, in the order the code makes them.
FirstFailure(checks) ==
  LET failed == {i \in DOMAIN checks : checks[i].fails}
  IN IF failed = {} THEN None ELSE checks[Min(failed)].class

Check(fails, class) == [fails |-> fails, class |-> class]

\* What a source decides before its first await: a refusal, or what it sends.
Decide(checks, requests) ==
  LET class == FirstFailure(checks)
  IN [refusal |-> class, requests |-> IF class = None THEN requests ELSE <<>>]

\* What a source makes of one response: its records or an error class, the
\* requests that follow from it, the seconds of cooldown it asks for.
Outcome(class, records, next, wait) ==
  [class |-> class, records |-> IF class = None THEN records ELSE <<>>,
   next |-> IF class = None THEN next ELSE <<>>, wait |-> wait]

Success(status) == status \in 200..299
=============================================================================
