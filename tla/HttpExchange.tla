---------------------------- MODULE HttpExchange ----------------------------
(***************************************************************************)
(* One HTTP exchange of the three readers of bodies:                       *)
(*   "native"  SecureHttpClient of the CLI (comsat-cli http_client.rs),    *)
(*   "fetch"   CloudflareHttpClient of the worker (cloud_http.rs),         *)
(*   "request" read_bounded_body, the body of a request to the worker      *)
(*             (runtime_http.rs).                                          *)
(* The native client resolves the host itself, refuses it unless every     *)
(* address is public and then connects to those addresses only: the name   *)
(* may resolve to something else a moment later.  The worker's client      *)
(* holds an abort guard until it has the body.  Whoever waits for an       *)
(* exchange may drop it at any await.                                      *)
(***************************************************************************)
EXTENDS Naturals

CONSTANTS
  MaxBytes,   \* RESPONSE_LIMIT_BYTES, MAX_SOURCE_RESPONSE_BYTES or max_bytes
  MaxSize,    \* bound on the size of a body
  Addresses,  \* addresses the host may resolve to
  Public      \* those validate_public_ip accepts

ASSUME ExchangeAssumption ==
  /\ MaxBytes \in Nat
  /\ MaxSize \in Nat
  /\ Public \subseteq Addresses

VARIABLES
  reader,     \* which of the three
  phase,      \* "new", "pinned", "sent", "reading" or "done"
  dns,        \* what the host resolves to now
  pinned,     \* the addresses the client was built with
  peers,      \* addresses a connection was opened to
  armed,      \* whether dropping the exchange aborts it
  upstream,   \* "none", "open", "complete" or "aborted"
  size,       \* bytes of the body
  announced,  \* the response or request has a Content-Length
  held,       \* bytes read
  answer      \* None, or how the exchange ended

exchangeVars ==
  <<reader, phase, dns, pinned, peers, armed, upstream, size, announced, held, answer>>

Answers ==
  {"delivered", "too large", "invalid_query", "authorization", "upstream", "timeout",
   "protocol", "dropped"}

Running == "running"

ExchangeInit ==
  /\ reader \in {"native", "fetch", "request"}
  /\ phase = IF reader = "request" THEN "sent" ELSE "new"
  /\ dns \in SUBSET Addresses
  /\ pinned = {}
  /\ peers = {}
  /\ armed \in BOOLEAN /\ (armed <=> reader # "request")
  /\ upstream = IF reader = "request" THEN "open" ELSE "none"
  /\ size \in 0..MaxSize
  /\ announced \in BOOLEAN
  /\ held = 0
  /\ answer = Running

\* The exchange ends with answer a.  Dropping a reqwest response closes its
\* connection; the guard of the worker aborts the fetch unless it was disarmed;
\* the platform closes a request the worker has answered.
End(a, up) ==
  /\ phase' = "done"
  /\ answer' = a
  /\ upstream' = IF up = "open" /\ (armed \/ reader = "request") THEN "aborted" ELSE up
  /\ armed' = FALSE
  /\ UNCHANGED <<reader, dns, pinned, peers, size, announced, held>>

\* External: the name server changes its mind.
DnsChanges ==
  /\ phase \in {"new", "pinned"}
  /\ dns' \in SUBSET Addresses
  /\ UNCHANGED <<reader, phase, pinned, peers, armed, upstream, size, announced, held, answer>>

\* A URL without HTTP scheme or host, or a request that cannot be converted.
BadRequest ==
  /\ phase = "new"
  /\ End(IF reader = "native" THEN "invalid_query" ELSE "protocol", "none")

\* validate_url_target and pinned_client.
Resolve ==
  /\ phase = "new" /\ reader = "native"
  /\ IF dns = {} THEN End("upstream", "none")
     ELSE IF ~(dns \subseteq Public) THEN End("authorization", "none")
     ELSE /\ phase' = "pinned" /\ pinned' = dns
          /\ UNCHANGED <<reader, dns, peers, armed, upstream, size, announced, held, answer>>

\* Mutant of Connect: the connection resolves the host once more.
MutConnect ==
  /\ phase = "pinned"
  /\ \E a \in dns : peers' = peers \cup {a}
  /\ phase' = "sent" /\ upstream' = "open"
  /\ UNCHANGED <<reader, dns, pinned, armed, size, announced, held, answer>>

\* External: reqwest tries the addresses of resolve_to_addrs, one after another.
Connect ==
  /\ phase = "pinned"
  /\ \E a \in pinned :
       /\ peers' = peers \cup {a}
       /\ \/ phase' = "sent" /\ upstream' = "open"
          \/ UNCHANGED <<phase, upstream>>
  /\ UNCHANGED <<reader, dns, pinned, armed, size, announced, held, answer>>

\* The worker has no name resolution: the platform connects.
Fetch ==
  /\ phase = "new" /\ reader = "fetch"
  /\ phase' = "sent" /\ upstream' = "open"
  /\ UNCHANGED <<reader, dns, pinned, peers, armed, size, announced, held, answer>>

\* Mutant of Headers: the guard is disarmed once the response is there.
MutHeaders ==
  /\ phase = "sent"
  /\ phase' = "reading" /\ armed' = (reader = "native")
  /\ UNCHANGED <<reader, dns, pinned, peers, upstream, size, announced, held, answer>>

\* The status and the headers are there.  A redirect is a response like any
\* other.  check_response_length and content_length_exceeds refuse by the header;
\* the worker's client has no such check.
Headers ==
  /\ phase = "sent"
  /\ IF announced /\ size > MaxBytes /\ reader # "fetch"
     THEN End("too large", "open")
     ELSE /\ phase' = "reading"
          /\ UNCHANGED <<reader, dns, pinned, peers, armed, upstream, size, announced, held,
                         answer>>

\* Mutant of Chunk: the bytes held are compared, not those held and the new ones.
MutChunk(n) ==
  /\ phase = "reading"
  /\ n <= size - held
  /\ IF held > MaxBytes THEN End("too large", "open")
     ELSE /\ held' = held + n
          /\ UNCHANGED <<reader, phase, dns, pinned, peers, armed, upstream, size, announced,
                         answer>>

\* The body of the loops of read_response_body, read_limited_stream and
\* read_bounded_body.
Chunk(n) ==
  /\ phase = "reading"
  /\ n <= size - held
  /\ IF held + n > MaxBytes THEN End("too large", "open")
     ELSE /\ held' = held + n
          /\ UNCHANGED <<reader, phase, dns, pinned, peers, armed, upstream, size, announced,
                         answer>>

\* The stream ends and the body becomes the result: http::Response or String,
\* either of which may be refused.  The guard is disarmed before.
Finish ==
  /\ phase = "reading"
  /\ held = size
  /\ \/ End("delivered", "complete")
     \/ End("protocol", "complete")

\* A worker response that is no stream: ResponseBody::Empty, or Body and
\* checked_bytes, which looks at bytes that are there already.
WholeBody ==
  /\ phase = "reading" /\ reader = "fetch" /\ held = 0
  /\ IF size > MaxBytes THEN End("too large", "complete")
     ELSE /\ phase' = "done" /\ held' = size /\ upstream' = "complete" /\ armed' = FALSE
          /\ \/ answer' = "delivered"
             \/ answer' = "protocol"
          /\ UNCHANGED <<reader, dns, pinned, peers, size, announced>>

\* The connection fails, or HTTP_TIMEOUT or FETCH_TIMEOUT_MS is over.  The worker
\* calls every failure before the headers a timeout, and none after them.
Breaks ==
  /\ phase \in {"pinned", "sent", "reading"}
  /\ End(CASE reader = "native" -> "upstream"
           [] reader = "fetch" /\ phase = "sent" -> "timeout"
           [] OTHER -> "protocol", upstream)

\* The future is dropped: a cancelled call.  No one drops the worker's own
\* request.
Drop ==
  /\ phase \notin {"new", "done"}
  /\ reader # "request"
  /\ End("dropped", upstream)

ExchangeNext ==
  \/ DnsChanges
  \/ BadRequest
  \/ Resolve
  \/ Connect
  \/ Fetch
  \/ Headers
  \/ \E n \in 1..MaxSize : Chunk(n)
  \/ Finish
  \/ WholeBody
  \/ Breaks
  \/ Drop

ExchangeSpec == ExchangeInit /\ [][ExchangeNext]_exchangeVars

-----------------------------------------------------------------------------
(* Properties *)

\* The class of an answer, as a reader of BoundedRead gives it.
Verdict ==
  IF answer = Running THEN "reading"
  ELSE IF answer \in {"delivered", "too large"} THEN answer ELSE "failed"

BR == INSTANCE BoundedRead WITH Limit <- MaxBytes, verdict <- Verdict

\* However the bytes are cut into chunks, with or without a Content-Length, and
\* wherever the exchange breaks off, the three readers keep the promise of
\* BoundedRead: no byte beyond the limit is held, a body is handed over whole,
\* and none within the limit is called too large.
ReadsBounded == BR!ReadSpec

\* No request is left behind: once the exchange is over, delivered, refused,
\* broken or dropped at any await, the other side is not sending any more, and a
\* delivered body was not aborted.
NoRequestLeft ==
  /\ phase = "done" => upstream # "open"
  /\ answer = "delivered" => upstream = "complete"

\* A native connection goes only to addresses that were checked, even when the
\* name resolves to another one between the check and the connection.
ConnectedPublic == peers \subseteq Public

\* Types, and what the phases mean: an inductive invariant of the exchange.
ExchangeInv ==
  /\ reader \in {"native", "fetch", "request"}
  /\ phase \in {"new", "pinned", "sent", "reading", "done"}
  /\ pinned \subseteq Public /\ peers \subseteq Public
  /\ armed \in BOOLEAN /\ announced \in BOOLEAN
  /\ size \in Nat /\ held \in Nat
  /\ held <= size /\ held <= MaxBytes
  /\ answer \in Answers \cup {Running}
  /\ (phase = "done") <=> (answer # Running)
  /\ phase # "done" => armed \/ reader = "request"
  /\ phase \in {"sent", "reading"} => upstream = "open"
  /\ phase \in {"new", "pinned"} => upstream = "none"
  /\ phase = "done" => upstream \in {"none", "complete", "aborted"}
  /\ answer = "delivered" => upstream = "complete" /\ held = size
=============================================================================
