-------------------------- MODULE Services_proofs --------------------------
(***************************************************************************)
(* Proofs about the parts that stand alone: the exchanges of the HTTP      *)
(* clients, for every limit, size and set of addresses; the database file  *)
(* of the CLI, for any number of processes and calls; the requests of the  *)
(* managed worker, for any number of requests, tenants and deployments;    *)
(* and the order in which its cron visits the tenants.                     *)
(***************************************************************************)
EXTENDS HttpExchange, CodeModeStore, WorkerRequest, TenantRotation, TLAPS

-----------------------------------------------------------------------------
(* The exchange: its inductive invariant, and BoundedRead *)

\* A step that ends the exchange keeps the invariant, if a delivered body is
\* whole and the state of the upstream is one the exchange can end in.
LEMMA EndKeepsInv ==
  ASSUME ExchangeInv, phase # "done", NEW a \in Answers, NEW up, End(a, up),
         up \in {"none", "open", "complete"},
         a = "delivered" => up = "complete" /\ held = size
  PROVE  ExchangeInv'
  BY DEF ExchangeInv, End, Answers, Running

\* Every step of the exchange keeps its inductive invariant.
LEMMA StepKeepsInv == ExchangeInv /\ [ExchangeNext]_exchangeVars => ExchangeInv'
<1> SUFFICES ASSUME ExchangeInv, [ExchangeNext]_exchangeVars PROVE ExchangeInv'
  OBVIOUS
<1> USE ExchangeAssumption
<1>1. CASE DnsChanges
  BY <1>1 DEF DnsChanges, ExchangeInv, Answers, Running
<1>2. CASE BadRequest
  BY <1>2, EndKeepsInv DEF BadRequest, Answers
<1>3. CASE Resolve
  <2>1. CASE dns = {} \/ ~(dns \subseteq Public)
    BY <1>3, <2>1, EndKeepsInv DEF Resolve, Answers
  <2>2. CASE ~(dns = {} \/ ~(dns \subseteq Public))
    BY <1>3, <2>2 DEF Resolve, ExchangeInv, Answers, Running
  <2> QED BY <2>1, <2>2
<1>4. CASE Connect
  BY <1>4 DEF Connect, ExchangeInv, Answers, Running
<1>5. CASE Fetch
  BY <1>5 DEF Fetch, ExchangeInv, Answers, Running
<1>6. CASE Headers
  <2>1. CASE announced /\ size > MaxBytes /\ reader # "fetch"
    BY <1>6, <2>1, EndKeepsInv DEF Headers, Answers
  <2>2. CASE ~(announced /\ size > MaxBytes /\ reader # "fetch")
    BY <1>6, <2>2 DEF Headers, ExchangeInv, Answers, Running
  <2> QED BY <2>1, <2>2
<1>7. ASSUME NEW n \in 1..MaxSize, Chunk(n) PROVE ExchangeInv'
  <2>1. CASE held + n > MaxBytes
    BY <1>7, <2>1, EndKeepsInv DEF Chunk, Answers
  <2>2. CASE ~(held + n > MaxBytes)
    BY <1>7, <2>2 DEF Chunk, ExchangeInv, Answers, Running
  <2> QED BY <2>1, <2>2
<1>8. CASE Finish
  BY <1>8, EndKeepsInv DEF Finish, Answers
<1>9. CASE WholeBody
  <2>1. CASE size > MaxBytes
    BY <1>9, <2>1, EndKeepsInv DEF WholeBody, Answers
  <2>2. CASE ~(size > MaxBytes)
    <3>1. /\ reader' = reader /\ pinned' = pinned /\ peers' = peers
          /\ phase' = "done" /\ upstream' = "complete"
          /\ answer' \in {"delivered", "protocol"}
      BY <1>9, <2>2 DEF WholeBody
    <3>2. announced' \in BOOLEAN /\ armed' \in BOOLEAN
      BY <1>9, <2>2 DEF WholeBody, ExchangeInv
    <3>3. held' = size' /\ size' \in Nat /\ size' <= MaxBytes
      BY <1>9, <2>2 DEF WholeBody, ExchangeInv
    <3>4. /\ reader \in {"native", "fetch", "request"}
          /\ pinned \subseteq Public /\ peers \subseteq Public
      BY DEF ExchangeInv
    <3>5. answer' \in Answers \cup {Running} /\ answer' # Running
      BY <3>1 DEF Answers, Running
    <3>6. held' \in Nat /\ held' <= size' /\ held' <= MaxBytes
      BY <3>3
    <3>7. reader' \in {"native", "fetch", "request"} /\ pinned' \subseteq Public /\ peers' \subseteq Public
      BY <3>1, <3>4
    <3> QED BY <3>1, <3>2, <3>3, <3>5, <3>6, <3>7, Zenon DEF ExchangeInv
  <2> QED BY <2>1, <2>2
<1>10. CASE Breaks
  <2> DEFINE a == CASE reader = "native" -> "upstream"
                    [] reader = "fetch" /\ phase = "sent" -> "timeout"
                    [] OTHER -> "protocol"
  <2>1. a \in Answers /\ a # "delivered"
    BY DEF Answers
  <2>2. phase # "done" /\ upstream \in {"none", "open", "complete"} /\ End(a, upstream)
    BY <1>10 DEF Breaks, ExchangeInv
  <2> QED BY <2>1, <2>2, EndKeepsInv
<1>11. CASE Drop
  <2>1. phase # "done" /\ upstream \in {"none", "open", "complete"} /\ End("dropped", upstream)
    BY <1>11 DEF Drop, ExchangeInv
  <2> QED BY <2>1, EndKeepsInv DEF Answers
<1>12. CASE UNCHANGED exchangeVars
  BY <1>12 DEF exchangeVars, ExchangeInv, Answers, Running
<1>13. CASE \E n \in 1..MaxSize : Chunk(n)
  BY <1>7, <1>13
<1>14. CASE ExchangeNext
  BY <1>1, <1>2, <1>3, <1>4, <1>5, <1>6, <1>8, <1>9, <1>10, <1>11, <1>13, <1>14, Zenon
     DEF ExchangeNext
<1> QED BY <1>12, <1>14

\* The inductive invariant holds throughout the exchange.
THEOREM ExchangeInvariant == ExchangeSpec => []ExchangeInv
<1>1. ExchangeInit => ExchangeInv
  BY ExchangeAssumption DEF ExchangeInit, ExchangeInv, Answers, Running
<1> QED BY <1>1, StepKeepsInv, PTL DEF ExchangeSpec

\* A number is in the range it begins.
LEMMA RangeBegins == ASSUME NEW h \in Nat, NEW s \in Nat, h <= s PROVE h \in h..s /\ s \in h..s
  OBVIOUS

\* A chunk of a body that is more than fits shows that the body is.
LEMMA ChunkExceeds ==
  ASSUME NEW h \in Nat, NEW s \in Nat, NEW n \in Nat, NEW m \in Nat, n <= s - h, h + n > m
  PROVE  s > m
  OBVIOUS

\* A step that ends the exchange is a step of BoundedRead.
LEMMA EndRefines ==
  ASSUME ExchangeInv, phase # "done", NEW a \in Answers, NEW up, End(a, up),
         a = "delivered" => held = size,
         a = "too large" => size > MaxBytes
  PROVE  BR!ReadNext
<1>1. Verdict = "reading" /\ held' = held /\ size' = size
  BY DEF ExchangeInv, End, Verdict
<1>2. /\ held \in Nat /\ size \in Nat /\ MaxBytes \in Nat
      /\ held <= size /\ held <= MaxBytes
  BY ExchangeAssumption DEF ExchangeInv
<1>3. CASE a = "delivered"
  <2>1. Verdict' = "delivered"
    BY <1>3 DEF End, Verdict, Running
  <2> QED BY <1>1, <1>2, <1>3, <2>1 DEF BR!ReadNext, BR!Deliver
<1>4. CASE a = "too large"
  <2>1. Verdict' = "too large"
    BY <1>4 DEF End, Verdict, Running
  <2> QED BY <1>1, <1>4, <2>1 DEF BR!ReadNext, BR!Refuse
<1>5. CASE a \notin {"delivered", "too large"}
  <2>1. Verdict' = "failed"
    BY <1>5 DEF End, Verdict, Answers, Running
  <2>2. held \in held..size
    BY <1>2, RangeBegins, Zenon
  <2>3. held' \in held..size /\ held' <= MaxBytes
    BY <1>1, <1>2, <2>2, Zenon
  <2> QED BY <1>1, <2>1, <2>3 DEF BR!ReadNext, BR!Fail
<1> QED BY <1>3, <1>4, <1>5

\* Every step of the exchange is a step of BoundedRead or a stutter.
LEMMA StepRefines ==
  ExchangeInv /\ [ExchangeNext]_exchangeVars => [BR!ReadNext]_(BR!readVars)
<1> SUFFICES ASSUME ExchangeInv, [ExchangeNext]_exchangeVars
             PROVE  [BR!ReadNext]_(BR!readVars)
  OBVIOUS
<1> DEFINE Stutters == UNCHANGED <<size, held, answer>>
<1>1. Stutters => UNCHANGED BR!readVars
  BY DEF BR!readVars, Verdict
<1>2. CASE DnsChanges \/ Connect \/ Fetch \/ UNCHANGED exchangeVars
  BY <1>1, <1>2 DEF DnsChanges, Connect, Fetch, exchangeVars
<1>3. CASE BadRequest
  BY <1>3, EndRefines DEF BadRequest, Answers
<1>4. CASE Resolve
  <2>1. CASE dns = {} \/ ~(dns \subseteq Public)
    BY <1>4, <2>1, EndRefines DEF Resolve, Answers
  <2>2. CASE ~(dns = {} \/ ~(dns \subseteq Public))
    BY <1>1, <1>4, <2>2 DEF Resolve
  <2> QED BY <2>1, <2>2
<1>5. CASE Headers
  BY <1>1, <1>5, EndRefines DEF Headers, Answers
<1>6. ASSUME NEW n \in 1..MaxSize, Chunk(n) PROVE BR!ReadNext
  <2>1. n \in Nat /\ MaxBytes \in Nat
    BY <1>6, ExchangeAssumption
  <2>2. CASE held + n > MaxBytes
    <3>1. n <= size - held /\ phase # "done" /\ End("too large", "open")
      BY <1>6, <2>2 DEF Chunk
    <3>2. size \in Nat /\ held \in Nat
      BY DEF ExchangeInv
    <3>3. size > MaxBytes
      BY <2>1, <2>2, <3>1, <3>2, ChunkExceeds, Zenon
    <3> QED BY <3>1, <3>3, EndRefines DEF Answers
  <2>3. CASE ~(held + n > MaxBytes)
    <3>1. held' \in held..size /\ held' <= MaxBytes /\ size' = size
      BY <1>6, <2>1, <2>3 DEF Chunk, ExchangeInv
    <3>2. Verdict = "reading" /\ Verdict' = Verdict
      BY <1>6, <2>3 DEF Chunk, ExchangeInv, Verdict
    <3> QED BY <3>1, <3>2 DEF BR!ReadNext, BR!Take
  <2> QED BY <2>2, <2>3
<1>7. CASE Finish
  BY <1>7, EndRefines DEF Finish, Answers
<1>8. CASE WholeBody
  <2>1. CASE size > MaxBytes
    BY <1>8, <2>1, EndRefines DEF WholeBody, Answers
  <2>2. CASE ~(size > MaxBytes)
    <3>1. held' = size /\ size' = size /\ size <= MaxBytes /\ size \in Nat /\ held \in Nat
          /\ held <= size
      BY <1>8, <2>2, ExchangeAssumption DEF WholeBody, ExchangeInv
    <3>4. answer = Running /\ (answer' = "delivered" \/ answer' = "protocol")
      BY <1>8, <2>2 DEF WholeBody, ExchangeInv
    <3>2. Verdict = "reading" /\ (Verdict' = "delivered" \/ Verdict' = "failed")
      BY <3>4 DEF Verdict, Running
    <3>3. held' \in held..size
      BY <3>1
    <3> QED BY <3>1, <3>2, <3>3 DEF BR!ReadNext, BR!Deliver, BR!Fail
  <2> QED BY <2>1, <2>2
<1>9. CASE Breaks
  <2> DEFINE a == CASE reader = "native" -> "upstream"
                    [] reader = "fetch" /\ phase = "sent" -> "timeout"
                    [] OTHER -> "protocol"
  <2>1. a \in Answers \ {"delivered", "too large"}
    BY DEF Answers
  <2>2. phase # "done" /\ End(a, upstream)
    BY <1>9 DEF Breaks
  <2> QED BY <2>1, <2>2, EndRefines
<1>10. CASE Drop
  BY <1>10, EndRefines DEF Drop, Answers
<1>11. CASE \E n \in 1..MaxSize : Chunk(n)
  BY <1>6, <1>11
<1> QED
  BY <1>2, <1>3, <1>4, <1>5, <1>7, <1>8, <1>9, <1>10, <1>11, Zenon DEF ExchangeNext

\* The three readers implement BoundedRead.
THEOREM ImplementsBoundedRead == ExchangeSpec => ReadsBounded
<1>1. ExchangeInit => BR!ReadInit
  BY ExchangeAssumption DEF ExchangeInit, BR!ReadInit, Verdict, Running
<1> QED
  BY <1>1, StepRefines, ExchangeInvariant, PTL DEF ExchangeSpec, ReadsBounded, BR!ReadSpec

\* No request outlives its exchange, and no delivered body was aborted.
THEOREM LeavesNoRequest == ExchangeSpec => []NoRequestLeft
<1>1. ExchangeInv => NoRequestLeft
  BY DEF ExchangeInv, NoRequestLeft
<1> QED BY <1>1, ExchangeInvariant, PTL

\* Connections go to checked addresses only, whatever the name server does.
THEOREM ConnectsToPublic == ExchangeSpec => []ConnectedPublic
<1>1. ExchangeInv => ConnectedPublic
  BY DEF ExchangeInv, ConnectedPublic
<1> QED BY <1>1, ExchangeInvariant, PTL

-----------------------------------------------------------------------------
(* The database file: what a call holds at each stage *)

Stages == {"open", "migrate", "checked", "migrated", "cache", "ready", "half", "done"}

CallRow ==
  [st : Stages, op : Ops, exec : Executions, conn : Calls \cup {NoOne},
   rounds : {1, 2}, seen : 0..3, clean : BOOLEAN]

\* A call that has not begun, or has failed.
NoRow == [st : {"idle", "failed"}]

FileTypeOK ==
  /\ exists \in BOOLEAN /\ version \in 0..3
  /\ opened \in [Processes -> Calls \cup {NoOne}]
  /\ call \in [Calls -> CallRow \cup NoRow]

\* Who has read the version keeps the others from changing it: a reader by the
\* SHARED lock, the writer by being the only one.
Locks ==
  /\ \A c \in Calls :
       /\ call[c].st = "checked" => c \in shared
       /\ call[c].st = "migrated" => writer = c
       /\ call[c].st \in {"checked", "migrated"} => call[c].seen = version

\* Migration 0002 has been applied as often as the version says, and who has a
\* connection, new or cached, has all tables.
Applied ==
  /\ altered = IF version >= 2 THEN 1 ELSE 0
  /\ \A c \in Calls : call[c].st \in {"cache", "ready", "half"} => version = 3
  /\ \A p \in Processes : opened[p] # NoOne => version = 3

\* A call that reads opens the file only if it is there.
Created ==
  /\ version > 0 => exists
  /\ \A c \in Calls : call[c].st \in Stages \ {"open", "done"} => exists
  /\ \A c \in Calls : call[c].st = "open" /\ Reads(call[c].op) => exists
  /\ ~exists => executions = {} /\ artifacts = {}

\* No one is writing what an undisturbed deletion deletes, and each of its two
\* statements has done its part.
Deletions ==
  \A c \in Calls :
    call[c].st \notin {"idle", "failed"} /\ call[c].op = "delete" /\ call[c].clean =>
      /\ \A d \in Calls : ~Under(d, "put", call[c].exec) /\ ~Under(d, "store", call[c].exec)
      /\ call[c].st \in {"half", "done"} => \A x \in artifacts : x[1] # call[c].exec
      /\ call[c].st = "done" => call[c].exec \notin executions

\* The inductive invariant.
FileInv == FileTypeOK /\ Locks /\ Applied /\ Created /\ Deletions

-----------------------------------------------------------------------------
(* What the steps do to the call that takes them *)

\* Call c alone goes on, to stage s.
GoesOn(c, s) ==
  /\ call' \in [Calls -> CallRow \cup NoRow]
  /\ call'[c].st = s /\ call'[c].op = call[c].op /\ call'[c].exec = call[c].exec
  /\ call'[c].clean = call[c].clean
  /\ \A d \in Calls : d # c => call'[d] = call[d]

\* Call c alone fails.
Failed(c) ==
  /\ call' \in [Calls -> CallRow \cup NoRow]
  /\ call'[c].st = "failed"
  /\ \A d \in Calls : d # c => call'[d] = call[d]

\* A call under way has a row.
LEMMA RowOf ==
  ASSUME FileTypeOK, NEW c \in Calls, call[c].st \notin {"idle", "failed"}
  PROVE  call[c] \in CallRow
BY DEF FileTypeOK, NoRow

\* Every change of a row that keeps its operation is a step of that call alone.
LEMMA RowChanges ==
  ASSUME FileTypeOK, NEW c \in Calls, NEW q \in CallRow, call' = [call EXCEPT ![c] = q],
         q.op = call[c].op, q.exec = call[c].exec, q.clean = call[c].clean
  PROVE  GoesOn(c, q.st) /\ call'[c] = q
BY DEF FileTypeOK, GoesOn

\* Set moves the call to another stage and leaves the rest of its row.
LEMMA SetFacts ==
  ASSUME FileTypeOK, NEW c \in Calls, call[c].st \notin {"idle", "failed"},
         NEW s \in Stages, Set(c, "st", s)
  PROVE  GoesOn(c, s) /\ call'[c].seen = call[c].seen
<1> DEFINE q == [call[c] EXCEPT !.st = s]
<1>1. call[c] \in CallRow
  BY RowOf
<1>2. /\ q \in CallRow /\ q.st = s /\ q.op = call[c].op /\ q.exec = call[c].exec
      /\ q.clean = call[c].clean /\ q.seen = call[c].seen
  BY <1>1 DEF CallRow
<1>3. call' = [call EXCEPT ![c] = q]
  BY DEF Set
<1> HIDE DEF q
<1> QED
  BY <1>2, <1>3, RowChanges

\* A call that has read the version remembers it.
LEMMA SeenFacts ==
  ASSUME FileTypeOK, NEW c \in Calls, call[c].st = "migrate",
         NEW s \in Stages, NEW v \in 0..3,
         call' = [call EXCEPT ![c].st = s, ![c].seen = v]
  PROVE  GoesOn(c, s) /\ call'[c].seen = v
<1> DEFINE q == [call[c] EXCEPT !.st = s, !.seen = v]
<1>1. call[c] \in CallRow
  BY RowOf
<1>2. /\ q \in CallRow /\ q.st = s /\ q.op = call[c].op /\ q.exec = call[c].exec
      /\ q.clean = call[c].clean /\ q.seen = v
  BY <1>1 DEF CallRow
<1>3. call' = [call EXCEPT ![c] = q]
  OBVIOUS
<1> HIDE DEF q
<1> QED
  BY <1>2, <1>3, RowChanges

\* After a commit the migrations are applied once more, or the connection is ready.
LEMMA CommitFacts ==
  ASSUME FileTypeOK, NEW c \in Calls, call[c].st \in {"checked", "migrated"},
         call' = [call EXCEPT ![c] = Continues(@, c)]
  PROVE  \E s \in {"migrate", "cache", "ready"} : GoesOn(c, s)
<1> DEFINE q == Continues(call[c], c)
<1>1. call[c] \in CallRow
  BY RowOf
<1>2. /\ q \in CallRow /\ q.st \in {"migrate", "cache", "ready"}
      /\ q.op = call[c].op /\ q.exec = call[c].exec /\ q.clean = call[c].clean
  <2>1. CASE call[c].rounds > 1
    <3>1. call[c].rounds - 1 \in {1, 2}
      BY <1>1, <2>1 DEF CallRow
    <3>2. q = [call[c] EXCEPT !.st = "migrate", !.rounds = call[c].rounds - 1]
      BY <2>1 DEF Continues
    <3> QED
      BY <1>1, <3>1, <3>2 DEF CallRow, Stages
  <2>2. CASE ~(call[c].rounds > 1)
    <3>1. PICK s \in {"cache", "ready"} : q = [call[c] EXCEPT !.st = s, !.conn = c]
      BY <2>2 DEF Continues
    <3> QED
      BY <1>1, <3>1 DEF CallRow, Stages
  <2> QED
    BY <2>1, <2>2
<1>3. call' = [call EXCEPT ![c] = q]
  OBVIOUS
<1> HIDE DEF q
<1> QED
  BY <1>2, <1>3, RowChanges

\* A call that fails lets go of its locks and changes nothing else.
LEMMA FailFacts ==
  ASSUME FileTypeOK, NEW c \in Calls, Fails(c)
  PROVE  Failed(c)
<1> DEFINE q == [st |-> "failed"]
<1>1. q \in NoRow /\ q.st = "failed"
  BY DEF NoRow
<1>2. call' = [call EXCEPT ![c] = q]
  BY DEF Fails
<1> HIDE DEF q
<1> QED
  BY <1>1, <1>2 DEF FileTypeOK, Failed

\* A call that goes on writes only what it was called to write, and ends a deletion
\* only when nothing is left.
Writes(c, s) ==
  /\ \A e \in executions' : e \in executions \/ (call[c].op = "put" /\ e = call[c].exec)
  /\ \A x \in artifacts' : x \in artifacts \/ (call[c].op = "store" /\ x[1] = call[c].exec)
  /\ call[c].op = "delete" /\ call[c].clean /\ s \in {"half", "done"} =>
       \A x \in artifacts' : x[1] # call[c].exec
  /\ call[c].op = "delete" /\ call[c].clean /\ s = "done" => call[c].exec \notin executions'

\* A call at work on the tables disturbs no other call's deletion.
LEMMA WritesKeepDeletions ==
  ASSUME FileInv, NEW c \in Calls, NEW s \in Stages, GoesOn(c, s), Writes(c, s),
         call[c].st \notin {"idle", "failed", "done"}
  PROVE  Deletions'
<1> SUFFICES ASSUME NEW b \in Calls, call'[b].st \notin {"idle", "failed"},
                    call'[b].op = "delete", call'[b].clean, NEW e, e = call'[b].exec
             PROVE  /\ \A d \in Calls : ~Under(d, "put", e)' /\ ~Under(d, "store", e)'
                    /\ call'[b].st \in {"half", "done"} => \A x \in artifacts' : x[1] # e
                    /\ call'[b].st = "done" => e \notin executions'
  BY DEF Deletions, Under
<1>1. /\ call[b].st \notin {"idle", "failed"} /\ call[b].op = "delete" /\ call[b].clean
      /\ call[b].exec = e
  BY DEF GoesOn
<1>2. \A d \in Calls : ~Under(d, "put", e) /\ ~Under(d, "store", e)
  BY <1>1 DEF FileInv, Deletions
<1>3. \A d \in Calls : ~Under(d, "put", e)' /\ ~Under(d, "store", e)'
  BY <1>2 DEF Under, GoesOn
<1>4. ~((call[c].op = "put" \/ call[c].op = "store") /\ call[c].exec = e)
  BY <1>2 DEF Under
<1>5. CASE b = c
  BY <1>1, <1>3, <1>5 DEF GoesOn, Writes
<1>6. CASE b # c
  <2>1. call'[b] = call[b]
    BY <1>6 DEF GoesOn
  <2>2. call[b].st \in {"half", "done"} => \A x \in artifacts' : x[1] # e
    BY <1>1, <1>4 DEF FileInv, Deletions, Writes
  <2>3. call[b].st = "done" => e \notin executions'
    BY <1>1, <1>4 DEF FileInv, Deletions, Writes
  <2> QED
    BY <1>3, <2>1, <2>2, <2>3
<1> QED
  BY <1>5, <1>6

\* A call goes on, with the version as it was.
LEMMA GoingOn ==
  ASSUME FileInv, NEW c \in Calls, NEW s \in Stages \ {"open"}, GoesOn(c, s), Writes(c, s),
         call[c].st \notin {"idle", "failed", "done"},
         UNCHANGED <<version, altered>>, exists' = TRUE,
         opened' \in [Processes -> Calls \cup {NoOne}],
         \A p \in Processes : opened'[p] # NoOne => version = 3,
         \A d \in Calls : d # c => (d \in shared => d \in shared') /\ (writer = d => writer' = d),
         s = "checked" => c \in shared' /\ call'[c].seen = version,
         s = "migrated" => writer' = c /\ call'[c].seen = version,
         s \in {"cache", "ready", "half"} => version = 3
  PROVE  FileInv'
<1>1. FileTypeOK'
  BY DEF FileInv, FileTypeOK, GoesOn
<1>2. Locks'
  BY DEF FileInv, Locks, GoesOn
<1>3. Applied'
  BY DEF FileInv, Applied, GoesOn
<1>4. Created'
  BY DEF Created
<1>5. Deletions'
  BY WritesKeepDeletions
<1> QED
  BY <1>1, <1>2, <1>3, <1>4, <1>5 DEF FileInv

\* A call fails, and its locks are gone.
LEMMA Failing ==
  ASSUME FileInv, NEW c \in Calls, Failed(c), Free(c),
         UNCHANGED <<exists, version, altered, executions, artifacts, opened>>
  PROVE  FileInv'
<1>1. FileTypeOK'
  BY DEF FileInv, FileTypeOK, Failed
<1>2. Locks'
  BY FileAssumption DEF FileInv, Locks, Failed, Free
<1>3. Applied'
  BY DEF FileInv, Applied, Failed
<1>4. Created'
  BY DEF FileInv, Created, Failed, Stages
<1>5. Deletions'
  BY DEF FileInv, Deletions, Under, Failed
<1> QED
  BY <1>1, <1>2, <1>3, <1>4, <1>5 DEF FileInv

\* The file is opened, the version read, the write lock taken, the connection cached.
LEMMA OpeningKeepsFile ==
  ASSUME FileInv, NEW c \in Calls,
         OpenFile(c) \/ ReadVersion(c) \/ FirstWrite(c) \/ Promote(c) \/ Cache(c)
  PROVE  FileInv'
<1>0. /\ exists \in BOOLEAN /\ version \in 0..3 /\ opened \in [Processes -> Calls \cup {NoOne}]
      /\ \A p \in Processes : opened[p] # NoOne => version = 3
  BY DEF FileInv, FileTypeOK, Applied
<1>1. CASE OpenFile(c)
  <2>1. GoesOn(c, "migrate")
    BY <1>1, SetFacts DEF OpenFile, FileInv, Stages
  <2>2. Writes(c, "migrate")
    BY <1>1 DEF OpenFile, Writes
  <2> QED
    BY <1>0, <1>1, <2>1, <2>2, GoingOn DEF OpenFile, Stages
<1>2. CASE ReadVersion(c)
  <2>1. GoesOn(c, "checked") /\ call'[c].seen = version
    BY <1>0, <1>2, SeenFacts DEF ReadVersion, FileInv, Stages
  <2>2. Writes(c, "checked") /\ exists
    BY <1>2 DEF ReadVersion, Writes, FileInv, Created
  <2> QED
    BY <1>0, <1>2, <2>1, <2>2, GoingOn DEF ReadVersion, Stages
<1>3. CASE FirstWrite(c)
  <2>1. GoesOn(c, "migrated") /\ call'[c].seen = version
    BY <1>0, <1>3, SeenFacts DEF FirstWrite, FileInv, Stages
  <2>2. Writes(c, "migrated") /\ exists
    BY <1>3 DEF FirstWrite, Writes, FileInv, Created, Stages
  <2> QED
    BY <1>0, <1>3, <2>1, <2>2, GoingOn, FileAssumption DEF FirstWrite, Stages
<1>4. CASE Promote(c) /\ writer = NoOne
  <2>1. GoesOn(c, "migrated") /\ call'[c].seen = call[c].seen
    BY <1>4, SetFacts DEF Promote, FileInv, Stages
  <2>2. Writes(c, "migrated") /\ exists /\ call[c].seen = version
    BY <1>4 DEF Promote, Writes, FileInv, Created, Locks, Stages
  <2> QED
    BY <1>0, <1>4, <2>1, <2>2, GoingOn, FileAssumption DEF Promote, Stages
<1>5. CASE Promote(c) /\ writer # NoOne
  BY <1>5, FailFacts, Failing DEF Promote, FileInv
<1>6. CASE Cache(c)
  <2>1. GoesOn(c, "ready")
    BY <1>6, SetFacts DEF Cache, FileInv, Stages
  <2>2. Writes(c, "ready") /\ exists /\ version = 3
    BY <1>6 DEF Cache, Writes, FileInv, Created, Applied, Stages
  <2>3. opened' \in [Processes -> Calls \cup {NoOne}]
    BY <1>0, <1>6 DEF Cache
  <2> QED
    BY <1>0, <1>6, <2>1, <2>2, <2>3, GoingOn DEF Cache, Stages
<1> QED
  BY <1>1, <1>2, <1>3, <1>4, <1>5, <1>6

\* A commit of the writer finds no one who has read an older version.
LEMMA CommitKeepsFile ==
  ASSUME FileInv, NEW c \in Calls, Commit(c)
  PROVE  FileInv'
<1>1. PICK s \in {"migrate", "cache", "ready"} : GoesOn(c, s)
  BY CommitFacts DEF Commit, FileInv
<1>2. /\ UNCHANGED <<exists, executions, artifacts, opened>> /\ exists
      /\ call[c].st \in {"checked", "migrated"} /\ Free(c)
  BY DEF Commit, FileInv, Created, Stages
<1>3. version' = 3
  BY DEF Commit, FileInv, Locks
<1>4. FileTypeOK'
  BY <1>1, <1>2, <1>3 DEF FileInv, FileTypeOK, GoesOn
<1>5. Locks'
  <2>1. CASE call[c].st = "checked"
    <3>1. version = 3 /\ version' = version
      BY <2>1 DEF Commit, FileInv, Locks
    <3> QED
      BY <1>1, <1>2, <3>1, FileAssumption DEF FileInv, Locks, GoesOn, Free
  <2>2. CASE call[c].st = "migrated"
    <3>1. shared \ {c} = {} /\ writer = c
      BY <2>2 DEF Commit, FileInv, Locks
    <3>2. \A d \in Calls : d # c => call[d].st \notin {"checked", "migrated"}
      BY <3>1 DEF FileInv, Locks
    <3> QED
      BY <1>1, <3>2 DEF Locks, GoesOn
  <2> QED
    BY <1>2, <2>1, <2>2
<1>6. Applied'
  <2>1. altered' = 1
    <3>1. call[c].seen = version /\ version \in 0..3
      BY <1>2 DEF FileInv, Locks, FileTypeOK
    <3>2. altered = IF version >= 2 THEN 1 ELSE 0
      BY DEF FileInv, Applied
    <3> QED
      BY <3>1, <3>2 DEF Commit
  <2> QED
    BY <1>3, <2>1 DEF Applied
<1>7. Created'
  BY <1>2 DEF Created
<1>8. Deletions'
  <2>1. Writes(c, s)
    BY <1>1, <1>2 DEF Writes
  <2> QED
    BY <1>1, <1>2, <2>1, WritesKeepDeletions DEF Stages
<1> QED
  BY <1>4, <1>5, <1>6, <1>7, <1>8 DEF FileInv

\* The statements of the calls, each by a call that has all tables.
LEMMA StatementKeepsFile ==
  ASSUME FileInv, NEW c \in Calls, Statement(c) \/ StoreArtifact(c) \/ DeleteRow(c)
  PROVE  FileInv'
<1>0. /\ call[c].st \in {"ready", "half"} /\ exists = TRUE /\ version = 3
      /\ opened \in [Processes -> Calls \cup {NoOne}]
      /\ UNCHANGED <<exists, version, altered, opened, shared, writer>>
  BY DEF Statement, StoreArtifact, DeleteRow, FileInv, FileTypeOK, Applied, Created, Stages
<1>1. PICK s \in {"half", "done"} : GoesOn(c, s) /\ Writes(c, s)
  <2>1. CASE Statement(c)
    <3> DEFINE s == IF call[c].op = "delete" THEN "half" ELSE "done"
    <3>1. s \in {"half", "done"} /\ s \in Stages /\ (s = "done" => call[c].op # "delete")
      BY DEF Stages
    <3>2. Set(c, "st", s)
      BY <2>1 DEF Statement
    <3>3. Writes(c, s)
      BY <2>1 DEF Statement, Writes
    <3> HIDE DEF s
    <3>4. GoesOn(c, s)
      BY <1>0, <3>1, <3>2, SetFacts DEF FileInv
    <3> QED
      BY <3>1, <3>3, <3>4
  <2>2. CASE StoreArtifact(c)
    <3>1. GoesOn(c, "done")
      BY <1>0, <2>2, SetFacts DEF StoreArtifact, FileInv, Stages
    <3>2. Writes(c, "done")
      BY <2>2 DEF StoreArtifact, Writes
    <3> QED
      BY <3>1, <3>2
  <2>3. CASE DeleteRow(c)
    <3>1. GoesOn(c, "done")
      BY <1>0, <2>3, SetFacts DEF DeleteRow, FileInv, Stages
    <3>2. Writes(c, "done")
      BY <2>3 DEF DeleteRow, Writes, FileInv, Deletions
    <3> QED
      BY <3>1, <3>2
  <2> QED
    BY <2>1, <2>2, <2>3
<1> QED
  BY <1>0, <1>1, GoingOn DEF Stages

\* What a new call does to the rows: the deletions of the execution it is going to
\* write are no longer undisturbed.
LEMMA BeginFacts ==
  ASSUME FileInv, NEW c \in Calls, NEW op \in Ops, NEW e \in Executions, Begin(c, op, e)
  PROVE  /\ call' \in [Calls -> CallRow \cup NoRow]
         /\ call'[c].op = op /\ call'[c].exec = e
         /\ \/ call'[c].st = "done" /\ Reads(op) /\ ~exists
            \/ call'[c].st = "ready" /\ version = 3
            \/ call'[c].st = "open" /\ (Reads(op) => exists)
         /\ call'[c].clean =>
              \A d \in Calls : ~Under(d, "put", e) /\ ~Under(d, "store", e)
         /\ \A d \in Calls : d # c =>
              /\ call'[d].st = call[d].st /\ call'[d].seen = call[d].seen
              /\ call[d].st \notin {"idle", "failed"} =>
                   /\ call'[d].op = call[d].op /\ call'[d].exec = call[d].exec
                   /\ call'[d].clean => /\ call[d].clean
                                        /\ ~(op \in {"put", "store"} /\ call[d].exec = e)
<1> DEFINE conn == IF op \in CodeModeOps THEN opened[ProcessOf[c]] ELSE NoOne
           alone == \A d \in Calls : ~Under(d, "put", e) /\ ~Under(d, "store", e)
           st == IF Reads(op) /\ ~exists THEN "done" ELSE IF conn # NoOne THEN "ready" ELSE "open"
           spoilt(q) == q.st \notin {"idle", "failed"} /\ op \in {"put", "store"} /\ q.exec = e
           row == [st |-> st, op |-> op, exec |-> e, conn |-> conn, rounds |-> Rounds(op),
                   seen |-> 0, clean |-> alone]
<1>1. call' = [d \in Calls |->
                 IF d = c THEN row
                 ELSE IF spoilt(call[d]) THEN [call[d] EXCEPT !.clean = FALSE] ELSE call[d]]
  BY DEF Begin
<1>2. /\ conn \in Calls \cup {NoOne} /\ (conn # NoOne => version = 3)
  BY DEF FileInv, FileTypeOK, Applied, Processes
<1>3. /\ st \in Stages
      /\ \/ st = "done" /\ Reads(op) /\ ~exists
         \/ st = "ready" /\ version = 3
         \/ st = "open" /\ (Reads(op) => exists)
  BY <1>2 DEF Stages
<1>4. Rounds(op) \in {1, 2} /\ alone \in BOOLEAN
  BY DEF Rounds
<1> HIDE DEF conn, alone, st
<1>5. row \in CallRow /\ row.op = op /\ row.exec = e /\ row.st = st /\ row.clean = alone
  BY <1>2, <1>3, <1>4 DEF CallRow
<1> HIDE DEF row
<1>6. ASSUME NEW d \in Calls, d # c
      PROVE  /\ call'[d] \in CallRow \cup NoRow
             /\ call'[d].st = call[d].st /\ call'[d].seen = call[d].seen
             /\ call[d].st \notin {"idle", "failed"} =>
                  /\ call'[d].op = call[d].op /\ call'[d].exec = call[d].exec
                  /\ call'[d].clean => /\ call[d].clean
                                       /\ ~(op \in {"put", "store"} /\ call[d].exec = e)
  <2>1. call[d] \in CallRow \cup NoRow
    BY DEF FileInv, FileTypeOK
  <2>2. CASE spoilt(call[d])
    <3>1. call[d] \in CallRow
      BY <2>2, RowOf DEF FileInv
    <3>2. call'[d] = [call[d] EXCEPT !.clean = FALSE]
      BY <1>1, <1>6, <2>2
    <3>3. /\ call'[d] \in CallRow
          /\ call'[d].st = call[d].st /\ call'[d].seen = call[d].seen
          /\ call'[d].op = call[d].op /\ call'[d].exec = call[d].exec
      BY <3>1, <3>2 DEF CallRow
    <3>4. ~call'[d].clean
      BY <3>1, <3>2 DEF CallRow
    <3> QED
      BY <3>3, <3>4
  <2>3. CASE ~spoilt(call[d])
    <3>1. call'[d] = call[d]
      BY <1>1, <1>6, <2>3
    <3> QED
      BY <2>1, <2>3, <3>1
  <2> QED
    BY <2>2, <2>3
<1>7. call'[c] = row
  BY <1>1
<1>8. call' \in [Calls -> CallRow \cup NoRow]
  <2>1. \A d \in Calls : call'[d] \in CallRow \cup NoRow
    BY <1>5, <1>6, <1>7
  <2> QED
    BY <1>1, <2>1
<1>9. call'[c].clean => \A d \in Calls : ~Under(d, "put", e) /\ ~Under(d, "store", e)
  BY <1>5, <1>7 DEF alone
<1> QED
  BY <1>3, <1>5, <1>6, <1>7, <1>8, <1>9

\* A call begins: it has no lock and has seen nothing.
LEMMA BeginKeepsFile ==
  ASSUME FileInv, NEW c \in Calls, NEW op \in Ops, NEW e \in Executions, Begin(c, op, e)
  PROVE  FileInv'
<1>0. UNCHANGED <<exists, version, altered, executions, artifacts, opened, shared, writer>>
  BY DEF Begin
<1>1. /\ call' \in [Calls -> CallRow \cup NoRow]
      /\ call'[c].op = op /\ call'[c].exec = e
      /\ \/ call'[c].st = "done" /\ Reads(op) /\ ~exists
         \/ call'[c].st = "ready" /\ version = 3
         \/ call'[c].st = "open" /\ (Reads(op) => exists)
      /\ call'[c].clean => \A d \in Calls : ~Under(d, "put", e) /\ ~Under(d, "store", e)
  BY BeginFacts
<1>2. \A d \in Calls : d # c =>
        /\ call'[d].st = call[d].st /\ call'[d].seen = call[d].seen
        /\ call[d].st \notin {"idle", "failed"} =>
             /\ call'[d].op = call[d].op /\ call'[d].exec = call[d].exec
             /\ call'[d].clean => /\ call[d].clean
                                  /\ ~(op \in {"put", "store"} /\ call[d].exec = e)
  BY BeginFacts
<1>3. FileTypeOK'
  BY <1>0, <1>1 DEF FileInv, FileTypeOK
<1>4. Locks'
  BY <1>0, <1>1, <1>2 DEF FileInv, Locks
<1>5. Applied'
  BY <1>0, <1>1, <1>2 DEF FileInv, Applied
<1>6. Created'
  <2>1. ASSUME NEW d \in Calls
        PROVE  /\ call'[d].st \in Stages \ {"open", "done"} => exists
               /\ call'[d].st = "open" /\ Reads(call'[d].op) => exists
    <3>1. CASE d = c
      BY <1>1, <3>1 DEF FileInv, Created, FileTypeOK
    <3>2. CASE d # c
      BY <1>2, <3>2 DEF FileInv, Created, Stages
    <3> QED
      BY <3>1, <3>2
  <2> QED
    BY <1>0, <2>1 DEF FileInv, Created
<1>7. Deletions'
  <2> SUFFICES ASSUME NEW b \in Calls, call'[b].st \notin {"idle", "failed"},
                      call'[b].op = "delete", call'[b].clean, NEW x, x = call'[b].exec
               PROVE  /\ \A d \in Calls : ~Under(d, "put", x)' /\ ~Under(d, "store", x)'
                      /\ call'[b].st \in {"half", "done"} => \A y \in artifacts : y[1] # x
                      /\ call'[b].st = "done" => x \notin executions
    BY <1>0 DEF Deletions, Under
  <2>1. /\ \A d \in Calls : ~Under(d, "put", x) /\ ~Under(d, "store", x)
        /\ ~(op \in {"put", "store"} /\ x = e)
        /\ call'[b].st \in {"half", "done"} => \A y \in artifacts : y[1] # x
        /\ call'[b].st = "done" => x \notin executions
    <3>1. CASE b = c
      BY <1>1, <3>1 DEF FileInv, Created
    <3>2. CASE b # c
      BY <1>2, <3>2 DEF FileInv, Deletions
    <3> QED
      BY <3>1, <3>2
  <2>2. ASSUME NEW d \in Calls
        PROVE  ~Under(d, "put", x)' /\ ~Under(d, "store", x)'
    <3>1. CASE d = c
      BY <1>1, <2>1, <3>1 DEF Under
    <3>2. CASE d # c
      BY <1>2, <2>1, <3>2 DEF Under
    <3> QED
      BY <3>1, <3>2
  <2> QED
    BY <2>1, <2>2
<1> QED
  BY <1>3, <1>4, <1>5, <1>6, <1>7 DEF FileInv

\* A crash rolls back: what was not committed is gone, with its locks.
LEMMA CrashKeepsFile ==
  ASSUME FileInv, NEW p \in Processes, Crash(p)
  PROVE  FileInv'
<1> DEFINE dead == [st |-> "failed"]
<1>0. dead \in NoRow /\ dead.st = "failed"
  BY DEF NoRow
<1>1. call' = [c \in Calls |-> IF ProcessOf[c] = p /\ call[c].st \notin {"idle", "done"}
                               THEN dead ELSE call[c]]
  BY DEF Crash
<1> HIDE DEF dead
<1>2. \A c \in Calls :
        \/ call'[c] = call[c] /\ (ProcessOf[c] # p \/ call[c].st \in {"idle", "done"})
        \/ call'[c].st = "failed"
  BY <1>0, <1>1
<1>3. call' \in [Calls -> CallRow \cup NoRow]
  BY <1>0, <1>1 DEF FileInv, FileTypeOK
<1>4. /\ UNCHANGED <<exists, version, altered, executions, artifacts>>
      /\ shared' = {c \in shared : ProcessOf[c] # p}
      /\ writer' = IF writer # NoOne /\ ProcessOf[writer] = p THEN NoOne ELSE writer
      /\ opened' = [opened EXCEPT ![p] = NoOne]
  BY DEF Crash
<1>5. FileTypeOK'
  BY <1>3, <1>4 DEF FileInv, FileTypeOK
<1>6. Locks'
  BY <1>2, <1>4, FileAssumption DEF FileInv, Locks
<1>7. Applied'
  BY <1>2, <1>4 DEF FileInv, Applied, FileTypeOK
<1>8. Created'
  BY <1>2, <1>4 DEF FileInv, Created, Stages
<1>9. Deletions'
  BY <1>2, <1>4 DEF FileInv, Deletions, Under
<1> QED
  BY <1>5, <1>6, <1>7, <1>8, <1>9 DEF FileInv

\* Every step, action by action.
LEMMA FileStep == FileInv /\ [FileNext]_fileVars => FileInv'
<1> SUFFICES ASSUME FileInv, [FileNext]_fileVars
             PROVE  FileInv'
  OBVIOUS
<1>1. ASSUME NEW c \in Calls, TimesOut(c)
      PROVE  FileInv'
  BY <1>1, FailFacts, Failing DEF TimesOut, FileInv
<1>2. CASE UNCHANGED fileVars
  BY <1>2 DEF fileVars, FileInv, FileTypeOK, Locks, Applied, Created, Deletions, Under
<1> QED
  BY <1>1, <1>2, BeginKeepsFile, OpeningKeepsFile, CommitKeepsFile, StatementKeepsFile,
     CrashKeepsFile DEF FileNext

\* At first there is no call; the file may be there at any version.
LEMMA FileStart == FileInit => FileInv
<1> SUFFICES ASSUME FileInit
             PROVE  FileInv
  OBVIOUS
<1> DEFINE row == [st |-> "idle"]
<1>0. row \in NoRow /\ row.st = "idle"
  BY DEF NoRow
<1>1. call = [c \in Calls |-> row]
  BY DEF FileInit
<1> HIDE DEF row
<1>2. \A c \in Calls : call[c].st = "idle"
  BY <1>0, <1>1
<1>3. exists \in BOOLEAN /\ version \in 0..3 /\ (~exists => version = 0)
  BY DEF FileInit
<1>4. FileTypeOK
  BY <1>0, <1>1, <1>3 DEF FileInit, FileTypeOK
<1>5. Locks
  BY <1>2 DEF Locks
<1>6. Applied
  BY <1>2 DEF FileInit, Applied
<1>7. Created
  <2>1. ~exists => executions = {} /\ artifacts = {}
    BY <1>3 DEF FileInit
  <2> QED
    BY <1>2, <1>3, <2>1 DEF Created, Stages
<1>8. Deletions
  BY <1>2 DEF Deletions
<1> QED
  BY <1>4, <1>5, <1>6, <1>7, <1>8 DEF FileInv

\* The inductive invariant of the database file holds throughout.
LEMMA FileAlways == FileSpec => []FileInv
BY FileStart, FileStep, PTL DEF FileSpec

\* However many processes open a new or an old database at once, and wherever they
\* die, no migration is committed twice, and a call that has the store finds all
\* its tables.
THEOREM MigratesOnce == FileSpec => []MigratedOnce
<1>1. FileInv => MigratedOnce
  BY DEF FileInv, Applied, MigratedOnce
<1> QED
  BY <1>1, FileAlways, PTL

\* Once an undisturbed deletion has succeeded, nothing of the execution is left,
\* whatever other processes deleted, opened or lost meanwhile.
THEOREM DeletionsAreFinal == FileSpec => []DeletedGone
<1>1. FileInv => DeletedGone
  BY DEF FileInv, Deletions, DeletedGone
<1> QED
  BY <1>1, FileAlways, PTL

\* Reading, deleting and listing never create the database: the file appears in a
\* step of a call that writes.
THEOREM OnlyWritersCreate == FileSpec => ReadsCreateNothing
<1> DEFINE ByWriter ==
      exists' # exists =>
        \E c \in Calls : call'[c] # call[c] /\ call[c].op \in {"put", "store", "watch write"}
<1>1. FileInv /\ [FileNext]_fileVars => [ByWriter]_fileVars
  <2> SUFFICES ASSUME FileInv, FileNext, exists' # exists
               PROVE  \E c \in Calls : /\ call'[c] # call[c]
                                       /\ call[c].op \in {"put", "store", "watch write"}
    OBVIOUS
  <2>1. PICK c \in Calls : OpenFile(c)
    BY DEF FileNext, Begin, ReadVersion, FirstWrite, Promote, Commit, Cache, Statement,
           StoreArtifact, DeleteRow, TimesOut, Crash
  <2>2. call[c].st = "open" /\ call[c] \in CallRow
    BY <2>1, RowOf DEF OpenFile, FileInv
  <2>3. call'[c].st = "migrate"
    BY <2>1, <2>2, SetFacts DEF OpenFile, FileInv, GoesOn, Stages
  <2>4. ~exists
    BY <2>1 DEF OpenFile, FileInv, FileTypeOK
  <2>5. ~Reads(call[c].op) /\ call[c].op \in Ops
    BY <2>2, <2>4 DEF FileInv, Created, CallRow
  <2> QED
    BY <2>2, <2>3, <2>5 DEF Reads, Ops, CodeModeOps
<1> QED
  BY <1>1, FileAlways, PTL DEF FileSpec, ReadsCreateNothing

-----------------------------------------------------------------------------
(* The requests of the worker: what a request is while it is under way *)

Origins == {in.origin : in \in Inputs} \cup {None}

Replies == [status : Nat, cors : Origins, data : SUBSET (TenantIds \X Requests)]

ReqRow ==
  [st : {"body", "tool", "mcp", "done"}, in : Inputs, env : Deployments, src : Deployments,
   tenant : TenantIds \cup {None}, answer : Replies]

\* A request that has not come.
NewRow == [st : {"new"}]

\* The tenant whose token the request carries, and whether its origin is refused.
BearerOf(q) ==
  IF q.in.token = None \/ q.env.tokens = None \/ q.in.token \notin DOMAIN q.env.tokens
  THEN None ELSE q.env.tokens[q.in.token]

Fenced(q) == q.in.origin # None /\ q.in.origin \notin q.env.origins

\* A request acts for the tenant of its token, and is under way only with a tenant
\* and from an origin that is allowed.
RowOK(q) ==
  /\ q.src = q.env
  /\ q.tenant # None => q.tenant = BearerOf(q) /\ ~Fenced(q)
  /\ q.st # "done" => q.tenant # None
  /\ q.answer.cors # None => q.answer.cors = q.in.origin /\ ~Fenced(q)
  /\ q.answer.data # {} => q.tenant # None
  /\ \A w \in q.answer.data : w[1] = q.tenant

\* A watch, stored or listed, is of the tenant of the request that added it.
OwnedWatch(w) == w[2] \in Requests /\ Came(w[2]) /\ w[1] = BearerOf(reqs[w[2]])

\* The inductive invariant: the catalog of an isolate is of its deployment.
WorkerInv ==
  /\ config \in Deployments /\ cache \in {None, config}
  /\ reqs \in [Requests -> ReqRow \cup NewRow]
  /\ \A w \in stored : w \in TenantIds \X Requests /\ OwnedWatch(w)
  /\ \A r \in Requests : Came(r) =>
       RowOK(reqs[r]) /\ \A w \in reqs[r].answer.data : OwnedWatch(w)

\* Row n is what row q becomes: the same request, for the same tenant, with an
\* answer that shows no more than before.
Later(q, n) ==
  /\ n \in ReqRow /\ n.in = q.in /\ n.env = q.env /\ n.src = q.src /\ n.tenant = q.tenant
  /\ n.answer.cors \in {q.answer.cors, q.in.origin}
  /\ n.answer.data \in {q.answer.data, {}}

\* A request that moves on keeps the tenant it was authenticated for.
LEMMA LaterOK ==
  ASSUME NEW q, NEW n, RowOK(q), q.tenant # None, Later(q, n)
  PROVE  RowOK(n)
BY DEF RowOK, Later, BearerOf, Fenced

\* A request that is answered, or goes on to another stage.
LEMMA RowSteps ==
  \A q \in ReqRow :
    /\ \A s \in {"body", "tool", "mcp", "done"} : /\ Later(q, [q EXCEPT !.st = s])
                                                  /\ [q EXCEPT !.st = s].st = s
    /\ \A status \in Nat : Later(q, Done(q, status)) /\ Done(q, status).answer.data = {}
<1> SUFFICES ASSUME NEW q \in ReqRow
             PROVE  /\ \A s \in {"body", "tool", "mcp", "done"} :
                         Later(q, [q EXCEPT !.st = s]) /\ [q EXCEPT !.st = s].st = s
                    /\ \A status \in Nat : /\ Later(q, Done(q, status))
                                           /\ Done(q, status).answer.data = {}
  OBVIOUS
<1>1. \A s \in {"body", "tool", "mcp", "done"} :
        Later(q, [q EXCEPT !.st = s]) /\ [q EXCEPT !.st = s].st = s
  BY DEF ReqRow, Later
<1>2. ASSUME NEW status \in Nat
      PROVE  Later(q, Done(q, status)) /\ Done(q, status).answer.data = {}
  <2> DEFINE a == Answer(status, q.in.origin)
  <2>1. q.in.origin \in Origins
    BY DEF ReqRow, Origins
  <2>2. a \in Replies /\ a.cors = q.in.origin /\ a.data = {}
    BY <2>1 DEF Answer, Replies
  <2>3. Done(q, status) = [q EXCEPT !.st = "done", !.answer = a]
    BY DEF Done
  <2> HIDE DEF a
  <2> QED
    BY <2>2, <2>3 DEF ReqRow, Later
<1> QED
  BY <1>1, <1>2

\* dispatch_request only sends the request on or answers it.
LEMMA DispatchLater == \A q \in ReqRow : Later(q, Dispatch(q))
<1> SUFFICES ASSUME NEW q \in ReqRow
             PROVE  Later(q, Dispatch(q))
  OBVIOUS
<1>1. \A s \in {"body", "tool", "mcp"} : Later(q, [q EXCEPT !.st = s])
  BY RowSteps
<1>2. \A status \in Nat : Later(q, Done(q, status))
  BY RowSteps
<1>3. \/ \E status \in Nat : Dispatch(q) = Done(q, status)
      \/ \E s \in {"body", "tool", "mcp"} : Dispatch(q) = [q EXCEPT !.st = s]
  <2>1. \/ Dispatch(q) = Done(q, 200) \/ Dispatch(q) = Done(q, 400)
        \/ Dispatch(q) = Done(q, 404) \/ Dispatch(q) = Done(q, 405)
        \/ Dispatch(q) = [q EXCEPT !.st = "body"] \/ Dispatch(q) = [q EXCEPT !.st = "tool"]
        \/ Dispatch(q) = [q EXCEPT !.st = "mcp"]
    BY DEF Dispatch
  <2>2. 200 \in Nat /\ 400 \in Nat /\ 404 \in Nat /\ 405 \in Nat
    OBVIOUS
  <2> QED
    BY <2>1, <2>2, Zenon
<1> QED
  BY <1>1, <1>2, <1>3

\* A request that comes in: it has a tenant only if its token names one, and gets
\* past the origin check first.
LEMMA RouteOK ==
  ASSUME NEW in \in Inputs, NEW env \in Deployments
  PROVE  /\ Route(Routed(in, env, env)) \in ReqRow
         /\ RowOK(Route(Routed(in, env, env)))
         /\ Route(Routed(in, env, env)).answer.data = {}
<1> DEFINE q == Routed(in, env, env)
           map == TokenMap(env)
           tenant == AuthorizedTenant(map, in.token)
           none == Answer(500, None)
<1>1. \A status \in Nat : /\ Answer(status, None) \in Replies
                          /\ Answer(status, None).cors = None /\ Answer(status, None).data = {}
  BY DEF Answer, Replies, Origins
<1>2. /\ q \in ReqRow /\ q.st = "done" /\ q.in = in /\ q.env = env /\ q.src = env
      /\ q.tenant = None /\ q.answer = none
  <2>1. q = [st |-> "done", in |-> in, env |-> env, src |-> env, tenant |-> None,
             answer |-> none]
    BY DEF Routed, WorkerError
  <2>2. none \in Replies
    BY <1>1
  <2> HIDE DEF none
  <2> QED
    BY <2>1, <2>2 DEF ReqRow
<1>3. none.cors = None /\ none.data = {}
  BY <1>1
<1>4. tenant # None /\ map # None =>
        /\ tenant \in TenantIds /\ in.token # None /\ env.tokens # None
        /\ in.token \in DOMAIN env.tokens /\ tenant = env.tokens[in.token]
  BY WorkerAssumption DEF AuthorizedTenant, TokenMap, ParseTokens
<1> HIDE DEF q, map, tenant, none
<1>5. RowOK(q) /\ q.answer.data = {}
  BY <1>2, <1>3 DEF RowOK
<1>6. ASSUME NEW status \in Nat
      PROVE  LET n == [q EXCEPT !.answer = Answer(status, None)]
             IN  n \in ReqRow /\ RowOK(n) /\ n.answer.data = {}
  <2> DEFINE a == Answer(status, None)
             n == [q EXCEPT !.answer = a]
  <2>1. a \in Replies /\ a.cors = None /\ a.data = {}
    BY <1>1
  <2> HIDE DEF a
  <2>2. /\ n \in ReqRow /\ n.answer = a /\ n.in = in /\ n.env = env /\ n.src = env
        /\ n.tenant = None /\ n.st = "done"
    BY <1>2, <2>1 DEF ReqRow
  <2> HIDE DEF n
  <2>3. RowOK(n) /\ n.answer.data = {}
    BY <2>1, <2>2 DEF RowOK
  <2> QED
    BY <2>2, <2>3 DEF n, a
<1>7. ASSUME NEW status \in Nat, OriginAllowed(in.origin, env)
      PROVE  Done(q, status) \in ReqRow /\ RowOK(Done(q, status)) /\ Done(q, status).answer.data = {}
  <2>1. Later(q, Done(q, status)) /\ Done(q, status).answer.data = {}
    BY <1>2, RowSteps
  <2>2. Done(q, status).st = "done"
    BY <1>2 DEF Done, ReqRow
  <2>3. ~Fenced(q)
    BY <1>2, <1>7 DEF OriginAllowed, Fenced
  <2>4. RowOK(Done(q, status))
    BY <1>2, <1>3, <2>1, <2>2, <2>3 DEF RowOK, Later, Fenced
  <2> QED
    BY <2>1, <2>4 DEF Later
<1>8. ASSUME OriginAllowed(in.origin, env), map # None, tenant # None
      PROVE  LET n == Dispatch([q EXCEPT !.tenant = tenant])
             IN  n \in ReqRow /\ RowOK(n) /\ n.answer.data = {}
  <2> DEFINE m == [q EXCEPT !.tenant = tenant]
             n == Dispatch(m)
  <2>1. /\ m \in ReqRow /\ m.tenant = tenant /\ m.in = in /\ m.env = env /\ m.src = env
        /\ m.answer = none
    BY <1>2, <1>4, <1>8 DEF ReqRow
  <2> HIDE DEF m
  <2>2. Later(m, n)
    BY <2>1, DispatchLater
  <2>3. RowOK(m)
    BY <1>3, <1>4, <1>8, <2>1 DEF RowOK, BearerOf, Fenced, OriginAllowed
  <2> HIDE DEF n
  <2>4. RowOK(n) /\ n \in ReqRow /\ n.answer.data = {}
    BY <1>3, <1>8, <2>1, <2>2, <2>3, LaterOK DEF Later
  <2> QED
    BY <2>4 DEF n, m
<1>9. \/ \E status \in Nat : Route(q) = [q EXCEPT !.answer = Answer(status, None)]
      \/ OriginAllowed(in.origin, env) /\ \E status \in Nat : Route(q) = Done(q, status)
      \/ Route(q) = q
      \/ /\ OriginAllowed(in.origin, env) /\ map # None /\ tenant # None
         /\ Route(q) = Dispatch([q EXCEPT !.tenant = tenant])
  BY <1>2 DEF Route, map, tenant
<1> HIDE DEF Route
<1>10. Route(q) \in ReqRow /\ RowOK(Route(q)) /\ Route(q).answer.data = {}
  BY <1>2, <1>5, <1>6, <1>7, <1>8, <1>9
<1> QED
  BY <1>10 DEF q

\* Only the row of request r changes, to n; what has come keeps its token, its
\* origin and its deployment.
LEMMA RowKeepsWorker ==
  ASSUME WorkerInv, NEW r \in Requests, NEW n \in ReqRow, reqs' = [reqs EXCEPT ![r] = n],
         RowOK(n), Came(r) => n.in = reqs[r].in /\ n.env = reqs[r].env,
         \A w \in n.answer.data : OwnedWatch(w),
         config' = config, cache' \in {None, config},
         \A w \in stored' : \/ w \in stored
                            \/ /\ w \in TenantIds \X Requests
                               /\ w[2] = r /\ w[1] = BearerOf(n)
  PROVE  WorkerInv'
<1>1. /\ reqs' \in [Requests -> ReqRow \cup NewRow] /\ reqs'[r] = n
      /\ \A x \in Requests : x # r => reqs'[x] = reqs[x]
  BY DEF WorkerInv
<1>2. n.st # "new"
  BY DEF ReqRow
<1>3. \A x \in Requests : Came(x) => Came(x)' /\ BearerOf(reqs'[x]) = BearerOf(reqs[x])
  BY <1>1, <1>2 DEF Came, BearerOf
<1>4. \A w : OwnedWatch(w) => OwnedWatch(w)'
  BY <1>3 DEF OwnedWatch
<1>5. \A w \in stored' : w \in TenantIds \X Requests /\ OwnedWatch(w)'
  <2> SUFFICES ASSUME NEW w \in stored'
               PROVE  w \in TenantIds \X Requests /\ OwnedWatch(w)'
    OBVIOUS
  <2>1. CASE w \in stored
    BY <1>4, <2>1 DEF WorkerInv
  <2>2. CASE w \in TenantIds \X Requests /\ w[2] = r /\ w[1] = BearerOf(n)
    BY <1>1, <1>2, <2>2 DEF OwnedWatch, Came
  <2> QED
    BY <2>1, <2>2
<1>6. ASSUME NEW x \in Requests, Came(x)'
      PROVE  RowOK(reqs'[x]) /\ \A w \in reqs'[x].answer.data : OwnedWatch(w)'
  <2>1. CASE x = r
    BY <1>1, <1>4, <2>1
  <2>2. CASE x # r
    <3>1. Came(x) /\ reqs'[x] = reqs[x]
      BY <1>1, <1>6, <2>2 DEF Came
    <3> QED
      BY <1>4, <3>1 DEF WorkerInv
  <2> QED
    BY <2>1, <2>2
<1>7. config' \in Deployments /\ cache' \in {None, config'}
  BY DEF WorkerInv
<1>8. (\A w \in stored : w \in TenantIds \X Requests /\ OwnedWatch(w))'
  BY <1>5
<1> QED
  BY <1>1, <1>6, <1>7, <1>8 DEF WorkerInv

\* What is known of a request that waits for its body or its tool.
LEMMA WaitingRow ==
  ASSUME WorkerInv, NEW r \in Requests, reqs[r].st \in {"body", "tool", "mcp"}
  PROVE  /\ Came(r) /\ reqs[r] \in ReqRow /\ RowOK(reqs[r])
         /\ reqs[r].tenant \in TenantIds /\ reqs[r].tenant = BearerOf(reqs[r])
         /\ reqs[r].tenant # None
         /\ \A w \in reqs[r].answer.data : OwnedWatch(w)
<1>1. Came(r) /\ reqs[r] \in ReqRow
  BY DEF WorkerInv, Came, NewRow
<1>2. RowOK(reqs[r]) /\ \A w \in reqs[r].answer.data : OwnedWatch(w)
  BY <1>1 DEF WorkerInv
<1>3. reqs[r].tenant # None /\ reqs[r].tenant = BearerOf(reqs[r])
  BY <1>2 DEF RowOK
<1> QED
  BY <1>1, <1>2, <1>3 DEF ReqRow

\* A waiting request goes on or is answered, without touching the store.
LEMMA LaterKeepsWorker ==
  ASSUME WorkerInv, NEW r \in Requests, reqs[r].st \in {"body", "tool", "mcp"},
         NEW n, Later(reqs[r], n), reqs' = [reqs EXCEPT ![r] = n],
         UNCHANGED <<config, cache, stored>>
  PROVE  WorkerInv'
<1>1. /\ RowOK(reqs[r]) /\ reqs[r].tenant # None
      /\ \A w \in reqs[r].answer.data : OwnedWatch(w)
  BY WaitingRow
<1>2. RowOK(n)
  BY <1>1, LaterOK
<1>3. /\ n \in ReqRow /\ n.in = reqs[r].in /\ n.env = reqs[r].env
      /\ \A w \in n.answer.data : OwnedWatch(w)
  BY <1>1 DEF Later
<1>4. cache \in {None, config}
  BY DEF WorkerInv
<1> QED
  BY <1>2, <1>3, <1>4, RowKeepsWorker

\* A tool stores and lists watches of the tenant of the request only.
LEMMA ToolKeepsWorker ==
  ASSUME WorkerInv, NEW r \in Requests, reqs[r].st \in {"tool", "mcp"},
         NEW path, RunTool(r, path), UNCHANGED <<config, cache>>
  PROVE  WorkerInv'
<1> DEFINE q == reqs[r]
           listed == IF path \in {"/watch/list", "/history"} THEN OwnWatches(q.tenant) ELSE {}
           m == Done(q, 200)
           n == [m EXCEPT !.answer.data = listed]
<1>1. /\ q \in ReqRow /\ RowOK(q) /\ q.tenant \in TenantIds /\ q.tenant = BearerOf(q)
      /\ q.tenant # None
  BY WaitingRow
<1>2. listed \in SUBSET (TenantIds \X Requests) /\ \A w \in listed : OwnedWatch(w) /\ w[1] = q.tenant
  BY DEF OwnWatches, WorkerInv
<1>3. Later(q, m)
  BY <1>1, RowSteps
<1>4. m \in ReqRow /\ m.answer \in Replies
  BY <1>3 DEF Later, ReqRow
<1>5. reqs' = [reqs EXCEPT ![r] = n]
  BY DEF RunTool
<1>6. \A w \in stored' : \/ w \in stored
                         \/ w \in TenantIds \X Requests /\ w[2] = r /\ w[1] = q.tenant
  <2>1. \/ stored' = stored \cup {<<q.tenant, r>>}
        \/ \E x \in Requests : stored' = stored \ {<<q.tenant, x>>}
        \/ stored' = stored
    BY DEF RunTool
  <2> QED
    BY <1>1, <2>1
<1>7. cache \in {None, config}
  BY DEF WorkerInv
<1> HIDE DEF q, m, listed
<1>8. /\ n \in ReqRow /\ n.in = m.in /\ n.env = m.env /\ n.src = m.src /\ n.tenant = m.tenant
      /\ n.st = m.st /\ n.answer.cors = m.answer.cors /\ n.answer.data = listed
  BY <1>2, <1>4 DEF ReqRow, Replies
<1> HIDE DEF n
<1>9. RowOK(m)
  BY <1>1, <1>3, LaterOK
<1>10. n.tenant = q.tenant /\ n.in = q.in /\ n.env = q.env
  BY <1>3, <1>8 DEF Later
<1>11. RowOK(n)
  BY <1>1, <1>2, <1>8, <1>9, <1>10 DEF RowOK, BearerOf, Fenced
<1>12. \A w \in n.answer.data : OwnedWatch(w)
  BY <1>2, <1>8
<1>13. BearerOf(n) = q.tenant
  BY <1>1, <1>10 DEF BearerOf
<1> QED
  BY <1>5, <1>6, <1>7, <1>8, <1>10, <1>11, <1>12, <1>13, RowKeepsWorker DEF q

\* Every step, handler by handler.
LEMMA WorkerStep == WorkerInv /\ [WorkerNext]_workerVars => WorkerInv'
<1> SUFFICES ASSUME WorkerInv, [WorkerNext]_workerVars
             PROVE  WorkerInv'
  OBVIOUS
<1>1. ASSUME NEW r \in Requests, Arrive(r)
      PROVE  WorkerInv'
  <2>1. cache' = config /\ config \in Deployments
    BY <1>1 DEF Arrive, WorkerInv
  <2>2. PICK in \in Inputs : reqs' = [reqs EXCEPT ![r] = Route(Routed(in, config, config))]
    BY <1>1, <2>1 DEF Arrive
  <2> DEFINE n == Route(Routed(in, config, config))
  <2>3. n \in ReqRow /\ RowOK(n) /\ n.answer.data = {}
    BY <2>1, RouteOK
  <2>4. reqs' = [reqs EXCEPT ![r] = n] /\ ~Came(r) /\ UNCHANGED <<config, stored>>
    BY <1>1, <2>2 DEF Arrive, Came
  <2> HIDE DEF n
  <2> QED
    BY <2>1, <2>3, <2>4, RowKeepsWorker
<1>2. ASSUME NEW r \in Requests, BodyRead(r)
      PROVE  WorkerInv'
  <2> DEFINE q == reqs[r]
  <2>1. q \in ReqRow /\ q.st = "body"
    BY <1>2, WaitingRow DEF BodyRead
  <2> DEFINE next == IF q.in.path = "/mcp" THEN "mcp" ELSE "tool"
             n == CASE q.in.body = "too large" -> Done(q, 413)
                    [] q.in.body = "broken" -> [q EXCEPT !.st = "done"]
                    [] q.in.body = "not an object" /\ q.in.path # "/mcp" -> Done(q, 400)
                    [] OTHER -> [q EXCEPT !.st = next]
  <2>2. next \in {"mcp", "tool"}
    OBVIOUS
  <2>3. \A s \in {"body", "tool", "mcp", "done"} : Later(q, [q EXCEPT !.st = s])
    BY <2>1, RowSteps
  <2>4. Later(q, Done(q, 413)) /\ Later(q, Done(q, 400))
    <3>1. \A status \in Nat : Later(q, Done(q, status))
      BY <2>1, RowSteps
    <3> QED
      BY <3>1
  <2>5. UNCHANGED <<config, cache, stored>>
    BY <1>2 DEF BodyRead
  <2>6. reqs' = [reqs EXCEPT ![r] = n]
    BY <1>2 DEF BodyRead
  <2> HIDE DEF next
  <2>7. Later(q, n)
    <3>1. Later(q, [q EXCEPT !.st = "done"]) /\ Later(q, [q EXCEPT !.st = next])
      BY <2>2, <2>3
    <3>2. CASE q.in.body = "too large"
      BY <2>4, <3>2
    <3>3. CASE q.in.body = "broken"
      BY <3>1, <3>3
    <3>4. CASE q.in.body \notin {"too large", "broken"}
      BY <2>4, <3>1, <3>4
    <3> QED
      BY <3>2, <3>3, <3>4
  <2> HIDE DEF n
  <2> QED
    BY <2>1, <2>5, <2>6, <2>7, LaterKeepsWorker
<1>3. ASSUME NEW r \in Requests, Tool(r) \/ Mcp(r)
      PROVE  WorkerInv'
  <2> DEFINE q == reqs[r]
  <2>1. q.st \in {"tool", "mcp"} /\ UNCHANGED <<config, cache>>
    BY <1>3 DEF Tool, Mcp
  <2>2. q \in ReqRow
    BY <2>1, WaitingRow
  <2>3. CASE \E path : RunTool(r, path)
    BY <2>1, <2>3, ToolKeepsWorker
  <2>4. CASE stored' = stored /\ \E s \in Nat : reqs' = [reqs EXCEPT ![r] = Done(q, s)]
    <3>1. PICK s \in Nat : reqs' = [reqs EXCEPT ![r] = Done(q, s)]
      BY <2>4
    <3>2. Later(q, Done(q, s))
      BY <2>2, RowSteps
    <3> QED
      BY <2>1, <2>4, <3>1, <3>2, LaterKeepsWorker
  <2> QED
    BY <1>3, <2>3, <2>4 DEF Tool, Mcp
<1>4. ASSUME NEW env \in Deployments, Deploy(env)
      PROVE  WorkerInv'
  BY <1>4 DEF Deploy, WorkerInv, OwnedWatch, Came
<1>5. CASE UNCHANGED workerVars
  BY <1>5 DEF workerVars, WorkerInv, OwnedWatch, Came
<1> QED
  BY <1>1, <1>2, <1>3, <1>4, <1>5 DEF WorkerNext

\* At first there is no request and nothing is stored.
LEMMA WorkerStart == WorkerInit => WorkerInv
<1> SUFFICES ASSUME WorkerInit
             PROVE  WorkerInv
  OBVIOUS
<1> DEFINE row == [st |-> "new"]
<1>1. row \in NewRow /\ row.st = "new"
  BY DEF NewRow
<1>2. reqs = [r \in Requests |-> row]
  BY DEF WorkerInit
<1> HIDE DEF row
<1> QED
  BY <1>1, <1>2 DEF WorkerInit, WorkerInv, Came

\* Every watch is stored and listed only for the tenant of the bearer token that
\* authorised the request, a request from an origin off the list gets nowhere, and
\* no catalog outlives its deployment: for all interleavings of requests and
\* deployments.
THEOREM AccessIsControlled == WorkerSpec => []AccessControl
<1>1. WorkerInv => AccessControl
  <2> SUFFICES ASSUME WorkerInv
               PROVE  AccessControl
    OBVIOUS
  <2>1. \A r : Bearer(r) = BearerOf(reqs[r])
    BY DEF Bearer, BearerOf
  <2>2. TenantIsolation
    <3>1. \A w \in stored : Came(w[2]) /\ w[1] = Bearer(w[2])
      BY <2>1 DEF WorkerInv, OwnedWatch
    <3>2. ASSUME NEW r \in Requests, Came(r), NEW w \in reqs[r].answer.data
          PROVE  Bearer(w[2]) = Bearer(r) /\ Bearer(r) # None
      <4>1. RowOK(reqs[r]) /\ OwnedWatch(w)
        BY <3>2 DEF WorkerInv
      <4>2. w[1] = reqs[r].tenant /\ reqs[r].tenant # None /\ reqs[r].tenant = BearerOf(reqs[r])
        BY <3>2, <4>1 DEF RowOK
      <4> QED
        BY <2>1, <4>1, <4>2 DEF OwnedWatch
    <3> QED
      BY <3>1, <3>2 DEF TenantIsolation
  <2>3. OriginFenced
    <3> SUFFICES ASSUME NEW r \in Requests, Came(r)
                 PROVE  LET q == reqs[r]
                            fenced == q.in.origin # None /\ q.in.origin \notin q.env.origins
                        IN /\ q.st = "done" /\ q.answer.cors # None =>
                                q.answer.cors = q.in.origin /\ ~fenced
                           /\ fenced => q.st = "done" /\ q.tenant = None /\ q.answer.data = {}
                           /\ q.src = q.env
      BY DEF OriginFenced
    <3>1. RowOK(reqs[r])
      BY DEF WorkerInv
    <3> QED
      BY <3>1 DEF RowOK, Fenced
  <2> QED
    BY <2>2, <2>3 DEF AccessControl
<1> QED
  BY <1>1, WorkerStart, WorkerStep, PTL DEF WorkerSpec

-----------------------------------------------------------------------------
(* The rotation of the tenants *)

\* What the variables hold.
RotationTypeOK ==
  /\ window \in 0..(N - 1)
  /\ due \in [Tenants -> Nat] /\ waited \in [Tenants -> Nat]
  /\ pass \in Seq(Tenants) /\ total \in Nat /\ waiting \subseteq Tenants

\* The invocations since the last one that began with tenant t.
Since(t) == IF t <= window THEN window - t ELSE window + N - t

\* A healthy tenant has waited no longer than since its turn; and while it is its
\* turn it is the first one visited, before any claim, as long as it waits.
Turns ==
  \A t \in Tenants \ Broken :
    /\ Since(t) > 0 => waited[t] < Since(t)
    /\ Since(t) = 0 =>
         /\ waited[t] < N
         /\ t \in waiting => pass # <<>> /\ Head(pass) = t /\ total = 0 /\ due[t] > 0

\* The inductive invariant.
RotationInv == RotationTypeOK /\ Turns

\* The next window, without the division.
LEMMA NextWindow ==
  ASSUME NEW m \in Nat \ {0}, NEW w \in 0..(m - 1)
  PROVE  (w + 1) % m = (IF w + 1 = m THEN 0 ELSE w + 1) /\ w % m = w
<1>1. w % m = w
  OBVIOUS
<1>2. CASE w + 1 = m
  BY <1>2
<1>3. CASE w + 1 # m
  <2>1. w + 1 \in 0..(m - 1)
    BY <1>3
  <2> QED BY <1>1, <1>3, <2>1
<1> QED BY <1>1, <1>2, <1>3

\* The tenants of an invocation begin with the one whose turn it is.
LEMMA ScheduleBegins ==
  ASSUME window \in 0..(N - 1)
  PROVE  LET s == ScheduledTenants(window, Limit)
         IN s \in Seq(Tenants) /\ s # <<>> /\ Head(s) = window + 1
<1> USE RotationAssumption
<1> DEFINE n == IF Limit < N THEN Limit ELSE N
           s == ScheduledTenants(window, Limit)
<1>1. n \in Nat \ {0} /\ s = [i \in 1..n |-> ((window + i - 1) % N) + 1]
  BY DEF ScheduledTenants
<1>2. \A i \in 1..n : ((window + i - 1) % N) + 1 \in Tenants
  <2> TAKE i \in 1..n
  <2>1. window + i - 1 \in Nat
    OBVIOUS
  <2>2. \A k \in Nat : k % N \in 0..(N - 1)
    OBVIOUS
  <2> QED BY <2>1, <2>2 DEF Tenants
<1> HIDE DEF n
<1>3. s \in Seq(Tenants) /\ Len(s) = n
  BY <1>1, <1>2
<1>4. s[1] = (window % N) + 1
  BY <1>1
<1>5. window % N = window
  BY NextWindow
<1>6. \A q \in Seq(Tenants) : Len(q) # 0 => q # <<>> /\ Head(q) = q[1]
  OBVIOUS
<1>7. s # <<>> /\ Head(s) = s[1]
  BY <1>1, <1>3, <1>6
<1> QED BY <1>3, <1>4, <1>5, <1>7

\* The rotation starts with everybody's turn to come.
LEMMA RotationStart == RotationInit => RotationInv
<1> SUFFICES ASSUME RotationInit PROVE RotationInv
  OBVIOUS
<1> USE RotationAssumption
<1>1. RotationTypeOK
  BY DEF RotationInit, RotationTypeOK, Tenants
<1>2. Turns
  BY DEF RotationInit, Turns, Since, Tenants
<1> QED BY <1>1, <1>2 DEF RotationInv

\* Firing gives the turn to the next tenant, and every other one waits one more.
LEMMA FireKeepsRotation == ASSUME RotationInv, Fire PROVE RotationInv'
<1> USE RotationAssumption
<1>1. /\ window' = IF window + 1 = N THEN 0 ELSE window + 1
      /\ pass' \in Seq(Tenants) /\ pass' # <<>> /\ Head(pass') = window + 1
  BY NextWindow, ScheduleBegins DEF Fire, RotationInv, RotationTypeOK
<1>2. RotationTypeOK'
  BY <1>1 DEF Fire, RotationInv, RotationTypeOK
<1>3. Turns'
  <2> SUFFICES ASSUME NEW t \in Tenants, t \notin Broken
      PROVE /\ Since(t)' > 0 => waited'[t] < Since(t)'
            /\ Since(t)' = 0 =>
                 /\ waited'[t] < N
                 /\ t \in waiting' => pass' # <<>> /\ Head(pass') = t /\ total' = 0 /\ due'[t] > 0
    BY DEF Turns, Tenants
  <2>1. t \in 1..N /\ window \in 0..(N - 1) /\ waited[t] \in Nat
    BY DEF Tenants, RotationInv, RotationTypeOK
  <2>2. waited'[t] = IF t \in waiting THEN waited[t] + 1 ELSE 0
    BY DEF Fire
  <2>3. t \in waiting => Since(t) # 0
    BY DEF Fire, RotationInv, Turns
  <2>4. t \in waiting => waited[t] < Since(t)
    BY <2>1, <2>3 DEF RotationInv, Turns, Since
  <2>5. Since(t)' = IF Since(t) + 1 = N THEN 0 ELSE Since(t) + 1
    BY <1>1, <2>1 DEF Since
  <2>6. Since(t) \in 0..(N - 1)
    BY <2>1 DEF Since
  <2>7. waited'[t] <= Since(t)
    BY <2>1, <2>2, <2>4, <2>6
  <2>8. waited'[t] \in Nat
    BY <2>1, <2>2
  <2>9. Since(t)' = 0 => t = window + 1
    BY <1>1, <2>1 DEF Since
  <2>10. total' = 0 /\ (t \in waiting' => due'[t] > 0)
    BY DEF Fire
  <2> QED BY <1>1, <2>5, <2>6, <2>7, <2>8, <2>9, <2>10
<1> QED BY <1>2, <1>3 DEF RotationInv

\* Within an invocation the tenant whose turn it is goes first: nothing is claimed
\* before it, and it is left only without a due watch.
LEMMA InvocationKeepsRotation ==
  ASSUME RotationInv, Claim \/ NextTenant \/ LimitReached \/ TenantFails PROVE RotationInv'
<1> USE RotationAssumption DEF RotationInv, RotationTypeOK
<1>1. pass # <<>> => Head(pass) \in Tenants /\ Tail(pass) \in Seq(Tenants)
  OBVIOUS
<1>2. /\ UNCHANGED <<window, waited>> /\ waiting' \subseteq waiting /\ pass # <<>>
      /\ \A t \in Tenants : Since(t)' = Since(t)
  BY DEF Claim, NextTenant, LimitReached, TenantFails, Since
<1>3. CASE Claim
  <2>1. \A t \in Tenants : t \in waiting' => t # Head(pass)
    BY <1>3 DEF Claim
  <2> QED BY <1>1, <1>2, <1>3, <2>1 DEF Claim, Turns
<1>4. CASE NextTenant
  BY <1>1, <1>2, <1>4 DEF NextTenant, Turns
<1>5. CASE LimitReached
  BY <1>1, <1>2, <1>5 DEF LimitReached, Turns
<1>6. CASE TenantFails
  BY <1>1, <1>2, <1>6 DEF TenantFails, Turns
<1> QED BY <1>3, <1>4, <1>5, <1>6

\* Every step keeps the invariant.
LEMMA RotationStep == RotationInv /\ [RotationNext]_rotationVars => RotationInv'
<1> SUFFICES ASSUME RotationInv, [RotationNext]_rotationVars PROVE RotationInv'
  OBVIOUS
<1> USE RotationAssumption
<1>1. ASSUME NEW t \in Tenants, Due(t) PROVE RotationInv'
  BY <1>1 DEF Due, RotationInv, RotationTypeOK, Turns, Since
<1>2. CASE UNCHANGED rotationVars
  BY <1>2 DEF rotationVars, RotationInv, RotationTypeOK, Turns, Since
<1> QED
  BY <1>1, <1>2, FireKeepsRotation, InvocationKeepsRotation DEF RotationNext

\* No healthy tenant with a due watch waits for N invocations, for any number of
\* tenants, any claim limit and any set of tenants that fail.
THEOREM NobodyStarves == RotationSpec => []NoStarvation
<1>1. RotationInv => NoStarvation
  <2> SUFFICES ASSUME RotationInv, NEW t \in Tenants \ Broken PROVE waited[t] < N
    BY DEF NoStarvation
  <2>1. t \in 1..N /\ N \in Nat /\ window \in 0..(N - 1) /\ waited[t] \in Nat
    BY RotationAssumption DEF Tenants, RotationInv, RotationTypeOK
  <2>2. Since(t) \in 0..(N - 1)
    BY <2>1 DEF Since
  <2> QED BY <2>1, <2>2 DEF RotationInv, Turns
<1> QED
  BY <1>1, RotationStart, RotationStep, PTL DEF RotationSpec
=============================================================================
