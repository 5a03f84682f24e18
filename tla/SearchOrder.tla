----------------------------- MODULE SearchOrder -----------------------------
(***************************************************************************)
(* The order in which a search delivers its events, defined without tasks, *)
(* channels or time: what the merge would deliver if every source answered *)
(* at once.  The engine must deliver exactly this, however slow the        *)
(* sources are (the tests call it source-id stable).                       *)
(***************************************************************************)
EXTENDS SearchEngine

\* The items a call hands to the sink: its final data only if it streamed
\* nothing.
ItemsOf(script) ==
  IF script.chunks = <<>> /\ script.outcome = "ok" THEN script.data ELSE script.chunks

\* The first item the sink refuses, or one past the end.
Cut(items) ==
  CHOOSE i \in 1..(Len(items) + 1) :
    /\ i = Len(items) + 1 \/ i > MaxRecords \/ items[i] = BAD
    /\ \A j \in 1..(i - 1) : j <= MaxRecords /\ items[j] # BAD

\* The events of one source: the records before the cut and, if the sink
\* refused one or the call failed, the failure.
EventsOf(s, script) ==
  LET items == ItemsOf(script)
      records == [i \in 1..(Cut(items) - 1) |-> Record(s, items[i])]
  IN  IF Cut(items) <= Len(items) \/ script.outcome # "ok" THEN Append(records, Failed(s))
      ELSE records

\* Where the merge is: the sources that take turns and whose turn it is, those that
\* wait, how many events of each source are merged, the dedupe keys seen, and the
\* output.
MergeState(active, turn, waiting, taken, keys, output) ==
  [active |-> active, turn |-> turn, waiting |-> waiting, taken |-> taken, keys |-> keys,
   output |-> output]

MergeStart(asked) ==
  MergeState(FirstOf(asked, MaxActive), 1, RestOf(asked, MaxActive),
             [s \in Sources |-> 0], {}, <<>>)

\* One event from each active source in turn.  A source without events left
\* gives its slot up, and the next waiting source joins at the end.
MergeNext(events, strict, m) ==
  LET s == m.active[m.turn]
      rest == RemoveAt(m.active, m.turn)
      e == events[s][m.taken[s] + 1]
      keys == DedupeKeys(s, e.record)
      taken == [m.taken EXCEPT ![s] = @ + 1]
      next == (m.turn % Len(m.active)) + 1
  IN  IF m.active = <<>> THEN m
      ELSE IF m.taken[s] = Len(events[s])
        THEN MergeState(rest \o FirstOf(m.waiting, 1), IF m.turn > Len(rest) THEN 1 ELSE m.turn,
                        RestOf(m.waiting, 1), m.taken, m.keys, m.output)
      ELSE IF e.type = "failed" /\ strict
        THEN MergeState(<<>>, 1, <<>>, taken, m.keys, Append(m.output, e))
      ELSE IF e.type = "failed"
        THEN MergeState(m.active, next, m.waiting, taken, m.keys, Append(m.output, e))
      ELSE IF keys \cap m.keys = {}
        THEN MergeState(m.active, next, m.waiting, taken, m.keys \cup keys, Append(m.output, e))
      ELSE MergeState(m.active, next, m.waiting, taken, m.keys, m.output)

\* The merge after n steps.
Merge(events, strict, asked) ==
  LET M[n \in Nat] == IF n = 0 THEN MergeStart(asked) ELSE MergeNext(events, strict, M[n - 1])
  IN  M

\* A source has at most MaxRecords records and a failure, and then leaves.
MergeSteps == Len(Order) * (MaxRecords + 2)

\* A strict search for a source that is not registered asks nobody.
Asked == IF request.strict /\ request.missing # <<>> THEN <<>> ELSE Order

\* What every source has to say, and the merge of it all.
Streams == [s \in Sources |-> EventsOf(s, Script(s))]
Whole == Merge(Streams, request.strict, Asked)

\* The whole output: the plan's diagnostics, then the merge.
Reference == Diagnostics \o Whole[MergeSteps].output

\* Whatever the sources' timing, the number of slots and the buffer size, the
\* consumer sees a prefix of the reference order, and all of it when the stream
\* ends: order, dedupe winner and the point of a strict stop do not depend on
\* which upstream answered first.
OrderStable ==
  /\ IsPrefix(out, Reference)
  /\ At("ended") => out = Reference
=============================================================================
