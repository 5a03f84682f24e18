--------------------------- MODULE MCSearchEngine ---------------------------
(***************************************************************************)
(* TLC instances of the search engine.                                     *)
(***************************************************************************)
EXTENDS SearchOrder

CONSTANTS a, b, c, r1, r2, r3

Three == <<a, b, c>>
AllKnown == {<<>>}
SomeUnknown == {<<>>, <<"u1", "u2">>}

\* r1 and r2 have the same url; every source returns them under its own ids.
UrlKeys(s, r) == {<<s, r>>, <<"url", IF r = r2 THEN r1 ELSE r>>}

Answer(chunks, data, outcome) ==
  [chunks |-> chunks, data |-> data, outcome |-> outcome]

\* A stream that the final data repeats, a stream one over the budget of two, a
\* failure after a record, final data with a rejected record, a rejected record in
\* a stream, nothing.
MergeScripts ==
  {Answer(<<r1, r3>>, <<r1, r3>>, "ok"), Answer(<<r2, r3, r2>>, <<>>, "ok"),
   Answer(<<r3>>, <<>>, "error"), Answer(<<>>, <<r2, BAD, r3>>, "ok"),
   Answer(<<r1, BAD>>, <<>>, "cancelled"), Answer(<<>>, <<>>, "ok")}
=============================================================================
