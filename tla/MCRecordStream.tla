--------------------------- MODULE MCRecordStream ---------------------------
(***************************************************************************)
(* TLC instances of the search command.                                    *)
(***************************************************************************)
EXTENDS RecordStream

CONSTANTS a, b, c, r1, r2, r3

Three == <<a, b, c>>
AllKnown == {<<>>}
SomeUnknown == {<<>>, <<"u1">>}

UrlKeys(s, r) == {<<s, r>>, <<"url", IF r = r2 THEN r1 ELSE r>>}

Answer(chunks, outcome) == [chunks |-> chunks, data |-> <<>>, outcome |-> outcome]

\* A record, a record and then a failure, a failure, nothing.
StreamScripts ==
  {Answer(<<r1>>, "ok"), Answer(<<r2>>, "error"), Answer(<<>>, "error"),
   Answer(<<>>, "ok")}
=============================================================================
