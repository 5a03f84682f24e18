---------------------------- MODULE BoundedRead ----------------------------
(***************************************************************************)
(* What every reader of a body promises, whatever the transport: it never  *)
(* holds more than Limit bytes, it hands over a body only if it has all of *)
(* it, it says "too large" only of a body that is, and says one thing.     *)
(***************************************************************************)
EXTENDS Naturals

CONSTANT Limit   \* bytes a body may have

VARIABLES
  size,    \* bytes the other side sends
  held,    \* bytes in memory
  verdict  \* "reading", "delivered", "too large" or "failed"

readVars == <<size, held, verdict>>

ReadInit == size \in Nat /\ held = 0 /\ verdict = "reading"

Take ==
  /\ verdict = "reading"
  /\ held' \in held..size
  /\ held' <= Limit
  /\ UNCHANGED <<size, verdict>>

Deliver ==
  /\ verdict = "reading"
  /\ size <= Limit
  /\ held' = size
  /\ verdict' = "delivered"
  /\ UNCHANGED size

Refuse ==
  /\ verdict = "reading"
  /\ size > Limit
  /\ verdict' = "too large"
  /\ UNCHANGED <<size, held>>

\* An error, a timeout, or nobody waits any more.
Fail ==
  /\ verdict = "reading"
  /\ held' \in held..size
  /\ held' <= Limit
  /\ verdict' = "failed"
  /\ UNCHANGED size

ReadNext == Take \/ Deliver \/ Refuse \/ Fail

ReadSpec == ReadInit /\ [][ReadNext]_readVars
=============================================================================
