---------------------------- MODULE MCWatchStore ----------------------------
(***************************************************************************)
(* TLC instances of the store under any client.                            *)
(***************************************************************************)
EXTENDS WatchStore, TLC

\* Owners, runs and records are interchangeable in the store.
Symmetry ==
  Permutations(Owners) \cup Permutations(RunIds) \cup Permutations(RecordIds)

\* Bound: one attempt beyond MaxAttempts.  An attempt count past the limit is
\* treated alike whatever its value.
AttemptBound == MaxAttempts + 1

BoundedNext == Next /\ \A d \in deliveries' : d.attempts <= AttemptBound

BoundedSpec == Init /\ [][BoundedNext]_storeVars
=============================================================================
