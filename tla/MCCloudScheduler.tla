-------------------------- MODULE MCCloudScheduler --------------------------
(***************************************************************************)
(* TLC instances of the managed worker.                                    *)
(***************************************************************************)
EXTENDS CloudScheduler, TLC

CloudTimes == 0..MaxClock

\* Owners, which are also the run ids, consumers and records are interchangeable.
Symmetry ==
  Permutations(Owners) \cup Permutations(Consumers) \cup Permutations(RecordIds)

\* Bound for liveness: watches are not deleted, so that there is an owner for
\* every claim; each claim of a watch passes a later time than the one before.
CloudFairSpec ==
  CloudInit /\ [][CloudNext /\ (watches # {} => watches' # {})]_cloudVars
            /\ CloudFairness
=============================================================================
