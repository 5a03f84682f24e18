------------------------- MODULE MCNativeScheduler -------------------------
(***************************************************************************)
(* TLC instances of the native scheduler.                                  *)
(***************************************************************************)
EXTENDS NativeScheduler, TLC

NativeTimes == 0..MaxClock
NativeOwners == Pids \cup (Pids \X NativeTimes)
NativeRuns == Pids \X NativeTimes

Symmetry == Permutations(Procs) \cup Permutations(Pids) \cup Permutations(Targets)
\* Bound for liveness: time ends at MaxClock, so the last crash must leave one
\* lease duration for its lease to run out, and a pid to restart with.
CrashesEarly ==
  (\E p \in Procs : ~At(p, "down") /\ proc'[p].pc = "down")
    => usedPids # Pids /\ clock + LeaseSeconds <= MaxClock

\* Bound for liveness: watches are not deleted.
FairSpec ==
  NativeInit /\ [][NativeNext /\ CrashesEarly /\ (watches # {} => watches' # {})]_nativeVars
             /\ Fairness
=============================================================================
