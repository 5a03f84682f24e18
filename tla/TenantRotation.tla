--------------------------- MODULE TenantRotation ---------------------------
(***************************************************************************)
(* How one cron invocation of the managed worker shares its claims between *)
(* tenants (comsat-cloud tenant_rotation.rs, runtime_watch.rs).  The cron  *)
(* fires once in every window of 300 seconds.  It walks over the tenants,  *)
(* beginning with another one in each window, claims the due watches of    *)
(* each until the claim limit of the invocation is used up, and gives up   *)
(* at the first error.                                                     *)
(***************************************************************************)
EXTENDS Naturals, Sequences

CONSTANTS
  N,       \* number of tenants, configured in the order 1..N
  Limit,   \* claim_limit of one invocation; WATCH_CLAIM_LIMIT 0 stops all claims
  MaxDue,  \* bound on the due watches of a tenant
  Broken   \* tenants whose claim or enqueue may fail

ASSUME RotationAssumption ==
  /\ N \in Nat \ {0}
  /\ Limit \in Nat \ {0}
  /\ MaxDue \in Nat \ {0}
  /\ Broken \subseteq 1..N

VARIABLES
  window,   \* now / 300 of the next invocation, modulo N: no more is read of it
  due,      \* due watches of each tenant
  pass,     \* tenants the running invocation has still to visit
  total,    \* claims made by the running invocation
  waiting,  \* history: tenants due since the invocation began, none claimed
  waited    \* history: invocations in a row that passed by a due tenant

rotationVars == <<window, due, pass, total, waiting, waited>>

Tenants == 1..N

\* Mutant of ScheduledTenants: every window starts with the first tenant.
MutNoRotation(win, limit) == [i \in 1..(IF limit < N THEN limit ELSE N) |-> i]

\* cycle().skip(window % len).take(limit.min(len)).
ScheduledTenants(win, limit) ==
  [i \in 1..(IF limit < N THEN limit ELSE N) |-> ((win + i - 1) % N) + 1]

RotationInit ==
  /\ window = 0
  /\ due = [t \in Tenants |-> 0]
  /\ pass = <<>>
  /\ total = 0
  /\ waiting = {}
  /\ waited = [t \in Tenants |-> 0]

\* A watch of tenant t becomes due, at any moment.
Due(t) ==
  /\ due[t] < MaxDue
  /\ due' = [due EXCEPT ![t] = @ + 1]
  /\ UNCHANGED <<window, pass, total, waiting, waited>>

\* The invocation of the next window; the previous one has long ended.
Fire ==
  /\ pass = <<>>
  /\ pass' = ScheduledTenants(window, Limit)
  /\ total' = 0
  /\ window' = (window + 1) % N
  /\ waiting' = {t \in Tenants : due[t] > 0}
  /\ waited' = [t \in Tenants |->
                  IF t \in waiting THEN waited[t] + 1 ELSE 0]
  /\ UNCHANGED due

\* claim_due_watch returns a watch and it is enqueued.
Claim ==
  /\ pass # <<>>
  /\ total < Limit
  /\ due[Head(pass)] > 0
  /\ due' = [due EXCEPT ![Head(pass)] = @ - 1]
  /\ total' = total + 1
  /\ waiting' = waiting \ {Head(pass)}
  /\ UNCHANGED <<window, pass, waited>>

\* Nothing more is due for this tenant.
NextTenant ==
  /\ pass # <<>>
  /\ total < Limit
  /\ due[Head(pass)] = 0
  /\ pass' = Tail(pass)
  /\ UNCHANGED <<window, due, total, waiting, waited>>

LimitReached ==
  /\ pass # <<>>
  /\ total = Limit
  /\ pass' = <<>>
  /\ UNCHANGED <<window, due, total, waiting, waited>>

\* A store or queue error ends the whole invocation.
TenantFails ==
  /\ pass # <<>>
  /\ total < Limit
  /\ Head(pass) \in Broken
  /\ pass' = <<>>
  /\ UNCHANGED <<window, due, total, waiting, waited>>

RotationNext ==
  \/ \E t \in Tenants : Due(t)
  \/ Fire
  \/ Claim
  \/ NextTenant
  \/ LimitReached
  \/ TenantFails

RotationSpec == RotationInit /\ [][RotationNext]_rotationVars

-----------------------------------------------------------------------------
(* Properties *)

\* No tenant starves: neither idle tenants, which cost a probe, nor busy ones,
\* which use up the claims, nor one that always fails and ends the invocation,
\* keep a healthy tenant with a due watch waiting for N invocations.
NoStarvation == \A t \in Tenants \ Broken : waited[t] < N

=============================================================================
