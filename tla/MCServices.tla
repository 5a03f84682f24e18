---------------------------- MODULE MCServices ----------------------------
(***************************************************************************)
(* TLC instance of the parts of the managed worker and of the CLI that     *)
(* stand alone: the completion batch of D1, the tenant rotation of the     *)
(* cron, an HTTP exchange, the requests of the worker, and the database    *)
(* file of the CLI.  They share no state; a behaviour is one of one part,  *)
(* and the other parts stay in an initial state.                           *)
(***************************************************************************)
EXTENDS D1Store, TenantRotation, HttpExchange, WorkerRequest, CodeModeStore, TLC

CONSTANTS k1, k2, k3

\* Owners, runs and records are interchangeable in the store, and the two calls
\* of the first process in the database file.
Interchangeable ==
  Permutations(Owners) \cup Permutations(RunIds) \cup Permutations(RecordIds)
    \cup Permutations({k1, k2})

SomeProcesses == [c \in {k1, k2, k3} |-> IF c = k3 THEN 2 ELSE 1]

-----------------------------------------------------------------------------
\* Requests of two tenants, from no origin, a listed one and another.

In(method, path, origin, token, body) ==
  [method |-> method, path |-> path, origin |-> origin, token |-> token, body |-> body]

SomeInputs ==
  {In("POST", p, None, t, "object") : p \in ToolPaths \cup {"/mcp"}, t \in {"ta", "tb"}}
    \cup {In("GET", "/history", o, "ta", b) : o \in {None, "good", "bad"}, b \in {"none", "bad limit"}}
    \cup {In(m, p, o, None, "none") :
            m \in {"GET", "POST", "OPTIONS"}, p \in {"/", "/mcp"}, o \in {"good", "bad"}}
    \cup {In("POST", p, "good", "ta", b) :
            p \in {"/mcp", "/watch/add"}, b \in {"too large", "broken", "not an object"}}
    \cup {In("GET", p, "good", "ta", "none") : p \in {"/watch/add", "/health", "/mcp", "/none"}}
    \cup {In("POST", "/history", "good", "ta", "none"), In("POST", "/watch/add", None, None, "object")}

\* Both tenants; a rotated token, now of the other tenant; a weak token; no map.
SomeDeployments ==
  {[origins |-> {"good"}, tokens |-> [ta |-> "A", tb |-> "B"]],
   [origins |-> {}, tokens |-> [tb |-> "A"]],
   [origins |-> {"bad"}, tokens |-> [weak |-> "A", ta |-> "B"]],
   [origins |-> {"good"}, tokens |-> None]}

FirstDeployment == [origins |-> {}, tokens |-> [tb |-> "A"]]

-----------------------------------------------------------------------------
VARIABLE part   \* the part this behaviour is about

serviceVars == <<part, d1Vars, rotationVars, exchangeVars, workerVars, fileVars>>

ServicesInit ==
  /\ part \in {"d1", "rotation", "exchange", "worker", "file"}
  /\ D1Init
  /\ RotationInit
  /\ part # "exchange" => /\ reader = "native" /\ dns = {} /\ size = 0 /\ announced = FALSE
  /\ ExchangeInit
  /\ part # "worker" => config = FirstDeployment
  /\ WorkerInit
  /\ part # "file" => exists = FALSE
  /\ FileInit

\* Bounds: a delivery is attempted once at most; a tenant that always fails is
\* not followed past N invocations.
ServicesNext ==
  /\ UNCHANGED part
  /\ \/ /\ part = "d1" /\ D1Next /\ \A d \in deliveries' : d.attempts <= 1
        /\ UNCHANGED <<rotationVars, exchangeVars, workerVars, fileVars>>
     \/ /\ part = "rotation" /\ RotationNext /\ \A t \in Tenants : waited'[t] <= N
        /\ UNCHANGED <<d1Vars, exchangeVars, workerVars, fileVars>>
     \/ /\ part = "exchange" /\ ExchangeNext
        /\ UNCHANGED <<d1Vars, rotationVars, workerVars, fileVars>>
     \/ /\ part = "worker" /\ WorkerNext
        /\ UNCHANGED <<d1Vars, rotationVars, exchangeVars, fileVars>>
     \/ /\ part = "file" /\ FileNext
        /\ UNCHANGED <<d1Vars, rotationVars, exchangeVars, workerVars>>

ServicesSpec == ServicesInit /\ [][ServicesNext]_serviceVars
=============================================================================
