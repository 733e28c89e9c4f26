------------------------------ MODULE ApiClient ------------------------------
(***************************************************************************)
(* lib/api/client.ts and config.ts: where the requests of the hooks go.    *)
(* API_MODE is fixed when the bundle is built; it is "mock" unless the     *)
(* environment says otherwise.  In live mode the middleware of the server  *)
(* (cmd/server/main.go) refuses what has no key.                           *)
(***************************************************************************)
EXTENDS Naturals

CONSTANTS
    Modes,      \* values of API_MODE that are considered
    Nil,        \* null
    Refused,    \* an error body, to code that does not look at the status
    MaxFails    \* bound: requests that fail on the way or at the server

ASSUME ClientAssumption ==
    /\ Modes \subseteq {"live", "mock"}
    /\ MaxFails \in Nat

VARIABLES
    mode,       \* API_MODE
    fails       \* requests that have failed so far

clientVars == <<mode, fails>>

ClientTypeOK == mode \in Modes /\ fails \in 0..MaxFails

ClientInit == mode \in Modes /\ fails = 0

\* The mock answers in the browser: after a delay it reads or changes its
\* arrays, returns, and the code that awaited the answer goes on, without
\* anything else running in between.
MockAnswers == mode = "mock"

\* The network loses a request or its answer, or the server answers that it
\* has failed.
RequestFails ==
    /\ mode = "live"
    /\ fails < MaxFails
    /\ fails' = fails + 1
    /\ UNCHANGED mode

\* request sends no Authorization header, and every route that the modelled
\* hooks ask for is behind RequireAdmin or RequireAuth.
RequestRefused == mode = "live" /\ UNCHANGED clientVars

\* A live request of lib/api never succeeds: it throws, for one reason or the
\* other.  (The pages that call fetch themselves do send a key.)
RequestThrows == RequestRefused \/ RequestFails

=============================================================================
