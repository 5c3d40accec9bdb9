--------------------------- MODULE RequestService ---------------------------
(***************************************************************************)
(* What the diagnostic connection promises to the programs that use it.    *)
(* Always: requests end in the order they were queued, once, and answered  *)
(* only after they were executed; none is executed before one that was     *)
(* queued earlier.  While the connection is not disturbed by what is left  *)
(* of an earlier request: a request is executed at most once, and only     *)
(* while the tester waits for it, and the answer it ends with is its own.  *)
(***************************************************************************)
EXTENDS Integers

CONSTANT MaxRequests

Requests == 1 .. MaxRequests
Outcomes == {"none", "answered", "foreign", "failed", "dropped"}

VARIABLES
    issued,     \* the last request queued
    executions, \* how often a request has been executed
    served,     \* the last request executed
    outcome,    \* for each request, one of Outcomes
    disturbed   \* is the connection disturbed

vars == <<issued, executions, served, outcome, disturbed>>

Init ==
    /\ issued = 0 /\ executions = 0 /\ served = 0
    /\ outcome = [r \in Requests |-> "none"]
    /\ disturbed = FALSE

Oldest(r) ==
    outcome[r] = "none" /\ \A q \in 1 .. (r - 1) : outcome[q] # "none"

Serve ==
    /\ executions' = executions + 1
    /\ served' \in (served .. issued) \ {0}
    /\ ~disturbed' => served' > served /\ Oldest(served')
    /\ UNCHANGED <<issued, outcome>>

\* The tester queues at most one more request, and its oldest requests end.
Tester ==
    /\ issued' \in {issued, issued + 1} \cap 0 .. MaxRequests
    /\ outcome' \in [Requests -> Outcomes]
    /\ \A r \in Requests :
          /\ outcome[r] # "none" => outcome'[r] = outcome[r]
          /\ outcome[r] = "none" /\ outcome'[r] # "none" =>
                /\ r <= issued'
                /\ \A q \in 1 .. (r - 1) : outcome'[q] # "none"
                /\ outcome'[r] = "answered" => r <= served
                /\ ~disturbed' =>
                      /\ outcome'[r] # "foreign"
                      /\ outcome'[r] = "answered" => served = r
    /\ UNCHANGED <<executions, served>>

Next == disturbed' \in BOOLEAN /\ (Serve \/ Tester)
Spec == Init /\ [][Next]_vars
=============================================================================
